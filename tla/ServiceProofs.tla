--------------------------- MODULE ServiceProofs ----------------------------
(***************************************************************************)
(* Proofs about the services and their shared structures: the connection   *)
(* limiters (ConnLimits), the handler's settings (HandlerSettings), the    *)
(* API's token buckets (APILimiter), the UDP server (UDPServer), the       *)
(* listeners (Listeners), the geo data (GeoRefresh) and the updaters       *)
(* (Updates). Each part has its inductive invariant, one lemma per action, *)
(* and the theorems at its end.                                            *)
(***************************************************************************)
EXTENDS ConnLimits, HandlerSettings, APILimiter, UDPServer, Listeners, GeoRefresh, Updates,
        FiniteSetTheorems, SequenceTheorems, WellFoundedInduction, TLAPS

-----------------------------------------------------------------------------
(* Connection limiters.                                                    *)
ConnRec == [st : {"none", "open", "refused", "hijacked"}, kind : CLKinds,
            ip : CLAddrs, lim : Limiters \cup {NilLim}, acq : BOOLEAN]

(* A connection that holds a slot is open and was counted by a limiter.    *)
CLHeld == \A c \in CLConns : clConn[c].acq => clConn[c].lim \in Limiters /\ clConn[c].st \in {"open", "refused"}

CLInv == CLTypeOK /\ CLHeld /\ SlotsExact

\* The connections of one address are finitely many.
LEMMA HoldersFinite ==
  ASSUME NEW l, NEW ip
  PROVE  IsFiniteSet(Holders(l, ip)) /\ Cardinality(Holders(l, ip)) \in Nat
<1>1. Holders(l, ip) \subseteq CLConns
  BY DEF Holders
<1>. QED  BY <1>1, FS_Subset, FS_CardinalityType, CLAssumption

(* A connection without a slot takes one of ip at l.                       *)
LEMMA SlotTaken ==
  ASSUME CLInv, NEW c \in CLConns, NEW l \in Limiters, NEW ip \in CLAddrs, NEW v \in ConnRec,
         ~clConn[c].acq, HasRoom(l, ip), v.acq, v.lim = l, v.ip = ip, v.st \in {"open", "refused"},
         clConn' = [clConn EXCEPT ![c] = v], clCount' = Acquired(l, ip)
  PROVE  /\ clConn' \in [CLConns -> ConnRec]
         /\ clCount' \in [Limiters -> [CLIPs -> 0..CLMax]]
         /\ CLHeld' /\ SlotsExact'
<1>1. clConn' \in [CLConns -> ConnRec]
  BY DEF CLInv, CLTypeOK, ConnRec
<1>2. CLHeld'
  BY DEF CLInv, CLTypeOK, CLHeld, ConnRec
<1>3. clCount' \in [Limiters -> [CLIPs -> 0..CLMax]]
  BY CLAssumption DEF CLInv, CLTypeOK, Acquired, HasRoom, CLAddrs
<1>4. ASSUME NEW l2 \in Limiters, NEW ip2 \in CLIPs
      PROVE  clCount'[l2][ip2] = Cardinality(Holders(l2, ip2)')
  <2>1. CASE l2 = l /\ ip2 = ip
    <3>1. Holders(l2, ip2)' = Holders(l2, ip2) \cup {c}
      BY <2>1 DEF Holders, CLInv, CLTypeOK
    <3>2. c \notin Holders(l2, ip2)
      BY DEF Holders
    <3>3. Cardinality(Holders(l2, ip2)') = Cardinality(Holders(l2, ip2)) + 1
      BY <3>1, <3>2, HoldersFinite, FS_AddElement
    <3>4. clCount'[l2][ip2] = clCount[l2][ip2] + 1
      BY <2>1, CLAssumption DEF CLInv, CLTypeOK, Acquired
    <3>. QED  BY <3>3, <3>4 DEF CLInv, SlotsExact
  <2>2. CASE ~(l2 = l /\ ip2 = ip)
    <3>1. Holders(l2, ip2)' = Holders(l2, ip2)
      BY <2>2 DEF Holders, CLInv, CLTypeOK
    <3>2. clCount'[l2][ip2] = clCount[l2][ip2]
      BY <2>2 DEF CLInv, CLTypeOK, Acquired
    <3>. QED  BY <3>1, <3>2 DEF CLInv, SlotsExact
  <2>. QED  BY <2>1, <2>2
<1>5. SlotsExact'
  BY <1>4 DEF SlotsExact
<1>. QED  BY <1>1, <1>2, <1>3, <1>5

(* A connection with a slot gives it back.                                 *)
LEMMA SlotGiven ==
  ASSUME CLInv, NEW c \in CLConns, NEW v \in ConnRec, clConn[c].acq, ~v.acq,
         clConn' = [clConn EXCEPT ![c] = v],
         clCount' = Released(clConn[c].lim, clConn[c].ip)
  PROVE  /\ clConn' \in [CLConns -> ConnRec]
         /\ clCount' \in [Limiters -> [CLIPs -> 0..CLMax]]
         /\ CLHeld' /\ SlotsExact'
<1>. DEFINE l == clConn[c].lim
            ip == clConn[c].ip
<1>0. l \in Limiters /\ ip \in CLAddrs
  BY DEF CLInv, CLTypeOK, CLHeld
<1>1. clConn' \in [CLConns -> ConnRec]
  BY DEF CLInv, CLTypeOK, ConnRec
<1>2. CLHeld'
  BY DEF CLInv, CLTypeOK, CLHeld, ConnRec
<1>3. clCount' \in [Limiters -> [CLIPs -> 0..CLMax]]
  <2>1. CASE ip = NoIP \/ clCount[l][ip] = 0
    BY <2>1 DEF CLInv, CLTypeOK, Released
  <2>2. CASE ~(ip = NoIP \/ clCount[l][ip] = 0)
    <3>0. ip \in CLIPs /\ clCount[l][ip] \in 0..CLMax
      BY <1>0, <2>2 DEF CLInv, CLTypeOK, CLAddrs
    <3>1. clCount[l][ip] - 1 \in 0..CLMax
      BY <2>2, <3>0, CLAssumption
    <3>2. clCount' = [clCount EXCEPT ![l][ip] = clCount[l][ip] - 1]
      BY <2>2 DEF Released
    <3>. QED  BY <1>0, <3>0, <3>1, <3>2 DEF CLInv, CLTypeOK
  <2>. QED  BY <2>1, <2>2
<1>4. ASSUME NEW l2 \in Limiters, NEW ip2 \in CLIPs
      PROVE  clCount'[l2][ip2] = Cardinality(Holders(l2, ip2)')
  <2>1. CASE l2 = l /\ ip2 = ip
    <3>1. Holders(l2, ip2)' = Holders(l2, ip2) \ {c}
      BY <2>1 DEF Holders, CLInv, CLTypeOK
    <3>2. c \in Holders(l2, ip2)
      BY <2>1 DEF Holders
    <3>3. Cardinality(Holders(l2, ip2)') = Cardinality(Holders(l2, ip2)) - 1
      BY <3>1, <3>2, HoldersFinite, FS_RemoveElement, ZenonT(60)
    <3>4. Cardinality(Holders(l2, ip2)) # 0
      BY <3>2, HoldersFinite, FS_EmptySet
    <3>5. clCount[l2][ip2] # 0
      BY <3>4 DEF CLInv, SlotsExact
    <3>6. clCount'[l2][ip2] = clCount[l2][ip2] - 1
      BY <2>1, <3>5, CLAssumption DEF CLInv, CLTypeOK, Released
    <3>. QED  BY <3>3, <3>6 DEF CLInv, SlotsExact
  <2>2. CASE ~(l2 = l /\ ip2 = ip)
    <3>1. Holders(l2, ip2)' = Holders(l2, ip2)
      BY <2>2 DEF Holders, CLInv, CLTypeOK
    <3>2. clCount'[l2][ip2] = clCount[l2][ip2]
      BY <2>2 DEF CLInv, CLTypeOK, Released
    <3>. QED  BY <3>1, <3>2 DEF CLInv, SlotsExact
  <2>. QED  BY <2>1, <2>2
<1>5. SlotsExact'
  BY <1>4 DEF SlotsExact
<1>. QED  BY <1>1, <1>2, <1>3, <1>5

(* A connection without a slot changes and takes none.                     *)
LEMMA SlotNone ==
  ASSUME CLInv, NEW c \in CLConns, NEW v \in ConnRec, ~clConn[c].acq, ~v.acq,
         clConn' = [clConn EXCEPT ![c] = v], clCount' = clCount
  PROVE  /\ clConn' \in [CLConns -> ConnRec]
         /\ clCount' \in [Limiters -> [CLIPs -> 0..CLMax]]
         /\ CLHeld' /\ SlotsExact'
<1>1. clConn' \in [CLConns -> ConnRec]
  BY DEF CLInv, CLTypeOK, ConnRec
<1>2. CLHeld'
  BY DEF CLInv, CLTypeOK, CLHeld, ConnRec
<1>3. clCount' \in [Limiters -> [CLIPs -> 0..CLMax]]
  BY DEF CLInv, CLTypeOK
<1>4. ASSUME NEW l2 \in Limiters, NEW ip2 \in CLIPs
      PROVE  clCount'[l2][ip2] = Cardinality(Holders(l2, ip2)')
  <2>1. Holders(l2, ip2)' = Holders(l2, ip2)
    BY DEF Holders, CLInv, CLTypeOK
  <2>. QED  BY <2>1 DEF CLInv, SlotsExact
<1>5. SlotsExact'
  BY <1>4 DEF SlotsExact
<1>. QED  BY <1>1, <1>2, <1>3, <1>5

\* The invariant holds in the initial states.
LEMMA CLInitial == CLInit => CLInv
<1>. SUFFICES ASSUME CLInit PROVE CLInv
  OBVIOUS
<1>1. CLTypeOK
  BY CLAssumption DEF CLInit, CLTypeOK, CLKinds, Limiters, NilLim, IdleConn, CLAddrs
<1>2. CLHeld
  BY DEF CLInit, CLHeld, IdleConn
<1>3. ASSUME NEW l \in Limiters, NEW ip \in CLIPs
      PROVE  clCount[l][ip] = Cardinality(Holders(l, ip))
  <2>1. Holders(l, ip) = {}
    BY DEF CLInit, Holders, IdleConn
  <2>. QED  BY <2>1, FS_EmptySet DEF CLInit
<1>. QED  BY <1>1, <1>2, <1>3 DEF CLInv, SlotsExact

\* A connection not made yet holds no slot.
LEMMA IdleRecord == IdleConn \in ConnRec /\ ~IdleConn.acq
  BY DEF IdleConn, ConnRec, CLKinds, CLAddrs, NilLim

\* A connection is accepted, or refused at its cap.
LEMMA CLAccept ==
  ASSUME CLInv, NEW c \in CLConns, NEW ip \in CLAddrs, AcceptTCP(c, ip)
  PROVE  CLInv'
<1>. DEFINE l == clLsn["tcp"]
            rec(st, acq) == [st |-> st, kind |-> "tcp", ip |-> ip, lim |-> l, acq |-> acq]
<1>1. l \in Limiters \cup {NilLim} /\ ~clConn[c].acq
  BY DEF CLInv, CLTypeOK, CLHeld, AcceptTCP, CLKinds
<1>2. rec("open", FALSE) \in ConnRec /\ rec("open", TRUE) \in ConnRec /\ rec("refused", FALSE) \in ConnRec
  BY <1>1 DEF ConnRec, CLKinds
<1>3. clConn' \in [CLConns -> ConnRec] /\ clCount' \in [Limiters -> [CLIPs -> 0..CLMax]] /\ CLHeld' /\ SlotsExact'
  <2>1. CASE clConn' = [clConn EXCEPT ![c] = rec("open", FALSE)] /\ UNCHANGED clCount
    BY <1>1, <1>2, <2>1, SlotNone
  <2>2. CASE /\ l # NilLim /\ HasRoom(l, ip)
             /\ clConn' = [clConn EXCEPT ![c] = rec("open", TRUE)]
             /\ clCount' = Acquired(l, ip)
    <3>. DEFINE v == rec("open", TRUE)
    <3>1. v.acq /\ v.lim = l /\ v.ip = ip /\ v.st = "open"
      OBVIOUS
    <3>. HIDE DEF v
    <3>. QED  BY <1>1, <1>2, <2>2, <3>1, SlotTaken DEF v
  <2>3. CASE clConn' = [clConn EXCEPT ![c] = rec("refused", FALSE)] /\ UNCHANGED clCount
    BY <1>1, <1>2, <2>3, SlotNone
  <2>. QED  BY <2>1, <2>2, <2>3 DEF AcceptTCP
<1>4. CLTypeOK'
  BY <1>3 DEF CLInv, CLTypeOK, AcceptTCP, ConnRec
<1>. QED  BY <1>3, <1>4 DEF CLInv

\* An HTTP connection is counted by ConnState, or closed at its cap.
LEMMA CLHTTPNew ==
  ASSUME CLInv, NEW c \in CLConns, NEW ip \in CLAddrs, HTTPNew(c, ip)
  PROVE  CLInv'
<1>. DEFINE l == clLsn["http"]
            ok == l # NilLim /\ HasRoom(l, ip)
            v == [st |-> IF l = NilLim \/ ok THEN "open" ELSE "refused",
                  kind |-> "http", ip |-> ip, lim |-> l, acq |-> ok]
<1>1. l \in Limiters \cup {NilLim} /\ ~clConn[c].acq
  BY DEF CLInv, CLTypeOK, CLHeld, HTTPNew, CLKinds
<1>2. ok \in BOOLEAN
  BY DEF HasRoom
<1>3. v \in ConnRec /\ (v.acq <=> ok) /\ v.lim = l /\ v.ip = ip /\ v.st \in {"open", "refused"}
  BY <1>1, <1>2 DEF ConnRec, CLKinds
<1>4. clConn' = [clConn EXCEPT ![c] = v] /\ clCount' = IF ok THEN Acquired(l, ip) ELSE clCount
  BY DEF HTTPNew
<1>5. clConn' \in [CLConns -> ConnRec] /\ clCount' \in [Limiters -> [CLIPs -> 0..CLMax]] /\ CLHeld' /\ SlotsExact'
  <2>. HIDE DEF v
  <2>1. CASE ok
    BY <1>1, <1>3, <1>4, <2>1, SlotTaken
  <2>2. CASE ~ok
    BY <1>1, <1>3, <1>4, <2>2, SlotNone
  <2>. QED  BY <2>1, <2>2
<1>6. CLTypeOK'
  BY <1>5 DEF CLInv, CLTypeOK, HTTPNew, ConnRec
<1>. QED  BY <1>5, <1>6 DEF CLInv

(* Every end of a connection is one of these.                              *)
LEMMA CLEnd ==
  ASSUME CLInv, NEW c \in CLConns, NEW v \in ConnRec, ~v.acq,
         clConn' = [clConn EXCEPT ![c] = v],
         clCount' = IF clConn[c].acq THEN Released(clConn[c].lim, clConn[c].ip) ELSE clCount,
         UNCHANGED <<clLim, clMade, clLsn>>
  PROVE  CLInv'
<1>1. clConn' \in [CLConns -> ConnRec] /\ clCount' \in [Limiters -> [CLIPs -> 0..CLMax]] /\ CLHeld' /\ SlotsExact'
  <2>1. CASE clConn[c].acq
    BY <2>1, SlotGiven
  <2>2. CASE ~clConn[c].acq
    BY <2>2, SlotNone
  <2>. QED  BY <2>1, <2>2
<1>2. CLTypeOK'
  BY <1>1 DEF CLInv, CLTypeOK, ConnRec
<1>. QED  BY <1>1, <1>2 DEF CLInv

\* A hijacked connection gives its slot back.
LEMMA CLHijack ==
  ASSUME CLInv, NEW c \in CLConns, HTTPHijacked(c)
  PROVE  CLInv'
<1>. DEFINE v == [clConn[c] EXCEPT !.st = "hijacked", !.acq = FALSE]
<1>1. v \in ConnRec /\ ~v.acq
  BY DEF CLInv, CLTypeOK, ConnRec
<1>2. clConn' = [clConn EXCEPT ![c] = v]
  BY DEF HTTPHijacked, CLInv, CLTypeOK
<1>. HIDE DEF v
<1>. QED  BY <1>1, <1>2, CLEnd DEF HTTPHijacked

\* The end of a hijacked connection gives nothing back a second time.
LEMMA CLHijackedEnd ==
  ASSUME CLInv, NEW c \in CLConns, HijackedEnds(c)
  PROVE  CLInv'
<1>1. ~clConn[c].acq
  BY DEF HijackedEnds, CLInv, CLHeld
<1>. QED  BY <1>1, IdleRecord, CLEnd DEF HijackedEnds

\* The limiter is replaced; open connections keep theirs.
LEMMA CLSettings ==
  ASSUME CLInv, (\E t, h \in BOOLEAN : SetConnLimits(t, h)) \/ (\E k \in CLKinds : ListenerStarts(k))
  PROVE  CLInv'
<1>1. CLTypeOK'
  <2>1. ASSUME NEW t \in BOOLEAN, NEW h \in BOOLEAN, SetConnLimits(t, h)
        PROVE  CLTypeOK'
    <3>1. clMade \in 1..CLSwaps
      BY <2>1, CLAssumption DEF SetConnLimits, CLInv, CLTypeOK
    <3>2. 2 * clMade + 1 \in Limiters /\ 2 * clMade + 2 \in Limiters
      BY <3>1, CLAssumption DEF Limiters
    <3>3. clLim' \in [CLKinds -> Limiters \cup {NilLim}] /\ clMade' \in 1..(CLSwaps + 1)
      BY <2>1, <3>1, <3>2, CLAssumption DEF SetConnLimits, NilLim
    <3>. QED  BY <2>1, <3>3 DEF SetConnLimits, CLInv, CLTypeOK
  <2>2. ASSUME NEW k \in CLKinds, ListenerStarts(k)
        PROVE  CLTypeOK'
    BY <2>2 DEF ListenerStarts, CLInv, CLTypeOK
  <2>. QED  BY <2>1, <2>2
<1>2. UNCHANGED <<clConn, clCount>>
  BY DEF SetConnLimits, ListenerStarts
<1>. QED  BY <1>1, <1>2 DEF CLInv, CLHeld, SlotsExact, Holders

\* Every step keeps the invariant.
LEMMA CLStep == CLInv /\ [CLNext]_CLVars => CLInv'
<1>. SUFFICES ASSUME CLInv, [CLNext]_CLVars PROVE CLInv'
  OBVIOUS
<1>1. ASSUME NEW c \in CLConns, CloseTCP(c) \/ HTTPClosed(c)
      PROVE  CLInv'
  BY <1>1, IdleRecord, CLEnd DEF CloseTCP, HTTPClosed
<1>2. CASE UNCHANGED CLVars
  BY <1>2 DEF CLVars, CLInv, CLTypeOK, CLHeld, SlotsExact, Holders
<1>. QED  BY <1>1, <1>2, CLAccept, CLHTTPNew, CLHijack, CLHijackedEnd, CLSettings DEF CLNext

(* The limiters' types, and with them the cap: no limiter ever counts more *)
(* than CLMax connections of an address (acquire).                         *)
THEOREM ConnLimitsTyped == CLSpec => []CLTypeOK
<1>1. CLInv => CLTypeOK
  BY DEF CLInv
<1>. QED  BY <1>1, CLInitial, CLStep, PTL DEF CLSpec

(* For any number of connections, addresses and limiter swaps, a count is  *)
(* exactly the open connections it stands for: no slot is leaked and none  *)
(* is given back twice (trackedConn.Close, HTTPConnState).                 *)
THEOREM ConnSlotsExact == CLSpec => []SlotsExact
<1>1. CLInv => SlotsExact
  BY DEF CLInv
<1>. QED  BY <1>1, CLInitial, CLStep, PTL DEF CLSpec

(* A connection is refused only while its address holds the whole cap of   *)
(* that listener (limitListener.Accept, ConnState at StateNew).            *)
THEOREM ConnRefusedOnlyAtCap == CLSpec => RefusedOnlyAtCap
<1>. DEFINE A == \A c \in CLConns :
                   clConn[c].st = "none" /\ clConn'[c].st = "refused" =>
                     /\ clConn'[c].ip /= NoIP
                     /\ Cardinality(Holders(clConn'[c].lim, clConn'[c].ip)) = CLMax
<1>1. CLInv /\ [CLNext]_CLVars => [A]_CLVars
  <2>. SUFFICES ASSUME CLInv, CLNext, NEW c \in CLConns,
                       clConn[c].st = "none", clConn'[c].st = "refused"
                PROVE  /\ clConn'[c].ip /= NoIP
                       /\ Cardinality(Holders(clConn'[c].lim, clConn'[c].ip)) = CLMax
    OBVIOUS
  <2>1. PICK ip \in CLAddrs : AcceptTCP(c, ip) \/ HTTPNew(c, ip)
    BY ZenonT(60) DEF CLNext, SetConnLimits, ListenerStarts, AcceptTCP, HTTPNew, CloseTCP, HTTPClosed,
           HTTPHijacked, HijackedEnds, CLInv, CLTypeOK, IdleConn
  <2>2. PICK k \in CLKinds : /\ clConn'[c].ip = ip /\ clConn'[c].lim = clLsn[k]
                             /\ clLsn[k] # NilLim /\ ~HasRoom(clLsn[k], ip)
    BY <2>1 DEF AcceptTCP, HTTPNew, CLKinds, CLInv, CLTypeOK
  <2>3. ip \in CLIPs /\ clLsn[k] \in Limiters
    BY <2>2 DEF HasRoom, CLAddrs, CLInv, CLTypeOK
  <2>4. clCount[clLsn[k]][ip] = CLMax
    <3>1. clCount[clLsn[k]][ip] \in 0..CLMax
      BY <2>3 DEF CLInv, CLTypeOK
    <3>2. ~(clCount[clLsn[k]][ip] < CLMax)
      BY <2>2, <2>3 DEF HasRoom
    <3>. QED  BY <3>1, <3>2, CLAssumption
  <2>. QED  BY <2>2, <2>3, <2>4, CLAssumption DEF CLInv, SlotsExact
<1>. QED  BY <1>1, CLInitial, CLStep, PTL DEF CLSpec, RefusedOnlyAtCap

-----------------------------------------------------------------------------
(* Handler settings.                                                       *)
Snapshot == [HSFields -> 0..HSCalls]
CallRec == [pc : {"copied"}, field : HSFields, base : Snapshot, copy : Snapshot]
Memo == ((0..HSCalls) \X (0..HSCalls)) \cup {NoTables}

(* A call in hand changes its own field only; every number was given out.  *)
HSCallOK(c) ==
  hsSet[c] # NoCallYet =>
    /\ hsSet[c] \in CallRec /\ hsSet[c].field \in SetsField(c)
    /\ \A f \in HSFields : f # hsSet[c].field => hsSet[c].copy[f] = hsSet[c].base[f]
    /\ \A f \in HSFields : hsSet[c].copy[f] <= hsCalls /\ hsSet[c].base[f] <= hsCalls

HSTyped ==
  /\ hsPub \in Snapshot /\ hsLast \in Snapshot /\ hsCalls \in 0..HSCalls
  /\ \A f \in HSFields : hsPub[f] <= hsCalls
  /\ DOMAIN hsSet = HSCallers /\ \A c \in HSCallers : HSCallOK(c)
  /\ hsMemo \in [HSClients -> Memo] /\ hsLook \in [HSClients -> Memo]

(* What was made, closed or published of a pooled field, and a call of the *)
(* configuration that is about to replace it: its number is the largest.   *)
HSMadeOK ==
  /\ hsMade \subseteq Pooled \X (0..HSCalls) /\ hsClosed \subseteq hsMade
  /\ \A f \in Pooled : <<f, hsPub[f]>> \in hsMade
  /\ \A p \in hsMade : p[2] <= hsCalls

HSNewest ==
  \A f \in Pooled :
    hsSet["config"] # NoCallYet /\ hsSet["config"].field = f =>
      /\ hsPub[f] < hsSet["config"].copy[f]
      /\ \A p \in hsMade : p[1] = f => p[2] < hsSet["config"].copy[f]
      /\ \A c \in HSCallers : c # "config" /\ hsSet[c] # NoCallYet => hsSet[c].base[f] < hsSet["config"].copy[f]

HSInv ==
  /\ HSTyped /\ HSMadeOK /\ HSNewest
  /\ SettingsKept /\ ClosedWasReplaced /\ MemoFollowsTables

\* What a setter sets; only the configuration swaps pools.
LEMMA SetterFields ==
  ASSUME NEW c \in HSCallers
  PROVE  SetsField(c) \subseteq HSFields /\ \A f \in SetsField(c) : f \in Pooled => c = "config"
  BY DEF HSCallers, SetsField, HSFields, Pooled

\* The pools are among the settings.
LEMMA PooledFields == Pooled \subseteq HSFields
  BY DEF Pooled, HSFields

\* A lookup under way is not the absence of one.
LEMMA NotIdle == \A r \in CallRec : r # NoCallYet
  BY DEF CallRec, NoCallYet

\* The invariant holds in the initial states.
LEMMA HSInitial == HSInit => HSInv
<1>. SUFFICES ASSUME HSInit PROVE HSInv
  OBVIOUS
<1>1. HSTyped
  BY HSAssumption DEF HSInit, HSTyped, HSCallOK, Snapshot, Memo
<1>2. HSMadeOK /\ HSNewest
  BY HSAssumption, PooledFields DEF HSInit, HSMadeOK, HSNewest, HSCallers
<1>3. SettingsKept /\ ClosedWasReplaced
  BY PooledFields DEF HSInit, SettingsKept, ClosedWasReplaced
<1>4. MemoFollowsTables
  BY DEF HSInit, MemoFollowsTables
<1>. QED  BY <1>1, <1>2, <1>3, <1>4 DEF HSInv

(* A setter copies the snapshot.                                           *)
LEMMA HSCopy ==
  ASSUME HSInv, NEW c \in HSCallers, NEW f \in HSFields, CopySettings(c, f)
  PROVE  HSInv'
<1>. DEFINE n == hsCalls + 1
            r == [pc |-> "copied", field |-> f, base |-> hsPub, copy |-> [hsPub EXCEPT ![f] = n]]
<1>0. n \in 0..HSCalls /\ hsCalls \in Nat /\ n > hsCalls /\ hsCalls' = n
  BY HSAssumption DEF HSInv, HSTyped, CopySettings
<1>1. r \in CallRec
  BY <1>0 DEF CallRec, HSInv, HSTyped, Snapshot
<1>2. /\ hsSet' = [hsSet EXCEPT ![c] = r] /\ f \in SetsField(c)
      /\ UNCHANGED <<hsPub, hsLast, hsClosed, hsMade, hsMemo, hsLook, hsUndone, hsRaced>>
  BY DEF CopySettings
<1>3. /\ r.field = f /\ r.base = hsPub /\ r.copy[f] = n
      /\ \A g \in HSFields : g # f => r.copy[g] = hsPub[g]
  BY DEF HSInv, HSTyped, Snapshot
<1>4. \A g \in HSFields : hsPub[g] \in 0..HSCalls /\ hsPub[g] <= hsCalls
  BY DEF HSInv, HSTyped, Snapshot
<1>5. DOMAIN hsSet' = HSCallers /\ hsSet'[c] = r /\ \A d \in HSCallers : d # c => hsSet'[d] = hsSet[d]
  BY <1>2 DEF HSInv, HSTyped
<1>. HIDE DEF r, n
<1>6. \A d \in HSCallers : HSCallOK(d)'
  <2>. SUFFICES ASSUME NEW d \in HSCallers PROVE HSCallOK(d)'
    OBVIOUS
  <2>1. CASE d = c
    <3>1. \A g \in HSFields : r.copy[g] <= n /\ r.base[g] <= n
      BY <1>0, <1>3, <1>4
    <3>. QED  BY <2>1, <1>0, <1>1, <1>2, <1>3, <1>5, <3>1 DEF HSCallOK
  <2>2. CASE d # c
    <3>1. hsSet[d] # NoCallYet =>
            \A g \in HSFields : hsSet[d].copy[g] \in Nat /\ hsSet[d].base[g] \in Nat
      BY HSAssumption DEF HSInv, HSTyped, HSCallOK, CallRec, Snapshot
    <3>. QED  BY <2>2, <1>0, <1>5, <3>1 DEF HSInv, HSTyped, HSCallOK
  <2>. QED  BY <2>1, <2>2
<1>7. HSTyped'
  BY <1>0, <1>2, <1>4, <1>5, <1>6 DEF HSInv, HSTyped
<1>8. HSMadeOK'
  <2>1. \A p \in hsMade : p[2] \in Nat
    BY HSAssumption DEF HSInv, HSMadeOK
  <2>. QED  BY <1>0, <1>2, <2>1 DEF HSInv, HSMadeOK
<1>9. HSNewest'
  <2>. SUFFICES ASSUME NEW g \in Pooled, hsSet'["config"] # NoCallYet, hsSet'["config"].field = g
                PROVE  /\ hsPub[g] < hsSet'["config"].copy[g]
                       /\ \A p \in hsMade : p[1] = g => p[2] < hsSet'["config"].copy[g]
                       /\ \A d \in HSCallers : d # "config" /\ hsSet'[d] # NoCallYet =>
                            hsSet'[d].base[g] < hsSet'["config"].copy[g]
    BY <1>2 DEF HSNewest
  <2>1. CASE c = "config"
    <3>1. f = g /\ hsSet'["config"].copy[g] = n
      BY <2>1, <1>3, <1>5
    <3>2. \A p \in hsMade : p[2] \in Nat /\ p[2] <= hsCalls
      BY HSAssumption DEF HSInv, HSMadeOK
    <3>3. \A d \in HSCallers : d # "config" /\ hsSet'[d] # NoCallYet =>
            hsSet'[d].base[g] \in Nat /\ hsSet'[d].base[g] <= hsCalls
      BY <2>1, <1>5, HSAssumption, PooledFields DEF HSInv, HSTyped, HSCallOK, CallRec, Snapshot
    <3>. QED  BY <1>0, <1>4, <3>1, <3>2, <3>3, PooledFields
  <2>2. CASE c # "config"
    <3>1. hsSet'["config"] = hsSet["config"]
      BY <2>2, <1>5 DEF HSCallers
    <3>2. hsPub[g] < hsSet["config"].copy[g]
      BY <3>1 DEF HSInv, HSNewest
    <3>3. \A d \in HSCallers : d # "config" /\ hsSet'[d] # NoCallYet =>
            hsSet'[d].base[g] < hsSet["config"].copy[g]
      BY <1>3, <1>5, <3>1, <3>2 DEF HSInv, HSNewest
    <3>. QED  BY <3>1, <3>2, <3>3 DEF HSInv, HSNewest
  <2>. QED  BY <2>1, <2>2
<1>10. SettingsKept' /\ ClosedWasReplaced' /\ MemoFollowsTables'
  BY <1>2 DEF HSInv, SettingsKept, ClosedWasReplaced, MemoFollowsTables, Tables
<1>. QED  BY <1>7, <1>8, <1>9, <1>10 DEF HSInv

(* A setter publishes its copy and closes what it replaced.                *)
LEMMA HSSwap ==
  ASSUME HSInv, NEW c \in HSCallers, SwapSettings(c)
  PROVE  HSInv'
<1>. DEFINE fld == hsSet[c].field
            cp == hsSet[c].copy
            new == {<<f, cp[f]>> : f \in Pooled}
<1>0. hsSet[c] \in CallRec /\ hsSet[c] # NoCallYet /\ fld \in SetsField(c) /\ fld \in HSFields
  BY SetterFields DEF SwapSettings, HSInv, HSTyped, HSCallOK
<1>1. /\ cp \in Snapshot /\ hsSet[c].base \in Snapshot
      /\ \A f \in HSFields : f # fld => cp[f] = hsSet[c].base[f]
      /\ \A f \in HSFields : cp[f] <= hsCalls
  BY <1>0 DEF HSInv, HSTyped, HSCallOK, CallRec
<1>2. /\ hsPub' = cp /\ hsLast' = [hsLast EXCEPT ![fld] = cp[fld]]
      /\ hsMade' = hsMade \cup new
      /\ hsClosed' = IF fld \in Pooled THEN hsClosed \cup {<<fld, hsPub[fld]>>} ELSE hsClosed
      /\ hsUndone' = (hsUndone \ ({fld} \ Pooled)) \cup {f \in HSFields \ {fld} : hsSet[c].base[f] # hsPub[f]}
      /\ hsMemo' = [i \in HSClients |-> NoTables]
      /\ hsSet' = [hsSet EXCEPT ![c] = NoCallYet]
      /\ UNCHANGED <<hsCalls, hsLook>>
  BY DEF SwapSettings, CloseReplaced, UndoneBy
<1>3. hsSet'[c] = NoCallYet /\ DOMAIN hsSet' = HSCallers /\ \A d \in HSCallers : d # c => hsSet'[d] = hsSet[d]
  BY <1>2 DEF HSInv, HSTyped
<1>4. fld \in Pooled => /\ c = "config" /\ hsPub[fld] < cp[fld]
                        /\ \A p \in hsMade : p[1] = fld => p[2] < cp[fld]
  <2>1. fld \in Pooled => c = "config"
    BY <1>0, SetterFields
  <2>. QED  BY <1>0, <2>1 DEF HSInv, HSNewest
<1>5. \A f \in Pooled : cp[f] \in 0..HSCalls /\ cp[f] <= hsCalls
  BY <1>1, PooledFields DEF Snapshot
<1>. HIDE DEF fld, cp
<1>6. HSTyped'
  <2>1. hsLast' \in Snapshot
    BY <1>0, <1>1, <1>2 DEF Snapshot, HSInv, HSTyped
  <2>2. \A d \in HSCallers : HSCallOK(d)'
    BY <1>2, <1>3 DEF HSInv, HSTyped, HSCallOK
  <2>3. hsMemo' \in [HSClients -> Memo] /\ hsLook' \in [HSClients -> Memo]
    BY <1>2 DEF Memo, HSInv, HSTyped
  <2>. QED  BY <1>1, <1>2, <1>3, <2>1, <2>2, <2>3 DEF HSInv, HSTyped
<1>7. new \subseteq Pooled \X (0..HSCalls) /\ \A p \in new : p[2] <= hsCalls
  BY <1>5
<1>8. \A f \in Pooled : <<f, cp[f]>> \in new
  OBVIOUS
<1>9. HSMadeOK'
  <2>1. hsClosed' \subseteq hsMade'
    BY <1>2 DEF HSInv, HSMadeOK
  <2>. QED  BY <1>2, <1>7, <1>8, <2>1 DEF HSInv, HSMadeOK
<1>10. HSNewest'
  <2>. SUFFICES ASSUME NEW g \in Pooled, hsSet'["config"] # NoCallYet, hsSet'["config"].field = g
                PROVE  /\ hsPub'[g] < hsSet'["config"].copy[g]
                       /\ \A p \in hsMade' : p[1] = g => p[2] < hsSet'["config"].copy[g]
                       /\ \A d \in HSCallers : d # "config" /\ hsSet'[d] # NoCallYet =>
                            hsSet'[d].base[g] < hsSet'["config"].copy[g]
    BY DEF HSNewest
  <2>1. c # "config" /\ hsSet'["config"] = hsSet["config"]
    BY <1>3 DEF HSCallers
  <2>2. fld \notin Pooled
    BY <1>4, <2>1
  <2>3. cp[g] = hsSet[c].base[g]
    BY <1>1, <2>2, PooledFields
  <2>4. cp[g] < hsSet["config"].copy[g]
    BY <1>0, <2>1, <2>3 DEF HSInv, HSNewest
  <2>5. \A p \in new : p[1] = g => p[2] = cp[g]
    OBVIOUS
  <2>6. \A p \in hsMade' : p[1] = g => p[2] < hsSet["config"].copy[g]
    BY <1>2, <2>1, <2>4, <2>5 DEF HSInv, HSNewest
  <2>. QED  BY <1>2, <1>3, <2>1, <2>4, <2>6 DEF HSInv, HSNewest
<1>11. ClosedWasReplaced'
  <2>. SUFFICES ASSUME NEW p \in hsClosed' PROVE \E q \in hsMade' : q[1] = p[1] /\ q[2] > p[2]
    BY DEF ClosedWasReplaced
  <2>1. CASE p \in hsClosed
    BY <1>2, <2>1 DEF HSInv, ClosedWasReplaced
  <2>2. CASE fld \in Pooled /\ p = <<fld, hsPub[fld]>>
    <3>1. <<fld, cp[fld]>> \in hsMade' /\ hsPub[fld] < cp[fld]
      BY <1>2, <1>4, <1>8, <2>2
    <3>2. hsPub[fld] \in Nat /\ cp[fld] \in Nat
      BY <1>0, <1>5, <2>2, HSAssumption DEF HSInv, HSTyped, Snapshot
    <3>. QED  BY <2>2, <3>1, <3>2
  <2>. QED  BY <1>2, <2>1, <2>2
<1>12. SettingsKept'
  <2>. SUFFICES ASSUME NEW f \in HSFields, f \notin hsUndone'
                PROVE  /\ hsPub'[f] = hsLast'[f]
                       /\ f \in Pooled => \A v \in 0..HSCalls :
                            <<f, v>> \in hsClosed' <=> <<f, v>> \in hsMade' /\ v /= hsPub'[f]
    BY DEF SettingsKept
  <2>1. CASE f = fld
    <3>1. hsPub'[f] = hsLast'[f]
      BY <1>0, <1>1, <1>2, <2>1 DEF HSInv, HSTyped, Snapshot
    <3>2. ASSUME f \in Pooled, NEW v \in 0..HSCalls
          PROVE  <<f, v>> \in hsClosed' <=> <<f, v>> \in hsMade' /\ v /= hsPub'[f]
      <4>1. f \notin hsUndone
        BY <1>2, <2>1, <3>2
      <4>2. <<f, v>> \in hsClosed <=> <<f, v>> \in hsMade /\ v /= hsPub[f]
        BY <3>2, <4>1 DEF HSInv, SettingsKept
      <4>3. <<f, hsPub[f]>> \in hsMade
        BY <3>2 DEF HSInv, HSMadeOK
      <4>4. <<f, cp[f]>> \notin hsMade
        <5>1. cp[f] \in Nat
          BY <1>5, <3>2, HSAssumption
        <5>2. <<f, cp[f]>> \in hsMade => cp[f] < cp[f]
          BY <1>4, <2>1, <3>2
        <5>. QED  BY <5>1, <5>2
      <4>5. <<f, v>> \in new <=> v = cp[f]
        BY <3>2
      <4>. HIDE DEF new
      <4>. QED  BY <1>2, <2>1, <3>2, <4>2, <4>3, <4>4, <4>5
    <3>. QED  BY <3>1, <3>2
  <2>2. CASE f # fld
    <3>1. f \notin hsUndone /\ hsSet[c].base[f] = hsPub[f]
      BY <1>2, <2>2
    <3>2. cp[f] = hsPub[f] /\ hsLast'[f] = hsLast[f]
      BY <1>1, <1>2, <2>2, <3>1 DEF HSInv, HSTyped, Snapshot
    <3>3. hsPub'[f] = hsLast'[f]
      BY <1>2, <3>1, <3>2 DEF HSInv, SettingsKept
    <3>4. ASSUME f \in Pooled, NEW v \in 0..HSCalls
          PROVE  <<f, v>> \in hsClosed' <=> <<f, v>> \in hsMade' /\ v /= hsPub'[f]
      <4>1. <<f, v>> \in hsClosed <=> <<f, v>> \in hsMade /\ v /= hsPub[f]
        BY <3>1, <3>4 DEF HSInv, SettingsKept
      <4>2. <<f, v>> \in hsClosed' <=> <<f, v>> \in hsClosed
        BY <1>2, <2>2
      <4>3. <<f, v>> \in new <=> v = cp[f]
        BY <3>4
      <4>4. <<f, hsPub[f]>> \in hsMade
        BY <3>4 DEF HSInv, HSMadeOK
      <4>. HIDE DEF new
      <4>. QED  BY <1>2, <3>2, <4>1, <4>2, <4>3, <4>4
    <3>. QED  BY <3>3, <3>4
  <2>. QED  BY <2>1, <2>2
<1>13. MemoFollowsTables'
  BY <1>2 DEF MemoFollowsTables
<1>. QED  BY <1>6, <1>9, <1>10, <1>11, <1>12, <1>13 DEF HSInv

\* clientASN reads the memo, or fills it.
LEMMA HSLookup ==
  ASSUME HSInv, NEW i \in HSClients, ClientASNLoads(i) \/ ClientASNStores(i)
  PROVE  HSInv'
<1>1. UNCHANGED <<hsPub, hsSet, hsCalls, hsLast, hsClosed, hsMade, hsUndone>>
  BY DEF ClientASNLoads, ClientASNStores
<1>2. Tables(hsPub) \in Memo
  BY DEF HSInv, HSTyped, Snapshot, Tables, Memo, HSFields
<1>3. hsMemo' \in [HSClients -> Memo] /\ hsLook' \in [HSClients -> Memo]
  <2>1. CASE ClientASNLoads(i)
    BY <1>2, <2>1 DEF ClientASNLoads, HSInv, HSTyped
  <2>2. CASE ClientASNStores(i)
    <3>1. NoTables \in Memo /\ hsLook[i] \in Memo
      BY DEF Memo, HSInv, HSTyped
    <3>. QED  BY <2>2, <3>1 DEF ClientASNStores, HSInv, HSTyped
  <2>. QED  BY <2>1, <2>2
<1>4. MemoFollowsTables'
  <2>1. CASE ClientASNLoads(i)
    BY <2>1 DEF ClientASNLoads, HSInv, MemoFollowsTables, Tables
  <2>2. CASE ClientASNStores(i)
    <3>. SUFFICES ASSUME NEW j \in HSClients, j \notin hsRaced' PROVE hsMemo'[j] \in {NoTables, Tables(hsPub)}
      BY <1>1 DEF MemoFollowsTables, Tables
    <3>1. CASE j = i
      <4>1. hsLook[i] = Tables(hsPub)
        BY <2>2, <3>1 DEF ClientASNStores
      <4>2. hsMemo'[i] = hsLook[i]
        BY <2>2 DEF ClientASNStores, HSInv, HSTyped
      <4>. QED  BY <3>1, <4>1, <4>2
    <3>2. CASE j # i
      <4>1. j \notin hsRaced
        BY <2>2, <3>2 DEF ClientASNStores
      <4>2. hsMemo[j] \in {NoTables, Tables(hsPub)}
        BY <4>1 DEF HSInv, MemoFollowsTables
      <4>3. hsMemo'[j] \in {hsMemo[j], NoTables}
        BY <2>2, <3>2 DEF ClientASNStores, HSInv, HSTyped
      <4>. QED  BY <4>2, <4>3
    <3>. QED  BY <3>1, <3>2
  <2>. QED  BY <2>1, <2>2
<1>5. HSTyped' /\ HSMadeOK' /\ HSNewest'
  BY <1>1, <1>3 DEF HSInv, HSTyped, HSCallOK, HSMadeOK, HSNewest
<1>6. SettingsKept' /\ ClosedWasReplaced'
  BY <1>1 DEF HSInv, SettingsKept, ClosedWasReplaced
<1>. QED  BY <1>4, <1>5, <1>6 DEF HSInv

\* Every step keeps the invariant.
LEMMA HSStep == HSInv /\ [HSNext]_HSVars => HSInv'
<1>. SUFFICES ASSUME HSInv, [HSNext]_HSVars PROVE HSInv'
  OBVIOUS
<1>1. CASE UNCHANGED HSVars
  BY <1>1 DEF HSVars, HSInv, HSTyped, HSCallOK, HSMadeOK, HSNewest, SettingsKept, ClosedWasReplaced,
              MemoFollowsTables, Tables
<1>. QED  BY <1>1, HSCopy, HSSwap, HSLookup DEF HSNext

(* Snapshots, closed sets and memo entries keep their types, and nothing   *)
(* is closed that no setter made (swapSettings).                           *)
THEOREM SettingsTyped == HSSpec => []HSTypeOK
<1>1. HSInv => HSTypeOK
  BY DEF HSInv, HSTyped, HSMadeOK, HSCallOK, HSTypeOK, Snapshot, Memo
<1>. QED  BY <1>1, HSInitial, HSStep, PTL DEF HSSpec

(* For any number of setter calls, overlapping as they may: every field    *)
(* but those a swap put back from an outdated copy holds what its setter   *)
(* published last, with exactly its own upstreams open.                    *)
THEOREM SettingsAreKept == HSSpec => []SettingsKept
<1>1. HSInv => SettingsKept
  BY DEF HSInv
<1>. QED  BY <1>1, HSInitial, HSStep, PTL DEF HSSpec

(* In every interleaving of the setters, an upstream set is closed only    *)
(* when a newer one of its kind was made (the cleanup of SetUpstreams and  *)
(* of SetUpstreamRoutes).                                                  *)
THEOREM SettingsClosedWasReplaced == HSSpec => []ClosedWasReplaced
<1>1. HSInv => ClosedWasReplaced
  BY DEF HSInv
<1>. QED  BY <1>1, HSInitial, HSStep, PTL DEF HSSpec

(* A memo entry is of the published tables but for the one race: a lookup  *)
(* begun before a swap and stored after it, until the next swap            *)
(* (ClientASN).                                                            *)
THEOREM SettingsMemo == HSSpec => []MemoFollowsTables
<1>1. HSInv => MemoFollowsTables
  BY DEF HSInv
<1>. QED  BY <1>1, HSInitial, HSStep, PTL DEF HSSpec

-----------------------------------------------------------------------------
(* The API's token buckets.  Times are compared in units, R(t) == t *      *)
(* ALRate, so that every step is linear once the products are named.       *)
R(t) == t * ALRate
Spent(h) == h.allowed * ALCost

\* A number of ticks is worth a number of tokens.
LEMMA RInt == \A a \in Int : R(a) \in Int
  BY ALAssumption DEF R

\* What a span is worth is the difference of its ends.
LEMMA RMinus == \A a, b \in Int : R(a - b) = R(a) - R(b) /\ (a - b) * ALRate = R(a) - R(b)
  BY ALAssumption DEF R

\* A longer span is worth no less.
LEMMA RMono == \A a, b \in Int : a <= b => R(a) <= R(b)
<1>. SUFFICES ASSUME NEW a \in Int, NEW b \in Int, a <= b PROVE R(a) <= R(b)
  OBVIOUS
<1>1. b - a \in Nat /\ ALRate \in Nat
  BY ALAssumption
<1>2. R(b - a) = R(b) - R(a) /\ R(a) \in Int /\ R(b) \in Int
  BY RMinus, RInt
<1>3. R(b - a) >= 0
  BY <1>1 DEF R
<1>. QED  BY <1>2, <1>3

BucketRec == [on : BOOLEAN, tokens : Int, seen : Nat]
HistRec == [allowed : Nat, since : Nat]
AllowRec == [pc : {"locking"}, client : ALClients, at : Nat]

(* A bucket owes no more than the time it was set back by, and what it let *)
(* through is covered up to its clock; a client without one has been away  *)
(* for so long that a full bucket is covered too.                          *)
BucketOK(b, h, now) ==
  /\ b.on =>
       /\ h.allowed > 0 /\ b.seen <= now /\ b.tokens <= ALBurst
       /\ b.tokens + R(now) - R(b.seen) >= 0 /\ b.tokens + R(ALPause) >= 0
       /\ Spent(h) + b.tokens <= ALBurst + R(b.seen) - R(h.since)
  /\ ~b.on =>
       /\ b.tokens = 0
       /\ h.allowed > 0 => Spent(h) <= R(now) - R(ALPause) - R(h.since)

ALInv ==
  /\ alNow \in Nat /\ alNow <= ALTime
  /\ alBuckets \in [ALClients -> BucketRec] /\ alHist \in [ALClients -> HistRec]
  /\ DOMAIN alCall = ALCalls
  /\ \A p \in ALCalls : alCall[p] # NoAllow =>
       alCall[p] \in AllowRec /\ alCall[p].at <= alNow /\ alNow - alCall[p].at <= ALPause
  /\ \A c \in ALClients : BucketOK(alBuckets[c], alHist[c], alNow)

\* What was spent is a number.
LEMMA SpentTyped ==
  ASSUME NEW h \in HistRec
  PROVE  h.allowed \in Nat /\ h.since \in Nat /\ Spent(h) \in Nat
<1>1. h.allowed \in Nat /\ h.since \in Nat
  BY DEF HistRec
<1>2. h.allowed * ALCost \in Nat
  BY <1>1, ALAssumption
<1>. QED  BY <1>1, <1>2 DEF Spent

\* One more request let through spends one token more.
LEMMA SpentMore ==
  ASSUME NEW h \in HistRec, NEW k \in HistRec, k.allowed = h.allowed + 1
  PROVE  Spent(k) = Spent(h) + ALCost
  BY ALAssumption DEF Spent, HistRec

\* The invariant holds in the initial states.
LEMMA ALInitial == ALInit => ALInv
<1>1. NoBucket \in BucketRec /\ ~NoBucket.on /\ NoBucket.tokens = 0
  BY DEF NoBucket, BucketRec
<1>. QED  BY <1>1, ALAssumption DEF ALInit, ALInv, BucketOK, HistRec

(* Time passes.                                                            *)
LEMMA BucketLater ==
  ASSUME NEW b \in BucketRec, NEW h \in HistRec, NEW now \in Nat, BucketOK(b, h, now)
  PROVE  BucketOK(b, h, now + 1)
<1>1. now + 1 \in Int /\ now \in Int /\ now <= now + 1 /\ ALPause \in Int
  BY ALAssumption
<1>3. R(now) <= R(now + 1) /\ R(now) \in Int /\ R(now + 1) \in Int /\ R(ALPause) \in Int
  BY <1>1, RInt, RMono
<1>2. R(b.seen) \in Int /\ R(h.since) \in Int /\ Spent(h) \in Nat /\ b.tokens \in Int /\ b.seen \in Nat
  BY RInt, SpentTyped DEF BucketRec, HistRec
<1>. QED  BY <1>2, <1>3 DEF BucketOK

(* An idle bucket is forgotten.                                            *)
LEMMA BucketEvicted ==
  ASSUME NEW b \in BucketRec, NEW h \in HistRec, NEW now \in Nat, NEW t \in Nat, t <= now,
         BucketOK(b, h, now), b.on, t - b.seen > ALIdle
  PROVE  BucketOK(NoBucket, h, now)
<1>1. R(b.seen) \in Int /\ R(h.since) \in Int /\ Spent(h) \in Nat /\ b.tokens \in Int /\ b.seen \in Nat
  BY RInt, SpentTyped DEF BucketRec, HistRec
<1>2. R(ALIdle) >= ALBurst + 2 * R(ALPause)
  BY ALAssumption DEF R
<1>3. R(now - b.seen) = R(now) - R(b.seen) /\ R(ALIdle) <= R(now - b.seen)
  <2>1. now \in Int /\ b.seen \in Int /\ ALIdle \in Int /\ now - b.seen \in Int /\ ALIdle <= now - b.seen
    BY <1>1, ALAssumption
  <2>. QED  BY <2>1, RMinus, RMono
<1>4. R(now) \in Int /\ R(ALPause) \in Int /\ R(ALIdle) \in Int
  BY RInt, ALAssumption
<1>5. ALBurst + 2 * R(ALPause) <= R(now) - R(b.seen)
  BY <1>1, <1>2, <1>3, <1>4, ALAssumption
<1>6. b.tokens + R(ALPause) >= 0 /\ Spent(h) + b.tokens <= ALBurst + R(b.seen) - R(h.since)
  BY DEF BucketOK
<1>7. Spent(h) <= R(now) - R(ALPause) - R(h.since)
  BY <1>1, <1>4, <1>5, <1>6, ALAssumption
<1>. QED  BY <1>7 DEF BucketOK, NoBucket

(* A client without a bucket gets one by the clock t.                      *)
LEMMA BucketMade ==
  ASSUME NEW b \in BucketRec, NEW h \in HistRec, NEW now \in Nat, NEW t \in Nat, t <= now, now - t <= ALPause,
         BucketOK(b, h, now), ~b.on, NEW v \in BucketRec, NEW k \in HistRec,
         v.on, v.tokens = ALBurst - ALCost, v.seen = t, k.allowed = h.allowed + 1,
         k.since = IF h.allowed = 0 THEN t ELSE h.since
  PROVE  BucketOK(v, k, now)
<1>1. R(t) \in Int /\ R(now) \in Int /\ R(ALPause) \in Int /\ R(h.since) \in Int /\ R(t) <= R(now) /\ h.allowed \in Nat
  BY RInt, RMono, ALAssumption DEF HistRec
<1>2. R(ALPause) >= 0
  <2>1. R(0) <= R(ALPause)
    BY RMono, ALAssumption
  <2>2. R(0) = 0
    BY ALAssumption DEF R
  <2>. QED  BY <2>1, <2>2
<1>3. R(now) - R(ALPause) <= R(t)
  <2>0. now - t \in Int /\ now \in Int /\ t \in Int /\ ALPause \in Int
    BY ALAssumption
  <2>1. R(now - t) <= R(ALPause) /\ R(now - t) = R(now) - R(t)
    BY <2>0, RMinus, RMono
  <2>. QED  BY <1>1, <2>1
<1>4. Spent(k) = Spent(h) + ALCost /\ Spent(h) \in Nat /\ Spent(k) \in Nat
  BY SpentMore, SpentTyped
<1>5. Spent(k) + v.tokens <= ALBurst + R(t) - R(k.since)
  <2>1. CASE h.allowed = 0
    <3>1. Spent(h) = 0
      BY <2>1, ALAssumption DEF Spent
    <3>2. k.since = t
      BY <2>1
    <3>. QED  BY <3>1, <3>2, <1>1, <1>4, ALAssumption
  <2>2. CASE h.allowed # 0
    <3>1. Spent(h) <= R(now) - R(ALPause) - R(h.since)
      BY <2>2, <1>1 DEF BucketOK
    <3>2. k.since = h.since
      BY <2>2
    <3>. QED  BY <3>1, <3>2, <1>1, <1>3, <1>4, ALAssumption
  <2>. QED  BY <2>1, <2>2
<1>6. k.allowed > 0 /\ v.tokens >= 0 /\ v.tokens <= ALBurst /\ v.tokens \in Int
  BY <1>1, ALAssumption
<1>7. v.tokens + R(now) - R(v.seen) >= 0 /\ v.tokens + R(ALPause) >= 0
  BY <1>1, <1>2, <1>6
<1>. QED  BY <1>5, <1>6, <1>7 DEF BucketOK

(* A bucket is refilled and charged by the clock t.                        *)
LEMMA BucketCharged ==
  ASSUME NEW b \in BucketRec, NEW h \in HistRec, NEW now \in Nat, NEW t \in Nat, t <= now, now - t <= ALPause,
         BucketOK(b, h, now), b.on, NEW v \in BucketRec, NEW k \in HistRec, NEW n \in Int,
         n = Refilled(b, t), v.on, v.seen = t, k.since = h.since,
         v.tokens = IF n >= ALCost THEN n - ALCost ELSE n,
         k.allowed = IF n >= ALCost THEN h.allowed + 1 ELSE h.allowed
  PROVE  BucketOK(v, k, now)
<1>1. /\ R(t) \in Int /\ R(now) \in Int /\ R(ALPause) \in Int /\ R(h.since) \in Int /\ R(b.seen) \in Int
      /\ R(t) <= R(now) /\ b.tokens \in Int /\ b.seen \in Nat /\ h.allowed \in Nat
  BY RInt, RMono, ALAssumption DEF HistRec, BucketRec
<1>2. R(now) - R(t) <= R(ALPause)
  <2>0. now - t \in Int /\ now \in Int /\ t \in Int /\ ALPause \in Int
    BY ALAssumption
  <2>1. R(now - t) <= R(ALPause) /\ R(now - t) = R(now) - R(t)
    BY <2>0, RMinus, RMono
  <2>. QED  BY <1>1, <2>1
<1>. DEFINE m == b.tokens + R(t) - R(b.seen)
<1>3. n = IF m > ALBurst THEN ALBurst ELSE m
  <2>1. (t - b.seen) * ALRate = R(t) - R(b.seen)
    <3>1. t \in Int /\ b.seen \in Int
      BY <1>1
    <3>. QED  BY <3>1, RMinus, Zenon
  <2>. QED  BY <1>1, <2>1 DEF Refilled
<1>4. m \in Int /\ n <= m /\ n <= ALBurst
  BY <1>1, <1>3, ALAssumption
<1>5. m + R(now) - R(t) >= 0
  BY <1>1 DEF BucketOK
<1>6. Spent(h) + m <= ALBurst + R(t) - R(h.since)
  BY <1>1, SpentTyped, ALAssumption DEF BucketOK
<1>. HIDE DEF m
<1>7. v.tokens <= ALBurst /\ v.tokens \in Int /\ k.allowed > 0
  BY <1>1, <1>4, ALAssumption DEF BucketOK
<1>8. v.tokens + R(now) - R(t) >= 0
  <2>1. CASE n >= ALCost
    <3>1. v.tokens >= 0
      BY <2>1, ALAssumption
    <3>. QED  BY <1>1, <1>7, <3>1
  <2>2. CASE n < ALCost
    <3>1. v.tokens = m
      BY <2>2, <1>3, <1>4, ALAssumption
    <3>. QED  BY <1>5, <3>1
  <2>. QED  BY <2>1, <2>2, ALAssumption
<1>9. v.tokens + R(ALPause) >= 0
  BY <1>1, <1>2, <1>7, <1>8
<1>10. Spent(k) + v.tokens <= ALBurst + R(t) - R(h.since)
  <2>1. Spent(h) \in Nat /\ Spent(k) \in Nat
    BY SpentTyped
  <2>2. CASE n >= ALCost
    <3>1. Spent(k) = Spent(h) + ALCost
      BY <2>2, SpentMore
    <3>2. v.tokens = n - ALCost
      BY <2>2
    <3>. QED  BY <1>1, <1>4, <1>6, <2>1, <3>1, <3>2, ALAssumption
  <2>3. CASE n < ALCost
    <3>1. Spent(k) = Spent(h) /\ v.tokens = n
      BY <2>3, ALAssumption DEF Spent
    <3>. QED  BY <1>1, <1>4, <1>6, <2>1, <3>1, ALAssumption
  <2>. QED  BY <2>2, <2>3, ALAssumption
<1>. QED  BY <1>1, <1>7, <1>8, <1>9, <1>10 DEF BucketOK

\* allow for a client without a bucket, with an eviction if need be.
LEMMA ALNewStep ==
  ASSUME ALInv, NEW p \in ALCalls, APIAllowNew(p)
  PROVE  ALInv'
<1>. DEFINE c == alCall[p].client
            t == alCall[p].at
            v == [on |-> TRUE, tokens |-> ALBurst - ALCost, seen |-> t]
            k == [allowed |-> alHist[c].allowed + 1,
                  since |-> IF alHist[c].allowed = 0 THEN t ELSE alHist[c].since]
            room == BucketsRoom(alBuckets, t)
<1>1. c \in ALClients /\ t \in Nat /\ t <= alNow /\ alNow - t <= ALPause /\ alNow \in Nat
  BY DEF APIAllowNew, ALInv, AllowRec
<1>2. alBuckets[c] \in BucketRec /\ alHist[c] \in HistRec /\ ~alBuckets[c].on
  BY <1>1 DEF ALInv, APIAllowNew
<1>3. v \in BucketRec /\ k \in HistRec
  BY <1>1, <1>2, ALAssumption DEF BucketRec, HistRec
<1>4. /\ alBuckets' = [room EXCEPT ![c] = v] /\ alHist' = [alHist EXCEPT ![c] = k]
      /\ alCall' = [alCall EXCEPT ![p] = NoAllow] /\ alNow' = alNow
  BY DEF APIAllowNew
<1>5. room \in [ALClients -> BucketRec]
  BY DEF BucketsRoom, NoBucket, BucketRec, ALInv
<1>6. \A d \in ALClients : \/ room[d] = alBuckets[d]
                           \/ alBuckets[d].on /\ t - alBuckets[d].seen > ALIdle /\ room[d] = NoBucket
  BY DEF BucketsRoom
<1>7. BucketOK(v, k, alNow)
  <2>1. v.on /\ v.tokens = ALBurst - ALCost /\ v.seen = t
    OBVIOUS
  <2>2. k.allowed = alHist[c].allowed + 1 /\ k.since = IF alHist[c].allowed = 0 THEN t ELSE alHist[c].since
    OBVIOUS
  <2>3. BucketOK(alBuckets[c], alHist[c], alNow)
    BY <1>1 DEF ALInv
  <2>. HIDE DEF v, k, c, t
  <2>. QED  BY <1>1, <1>2, <1>3, <2>1, <2>2, <2>3, BucketMade
<1>. HIDE DEF v, k, c, t, room
<1>8. ASSUME NEW d \in ALClients PROVE BucketOK(alBuckets'[d], alHist'[d], alNow)
  <2>1. CASE d = c
    BY <1>1, <1>4, <1>5, <1>7, <2>1 DEF ALInv
  <2>2. CASE d # c
    <3>1. alBuckets'[d] = room[d] /\ alHist'[d] = alHist[d] /\ alBuckets[d] \in BucketRec /\ alHist[d] \in HistRec
      BY <1>4, <1>5, <2>2 DEF ALInv
    <3>2. BucketOK(alBuckets[d], alHist[d], alNow)
      BY DEF ALInv
    <3>3. alBuckets[d].on /\ t - alBuckets[d].seen > ALIdle => BucketOK(NoBucket, alHist[d], alNow)
      BY <1>1, <3>1, <3>2, BucketEvicted
    <3>. QED  BY <1>6, <3>1, <3>2, <3>3
  <2>. QED  BY <2>1, <2>2
<1>9. alBuckets' \in [ALClients -> BucketRec] /\ alHist' \in [ALClients -> HistRec]
  BY <1>1, <1>3, <1>4, <1>5 DEF ALInv
<1>. QED  BY <1>4, <1>8, <1>9 DEF ALInv

\* allow for a client with a bucket, whatever clock the call brought.
LEMMA ALKnownStep ==
  ASSUME ALInv, NEW p \in ALCalls, APIAllowKnown(p)
  PROVE  ALInv'
<1>. DEFINE c == alCall[p].client
            t == alCall[p].at
            n == Refilled(alBuckets[c], t)
            v == [on |-> TRUE, tokens |-> IF n >= ALCost THEN n - ALCost ELSE n, seen |-> t]
            k == [alHist[c] EXCEPT !.allowed = IF n >= ALCost THEN @ + 1 ELSE @]
<1>1. c \in ALClients /\ t \in Nat /\ t <= alNow /\ alNow - t <= ALPause /\ alNow \in Nat
  BY DEF APIAllowKnown, ALInv, AllowRec
<1>2. alBuckets[c] \in BucketRec /\ alHist[c] \in HistRec /\ alBuckets[c].on
  BY <1>1 DEF ALInv, APIAllowKnown
<1>3. n \in Int
  <2>1. (t - alBuckets[c].seen) * ALRate \in Int /\ alBuckets[c].tokens \in Int
    BY <1>1, <1>2, ALAssumption DEF BucketRec
  <2>. QED  BY <2>1, ALAssumption DEF Refilled
<1>4. /\ alBuckets' = [alBuckets EXCEPT ![c] = v] /\ alHist' = [alHist EXCEPT ![c] = k]
      /\ alCall' = [alCall EXCEPT ![p] = NoAllow] /\ alNow' = alNow
  BY <1>1 DEF APIAllowKnown, ALInv
<1>5. n = Refilled(alBuckets[c], t)
  OBVIOUS
<1>. HIDE DEF n
<1>6. v \in BucketRec /\ k \in HistRec
  BY <1>1, <1>2, <1>3, ALAssumption DEF BucketRec, HistRec
<1>7. /\ v.on /\ v.seen = t /\ k.since = alHist[c].since
      /\ v.tokens = IF n >= ALCost THEN n - ALCost ELSE n
      /\ k.allowed = IF n >= ALCost THEN alHist[c].allowed + 1 ELSE alHist[c].allowed
  BY <1>2 DEF HistRec
<1>8. BucketOK(alBuckets[c], alHist[c], alNow)
  BY <1>1 DEF ALInv
<1>. HIDE DEF v, k, c, t
<1>9. BucketOK(v, k, alNow)
  BY <1>1, <1>2, <1>3, <1>5, <1>6, <1>7, <1>8, BucketCharged
<1>10. \A d \in ALClients : BucketOK(alBuckets'[d], alHist'[d], alNow)
  BY <1>1, <1>4, <1>9 DEF ALInv
<1>11. alBuckets' \in [ALClients -> BucketRec] /\ alHist' \in [ALClients -> HistRec]
  BY <1>1, <1>4, <1>6 DEF ALInv
<1>. QED  BY <1>4, <1>10, <1>11 DEF ALInv

\* Every step keeps the invariant.
LEMMA ALStep == ALInv /\ [ALNext]_ALVars => ALInv'
<1>. SUFFICES ASSUME ALInv, [ALNext]_ALVars PROVE ALInv'
  OBVIOUS
<1>1. ASSUME ALTick PROVE ALInv'
  <2>1. alNow' = alNow + 1 /\ alNow + 1 \in Nat /\ alNow + 1 <= ALTime /\ UNCHANGED <<alBuckets, alCall, alHist>>
    BY <1>1, ALAssumption DEF ALTick, ALInv
  <2>2. \A c \in ALClients : BucketOK(alBuckets[c], alHist[c], alNow + 1)
    BY BucketLater DEF ALInv
  <2>3. \A p \in ALCalls : alCall[p] # NoAllow =>
          alCall[p] \in AllowRec /\ alCall[p].at <= alNow + 1 /\ alNow + 1 - alCall[p].at <= ALPause
    <3>. SUFFICES ASSUME NEW p \in ALCalls, alCall[p] # NoAllow
                  PROVE  alCall[p] \in AllowRec /\ alCall[p].at <= alNow + 1 /\ alNow + 1 - alCall[p].at <= ALPause
      OBVIOUS
    <3>1. alCall[p] \in AllowRec /\ alCall[p].at \in Nat /\ alCall[p].at <= alNow /\ alNow - alCall[p].at < ALPause
      BY <1>1 DEF ALTick, ALInv, AllowRec
    <3>. QED  BY <3>1, ALAssumption DEF ALInv
  <2>4. \A c \in ALClients : BucketOK(alBuckets'[c], alHist'[c], alNow')
    BY <2>1, <2>2, Zenon
  <2>5. \A p \in ALCalls : alCall'[p] # NoAllow =>
          alCall'[p] \in AllowRec /\ alCall'[p].at <= alNow' /\ alNow' - alCall'[p].at <= ALPause
    <3>1. alCall' = alCall /\ alNow' = alNow + 1
      BY <2>1
    <3>2. ASSUME NEW p \in ALCalls, alCall'[p] # NoAllow
          PROVE  alCall'[p] \in AllowRec /\ alCall'[p].at <= alNow' /\ alNow' - alCall'[p].at <= ALPause
      <4>1. alCall'[p] = alCall[p]
        BY <3>1
      <4>2. alCall[p] # NoAllow
        BY <3>2, <4>1
      <4>3. alCall[p] \in AllowRec /\ alCall[p].at <= alNow + 1 /\ alNow + 1 - alCall[p].at <= ALPause
        BY <2>3, <4>2
      <4>4. alCall'[p] \in AllowRec
        BY <4>1, <4>3
      <4>5. alCall'[p].at = alCall[p].at
        BY <4>1
      <4>6. alCall'[p].at <= alNow'
        BY <3>1, <4>3, <4>5
      <4>7. alNow' - alCall'[p].at <= ALPause
        <5>1. alNow \in Int /\ alCall[p].at \in Int /\ ALPause \in Int
          BY <4>3, ALAssumption DEF ALInv, AllowRec
        <5>2. alNow + 1 - alCall[p].at <= ALPause
          BY <4>3
        <5>3. \A n, a, b, k, u \in Int : n = k + 1 /\ a = b /\ k + 1 - b <= u => n - a <= u
          OBVIOUS
        <5>4. alNow' \in Int /\ alCall'[p].at \in Int
          BY <3>1, <4>5, <5>1
        <5>. QED  BY <3>1, <4>5, <5>1, <5>2, <5>3, <5>4
      <4>. QED  BY <4>4, <4>6, <4>7
    <3>. QED  BY <3>2
  <2>6. /\ alNow' \in Nat /\ alNow' <= ALTime /\ DOMAIN alCall' = ALCalls
        /\ alBuckets' \in [ALClients -> BucketRec] /\ alHist' \in [ALClients -> HistRec]
    BY <2>1 DEF ALInv
  <2>. QED  BY <2>4, <2>5, <2>6 DEF ALInv
<1>2. ASSUME NEW p \in ALCalls, NEW c \in ALClients, APIReadsClock(p, c) PROVE ALInv'
  <2>. DEFINE r == [pc |-> "locking", client |-> c, at |-> alNow]
  <2>1. r \in AllowRec /\ r.at = alNow /\ alNow - alNow <= ALPause /\ alNow \in Nat
    BY ALAssumption DEF AllowRec, ALInv
  <2>2. alCall' = [alCall EXCEPT ![p] = r] /\ UNCHANGED <<alNow, alBuckets, alHist>>
    BY <1>2 DEF APIReadsClock
  <2>. HIDE DEF r
  <2>. QED  BY <2>1, <2>2 DEF ALInv
<1>3. CASE UNCHANGED ALVars
  BY <1>3 DEF ALVars, ALInv
<1>. QED  BY <1>1, <1>2, <1>3, ALNewStep, ALKnownStep DEF ALNext

(* Buckets stay between what crossing clocks can make them owe and the     *)
(* burst (Allow).                                                          *)
THEOREM APITyped == ALSpec => []ALTypeOK
<1>1. ALInv => ALTypeOK
  <2>. SUFFICES ASSUME ALInv PROVE ALTypeOK
    OBVIOUS
  <2>1. ASSUME NEW c \in ALClients PROVE alBuckets[c].tokens \in -(ALPause * ALRate)..ALBurst
    <3>1. alBuckets[c] \in BucketRec /\ BucketOK(alBuckets[c], alHist[c], alNow)
      BY DEF ALInv
    <3>2. ALPause * ALRate \in Nat
      BY ALAssumption
    <3>3. alBuckets[c].tokens \in Int /\ alBuckets[c].tokens <= ALBurst /\ alBuckets[c].tokens + ALPause * ALRate >= 0
      BY <3>1, <3>2, ALAssumption DEF BucketOK, BucketRec, R
    <3>. QED  BY <3>2, <3>3, ALAssumption
  <2>2. alNow \in 0..ALTime
    BY ALAssumption DEF ALInv
  <2>3. \A p \in ALCalls : alCall[p] # NoAllow => alCall[p].client \in ALClients /\ alCall[p].at \in 0..alNow
    BY DEF ALInv, AllowRec
  <2>. QED  BY <2>1, <2>2, <2>3 DEF ALTypeOK
<1>. QED  BY <1>1, ALInitial, ALStep, PTL DEF ALSpec

(* For any number of clients and concurrent calls, whatever is evicted and *)
(* however clocks cross, a client gets through at most the burst and the   *)
(* rate since its first request (Allow, evictIdleLocked).                  *)
THEOREM APIWithinBudget == ALSpec => []APIBudget
<1>1. ALInv => APIBudget
  <2>. SUFFICES ASSUME ALInv, NEW c \in ALClients, alHist[c].allowed > 0
                PROVE  alHist[c].allowed * ALCost <= ALBurst + (alNow - alHist[c].since) * ALRate
    BY DEF APIBudget
  <2>1. alBuckets[c] \in BucketRec /\ alHist[c] \in HistRec /\ BucketOK(alBuckets[c], alHist[c], alNow) /\ alNow \in Int
    BY DEF ALInv
  <2>2. alHist[c].since \in Int /\ Spent(alHist[c]) \in Nat /\ alBuckets[c].tokens \in Int /\ alBuckets[c].seen \in Int
    BY <2>1, SpentTyped DEF BucketRec
  <2>3. R(alNow) \in Int /\ R(alHist[c].since) \in Int /\ R(alBuckets[c].seen) \in Int /\ R(ALPause) \in Int
    BY <2>1, <2>2, RInt, ALAssumption
  <2>4. R(ALPause) >= 0
    <3>1. R(0) <= R(ALPause)
      BY RMono, ALAssumption
    <3>2. R(0) = 0
      BY ALAssumption DEF R
    <3>. QED  BY <3>1, <3>2
  <2>5. Spent(alHist[c]) <= ALBurst + R(alNow) - R(alHist[c].since)
    BY <2>1, <2>2, <2>3, <2>4, ALAssumption DEF BucketOK
  <2>6. (alNow - alHist[c].since) * ALRate = R(alNow) - R(alHist[c].since)
    BY <2>1, <2>2, RMinus, Zenon
  <2>. QED  BY <2>3, <2>5, <2>6, ALAssumption DEF Spent
<1>. QED  BY <1>1, ALInitial, ALStep, PTL DEF ALSpec

(* The connection caps as a whole, for any number of connections,          *)
(* addresses and limiter swaps.                                            *)
THEOREM ConnCapsStand == CLSpec => []ConnCapsHold
<1>1. CLTypeOK /\ SlotsExact => ConnCapsHold
  BY DEF ConnCapsHold
<1>. QED  BY <1>1, ConnLimitsTyped, ConnSlotsExact, PTL

(* The handler's settings as a whole, for any number of overlapping        *)
(* setters and lookups: only fields a swap put back from an outdated copy  *)
(* (hsUndone) are lost, leaked or revived, and only the clients whose      *)
(* lookup a swap overtook (hsRaced) have a stale memo entry, until the     *)
(* next swap (swapSettings, ClientASN).                                    *)
THEOREM SettingsStand == HSSpec => []SettingsSound
<1>1. HSTypeOK /\ SettingsKept /\ ClosedWasReplaced /\ MemoFollowsTables => SettingsSound
  BY DEF SettingsSound
<1>. QED  BY <1>1, SettingsTyped, SettingsAreKept, SettingsClosedWasReplaced, SettingsMemo, PTL

(* The API limiter as a whole, for any burst, rate and number of clients.  *)
THEOREM APIStands == ALSpec => []APISound
<1>1. ALTypeOK /\ APIBudget => APISound
  BY DEF APISound
<1>. QED  BY <1>1, APITyped, APIWithinBudget, PTL

-----------------------------------------------------------------------------
(* The UDP server. The accounting rests on where every buffer is (Held),   *)
(* on no two owners having the same one (SlotsApart, JobsApart,            *)
(* WorkApart), on a waiting worker's reply being in exactly one place      *)
(* (Owed), and on the order in which the goroutines end (Winding).         *)

Buf == Nat \ {0}
UDPReaders == [pc : {"read", "dispatch", "done"}, batch : Seq([slot : UDPSlots, kind : UDPKinds]), buf : [UDPSlots -> Buf]]
UDPJob == [kind : UDPKinds \ {"short"}, buf : Buf]
UDPJobs == [q : Seq(UDPJob), closed : BOOLEAN]
UDPWorker == [pc : {"idle", "handling", "waiting", "exited"}, kind : UDPKinds, buf : Nat]
UDPWrites == [q : Seq(UDPWorkers), batch : Seq(UDPWorkers), closed : BOOLEAN, exited : BOOLEAN]
UDPStats == [received : Nat, invalid : Nat, drops : Nat, completed : Nat, garbled : Nat]
UDPLife == [closed : BOOLEAN, finished : BOOLEAN, socket : BOOLEAN, shutdown : {"none", "waiting", "drained", "timedout"}]
UDPPool == [free : SUBSET Buf, made : Nat]

UDPTypes ==
  /\ usReader \in UDPReaders /\ (usReader.pc = "dispatch" => usReader.batch # <<>>)
  /\ usJobs \in UDPJobs /\ Len(usJobs.q) <= UDPQueue
  /\ usWork \in [UDPWorkers -> UDPWorker]
  /\ usRes \in [UDPWorkers -> {"none", "ok", "error"}]
  /\ usWrites \in UDPWrites /\ Len(usWrites.q) <= UDPQueue
  /\ usPool \in UDPPool /\ IsFiniteSet(usPool.free)
  /\ usStats \in UDPStats
  /\ usLife \in UDPLife

(* Where the buffers are.                                                  *)
Lent == IF usReader.pc = "done" THEN 0 ELSE UDPBatch
Held ==
  /\ usPool.made = Lent + Len(usJobs.q) + Cardinality(UDPBusy) + Cardinality(usPool.free)
  /\ usPool.made <= UDPBatch + UDPQueue + Cardinality(UDPWorkers)
  /\ \A i \in UDPSlots : usReader.buf[i] <= usPool.made
  /\ \A j \in 1..Len(usJobs.q) : usJobs.q[j].buf <= usPool.made
  /\ \A w \in UDPWorkers : usWork[w].buf <= usPool.made
  /\ \A w \in UDPBusy : usWork[w].buf # 0
  /\ \A b \in usPool.free : b <= usPool.made

(* One owner each.                                                         *)
SlotsApart ==
  usReader.pc # "done" =>
    /\ \A i, k \in UDPSlots : usReader.buf[i] = usReader.buf[k] => i = k
    /\ \A i \in UDPSlots : usReader.buf[i] \notin usPool.free
    /\ \A i \in UDPSlots, j \in 1..Len(usJobs.q) : usReader.buf[i] # usJobs.q[j].buf
    /\ \A i \in UDPSlots, w \in UDPBusy : usReader.buf[i] # usWork[w].buf
JobsApart ==
  /\ \A j, k \in 1..Len(usJobs.q) : usJobs.q[j].buf = usJobs.q[k].buf => j = k
  /\ \A j \in 1..Len(usJobs.q) : usJobs.q[j].buf \notin usPool.free
  /\ \A j \in 1..Len(usJobs.q), w \in UDPBusy : usJobs.q[j].buf # usWork[w].buf
WorkApart ==
  /\ \A v, w \in UDPBusy : usWork[v].buf = usWork[w].buf => v = w
  /\ \A w \in UDPBusy : usWork[w].buf \notin usPool.free

(* What a worker waits for is in exactly one place.                        *)
InQ(w) == \E i \in 1..Len(usWrites.q) : usWrites.q[i] = w
InBatch(w) == \E i \in 1..Len(usWrites.batch) : usWrites.batch[i] = w
Owed ==
  /\ \A i, k \in 1..Len(usWrites.q) : usWrites.q[i] = usWrites.q[k] => i = k
  /\ \A i \in 1..Len(usWrites.q), k \in 1..Len(usWrites.batch) : usWrites.q[i] # usWrites.batch[k]
  /\ \A w \in UDPWorkers : usRes[w] # "none" => ~InQ(w) /\ ~InBatch(w)
  /\ \A w \in UDPWorkers : usWork[w].pc = "waiting" <=> InQ(w) \/ InBatch(w) \/ usRes[w] # "none"

(* Reader, workers, writer and Serve end in this order.                    *)
Winding ==
  /\ usJobs.closed <=> usReader.pc = "done"
  /\ \A w \in UDPWorkers : usWork[w].pc = "exited" => usJobs.closed /\ usJobs.q = <<>>
  /\ usWrites.closed => \A w \in UDPWorkers : usWork[w].pc = "exited"
  /\ usWrites.exited => usWrites.closed /\ usWrites.q = <<>> /\ usWrites.batch = <<>>
  /\ usLife.finished => usWrites.exited
  /\ ~usLife.socket => usLife.finished \/ usLife.shutdown = "timedout"

UDPInv ==
  /\ UDPTypes /\ Held /\ SlotsApart /\ JobsApart /\ WorkApart /\ Owed /\ Winding /\ DatagramsAccounted

\* The sizes are numbers and there is a worker.
LEMMA UDPConst == UDPQueue \in Nat \ {0} /\ UDPBatch \in Nat \ {0} /\ IsFiniteSet(UDPWorkers) /\ Cardinality(UDPWorkers) \in Nat
                  /\ UDPWorkers # {}
BY UDPAssumption, FS_CardinalityType

(* The least of the pooled buffers exists.                                 *)
LEMMA LeastPooled ==
  ASSUME NEW F \in SUBSET Buf, F # {}
  PROVE  \E b \in F : \A c \in F : b <= c
<1>1. F \subseteq Nat
  BY DEF Buf
<1>2. PICK b \in F : \A c \in F : ~(<<c, b>> \in OpToRel(<, Nat))
  BY <1>1, NatLessThanWellFounded, WFMin
<1>3. \A c \in F : ~(c < b)
  BY <1>1, <1>2 DEF OpToRel
<1>. QED  BY <1>1, <1>3

(* Get: a pooled buffer, or a new one when there is none.                  *)
LEMMA TakeIs ==
  ASSUME NEW p \in UDPPool, IsFiniteSet(p.free)
  PROVE  /\ PoolTake(p) \in UDPPool /\ IsFiniteSet(PoolTake(p).free) /\ PoolPick(p) \in Buf
         /\ \/ /\ p.free = {} /\ PoolPick(p) = p.made + 1
               /\ PoolTake(p).free = {} /\ PoolTake(p).made = p.made + 1
            \/ /\ PoolPick(p) \in p.free /\ PoolTake(p).made = p.made
               /\ PoolTake(p).free = p.free \ {PoolPick(p)}
               /\ Cardinality(p.free) \in Nat \ {0}
               /\ Cardinality(PoolTake(p).free) = Cardinality(p.free) - 1
<1>1. CASE p.free = {}
  <2>1. PoolTake(p) = [p EXCEPT !.made = p.made + 1] /\ PoolPick(p) = p.made + 1
    BY <1>1 DEF PoolTake, PoolPick
  <2>2. PoolTake(p) \in UDPPool /\ PoolTake(p).free = {} /\ PoolTake(p).made = p.made + 1
    BY <1>1, <2>1 DEF UDPPool
  <2>3. p.made + 1 \in Buf
    BY DEF Buf, UDPPool
  <2>4. IsFiniteSet(PoolTake(p).free)
    BY <1>1, <2>2
  <2>. QED  BY <1>1, <2>1, <2>2, <2>3, <2>4
<1>2. CASE p.free # {}
  <2>. DEFINE b == PoolPick(p)
  <2>1. b \in p.free
    <3>1. b = CHOOSE x \in p.free : \A c \in p.free : x <= c
      BY <1>2 DEF PoolPick
    <3>2. \E x \in p.free : \A c \in p.free : x <= c
      BY <1>2, LeastPooled DEF UDPPool
    <3>. QED  BY <3>1, <3>2
  <2>2. PoolTake(p) = [p EXCEPT !.free = p.free \ {b}]
    BY <1>2 DEF PoolTake
  <2>. HIDE DEF b
  <2>3. PoolTake(p) \in UDPPool /\ PoolTake(p).free = p.free \ {b} /\ PoolTake(p).made = p.made
    BY <2>2 DEF UDPPool
  <2>4. /\ IsFiniteSet(p.free \ {b}) /\ Cardinality(p.free \ {b}) = Cardinality(p.free) - 1
        /\ Cardinality(p.free) \in Nat \ {0}
    BY <1>2, <2>1, FS_RemoveElement, FS_CardinalityType, FS_EmptySet
  <2>5. b \in Buf
    BY <2>1 DEF UDPPool
  <2>. QED  BY <2>1, <2>3, <2>4, <2>5 DEF b
<1>. QED  BY <1>1, <1>2

(* Put of a buffer that is not pooled.                                     *)
LEMMA PutIs ==
  ASSUME NEW p \in UDPPool, IsFiniteSet(p.free), NEW b \in Buf, b \notin p.free
  PROVE  /\ PoolPut(p, b) \in UDPPool /\ IsFiniteSet(PoolPut(p, b).free) /\ PoolPut(p, b).free = p.free \cup {b}
         /\ PoolPut(p, b).made = p.made /\ Cardinality(PoolPut(p, b).free) = Cardinality(p.free) + 1
<1>1. PoolPut(p, b) = [p EXCEPT !.free = p.free \cup {b}]
  BY DEF PoolPut
<1>2. PoolPut(p, b) \in UDPPool /\ PoolPut(p, b).free = p.free \cup {b} /\ PoolPut(p, b).made = p.made
  BY <1>1 DEF UDPPool
<1>. QED  BY <1>2, FS_AddElement

\* The busy workers are finitely many.
LEMMA BusyFinite == IsFiniteSet(UDPBusy) /\ Cardinality(UDPBusy) \in Nat /\ Cardinality(UDPBusy) <= Cardinality(UDPWorkers)
<1>1. UDPBusy \in SUBSET UDPWorkers
  BY DEF UDPBusy
<1>. QED  BY <1>1, UDPConst, FS_Subset, FS_CardinalityType

\* The invariant holds in the initial states.
LEMMA UDPInitial == UDPInit => UDPInv
<1>. SUFFICES ASSUME UDPInit PROVE UDPInv
  OBVIOUS
<1>1. usReader = [pc |-> "read", batch |-> <<>>, buf |-> [i \in UDPSlots |-> i]]
  BY DEF UDPInit
<1>2. UDPSlots \subseteq Buf /\ \A i \in UDPSlots : i <= UDPBatch
  BY UDPConst DEF UDPSlots, Buf
<1>3. usReader \in UDPReaders /\ usReader.pc = "read" /\ \A i \in UDPSlots : usReader.buf[i] = i
  BY <1>1, <1>2 DEF UDPReaders
<1>4. usJobs \in UDPJobs /\ usJobs.q = <<>> /\ ~usJobs.closed
  BY DEF UDPInit, UDPJobs
<1>5. usWork \in [UDPWorkers -> UDPWorker] /\ \A w \in UDPWorkers : usWork[w].pc = "idle" /\ usWork[w].buf = 0
  BY DEF UDPInit, UDPWorker, UDPKinds, NoBuf
<1>6. usRes \in [UDPWorkers -> {"none", "ok", "error"}] /\ \A w \in UDPWorkers : usRes[w] = "none"
  BY DEF UDPInit
<1>7. usWrites \in UDPWrites /\ usWrites.q = <<>> /\ usWrites.batch = <<>> /\ ~usWrites.closed /\ ~usWrites.exited
  BY DEF UDPInit, UDPWrites
<1>8. usPool \in UDPPool /\ usPool.free = {} /\ usPool.made = UDPBatch /\ IsFiniteSet(usPool.free)
  BY UDPConst, FS_EmptySet DEF UDPInit, UDPPool
<1>9. usStats \in UDPStats /\ usStats.received = 0 /\ usStats.garbled = 0 /\ usStats.invalid = 0 /\ usStats.drops = 0
      /\ usStats.completed = 0
  BY DEF UDPInit, UDPStats
<1>10. usLife \in UDPLife /\ ~usLife.finished /\ usLife.socket
  BY DEF UDPInit, UDPLife
<1>11. UDPBusy = {} /\ Cardinality(UDPBusy) = 0 /\ Cardinality(usPool.free) = 0
  BY <1>5, <1>8, FS_EmptySet DEF UDPBusy
<1>12. UDPTypes
  BY <1>3, <1>4, <1>5, <1>6, <1>7, <1>8, <1>9, <1>10, UDPConst DEF UDPTypes
<1>13. Held
  BY <1>2, <1>3, <1>4, <1>5, <1>8, <1>11, UDPConst DEF Held, Lent
<1>14. SlotsApart /\ JobsApart /\ WorkApart
  BY <1>3, <1>4, <1>8, <1>11 DEF SlotsApart, JobsApart, WorkApart
<1>15. Owed
  BY <1>5, <1>6, <1>7 DEF Owed, InQ, InBatch
<1>16. Winding
  BY <1>3, <1>4, <1>5, <1>7, <1>10 DEF Winding
<1>17. DatagramsAccounted
  BY <1>4, <1>9, <1>11 DEF DatagramsAccounted
<1>. QED  BY <1>12, <1>13, <1>14, <1>15, <1>16, <1>17 DEF UDPInv

(* Steps that leave the buffers, the queue and the workers alone.          *)
LEMMA BuffersStay ==
  ASSUME UDPInv, UNCHANGED <<usJobs, usWork, usPool>>, usReader'.buf = usReader.buf, usReader'.pc = "done" <=> usReader.pc = "done"
  PROVE  (Held /\ SlotsApart /\ JobsApart /\ WorkApart)'
<1>1. UDPBusy' = UDPBusy /\ Lent' = Lent
  BY DEF UDPBusy, Lent
<1>2. Held'
  BY <1>1 DEF UDPInv, Held
<1>3. (SlotsApart /\ JobsApart /\ WorkApart)'
  BY <1>1 DEF UDPInv, SlotsApart, JobsApart, WorkApart
<1>. QED  BY <1>2, <1>3

\* The reader gets a batch of datagrams.
LEMMA UDPReads ==
  ASSUME UDPInv, NEW kinds \in UNION {[1..n -> UDPKinds] : n \in UDPSlots}, ReadBatch(kinds)
  PROVE  UDPInv'
<1>1. PICK n \in UDPSlots : kinds \in [1..n -> UDPKinds]
  OBVIOUS
<1>2. n \in Nat \ {0} /\ n <= UDPBatch
  BY UDPConst DEF UDPSlots
<1>3. kinds \in Seq(UDPKinds) /\ Len(kinds) = n
  BY <1>1, <1>2
<1>. DEFINE b == [i \in 1..n |-> [slot |-> i, kind |-> kinds[i]]]
<1>4. b \in Seq([slot : UDPSlots, kind : UDPKinds]) /\ b # <<>>
  <2>1. \A i \in 1..n : [slot |-> i, kind |-> kinds[i]] \in [slot : UDPSlots, kind : UDPKinds]
    BY <1>1, <1>2, UDPConst DEF UDPSlots
  <2>2. b \in [1..n -> [slot : UDPSlots, kind : UDPKinds]]
    BY <2>1
  <2>3. b \in Seq([slot : UDPSlots, kind : UDPKinds]) /\ Len(b) = n
    BY <1>2, <2>2
  <2>4. Len(<<>>) = 0
    OBVIOUS
  <2>. QED  BY <1>2, <2>3, <2>4
<1>5. usReader.pc = "read" /\ UNCHANGED <<usJobs, usWork, usRes, usWrites, usPool, usStats, usLife>>
      /\ usReader' = [usReader EXCEPT !.pc = "dispatch", !.batch = b]
  BY <1>3 DEF ReadBatch
<1>. HIDE DEF b
<1>6. usReader' \in UDPReaders /\ usReader'.pc = "dispatch" /\ usReader'.batch = b /\ usReader'.buf = usReader.buf
  BY <1>4, <1>5 DEF UDPInv, UDPTypes, UDPReaders
<1>7. (Held /\ SlotsApart /\ JobsApart /\ WorkApart)'
  BY <1>5, <1>6, BuffersStay
<1>8. UDPTypes'
  BY <1>4, <1>5, <1>6 DEF UDPInv, UDPTypes
<1>9. Owed' /\ Winding'
  BY <1>5, <1>6 DEF UDPInv, Owed, Winding, InQ, InBatch
<1>10. DatagramsAccounted'
  BY <1>5 DEF UDPInv, DatagramsAccounted, UDPBusy
<1>. QED  BY <1>7, <1>8, <1>9, <1>10 DEF UDPInv

(* The buffers of the read batch are as many as its slots.                 *)
LEMMA SlotsCounted ==
  ASSUME UDPInv, usReader.pc # "done", NEW T, T = {usReader.buf[i] : i \in UDPSlots}
  PROVE  /\ IsFiniteSet(usPool.free \cup T)
         /\ Cardinality(usPool.free \cup T) = Cardinality(usPool.free) + UDPBatch
<1>1. UDPBatch \in Nat \ {0} /\ IsFiniteSet(UDPSlots) /\ Cardinality(UDPSlots) = UDPBatch
  BY UDPConst, FS_Interval DEF UDPSlots
<1>2. usReader.buf \in [UDPSlots -> Buf] /\ IsFiniteSet(usPool.free)
  BY DEF UDPInv, UDPTypes, UDPReaders
<1>. DEFINE f == [i \in UDPSlots |-> usReader.buf[i]]
<1>3. f \in [UDPSlots -> T]
  OBVIOUS
<1>4. f \in Injection(UDPSlots, T)
  BY <1>3 DEF Injection, IsInjective, UDPInv, SlotsApart
<1>5. f \in Surjection(UDPSlots, T)
  BY <1>3 DEF Surjection
<1>6. ExistsBijection(UDPSlots, T)
  BY <1>4, <1>5 DEF ExistsBijection, Bijection
<1>7. IsFiniteSet(T) /\ Cardinality(T) = UDPBatch
  BY <1>1, <1>6, FS_Bijection
<1>8. usPool.free \cap T = {}
  BY DEF UDPInv, SlotsApart
<1>9. Cardinality(usPool.free \cap T) = 0
  BY <1>8, FS_EmptySet
<1>10. /\ IsFiniteSet(usPool.free \cup T)
       /\ Cardinality(usPool.free \cup T) = Cardinality(usPool.free) + Cardinality(T) - Cardinality(usPool.free \cap T)
  BY <1>2, <1>7, FS_Union
<1>11. Cardinality(usPool.free) \in Nat
  BY <1>2, FS_CardinalityType
<1>. HIDE DEF f
<1>. QED  BY <1>1, <1>7, <1>9, <1>10, <1>11

\* The socket is closed under the reader, which gives its buffers back.
LEMMA UDPReadFails == UDPInv /\ ReadFails => UDPInv'
<1>. SUFFICES ASSUME UDPInv, ReadFails PROVE UDPInv'
  OBVIOUS
<1>. DEFINE T == {usReader.buf[i] : i \in UDPSlots}
<1>1. usReader.pc = "read" /\ UNCHANGED <<usWork, usRes, usWrites, usStats, usLife>>
  BY DEF ReadFails, ReadLoopEnds
<1>2. usReader' \in UDPReaders /\ usReader'.pc = "done" /\ usReader'.buf = usReader.buf
  <2>. DEFINE e == <<>>
  <2>1. e \in Seq([slot : UDPSlots, kind : UDPKinds]) /\ usReader \in UDPReaders
    BY DEF UDPInv, UDPTypes
  <2>2. usReader' = [usReader EXCEPT !.pc = "done", !.batch = e]
    BY DEF ReadFails, ReadLoopEnds
  <2>. HIDE DEF e
  <2>. QED  BY <2>1, <2>2 DEF UDPReaders
<1>3. usJobs' \in UDPJobs /\ usJobs'.q = usJobs.q /\ usJobs'.closed
  BY DEF ReadFails, ReadLoopEnds, UDPInv, UDPTypes, UDPJobs
<1>4. T \in SUBSET Buf
  BY DEF UDPInv, UDPTypes, UDPReaders
<1>5. usPool' \in UDPPool /\ usPool'.free = usPool.free \cup T /\ usPool'.made = usPool.made
  BY <1>4 DEF ReadFails, ReadLoopEnds, UDPInv, UDPTypes, UDPPool
<1>6. IsFiniteSet(usPool'.free) /\ Cardinality(usPool'.free) = Cardinality(usPool.free) + UDPBatch
  BY <1>1, <1>5, SlotsCounted
<1>7. UDPBusy' = UDPBusy
  BY <1>1 DEF UDPBusy
<1>8. UDPTypes'
  BY <1>1, <1>2, <1>3, <1>5, <1>6 DEF UDPInv, UDPTypes
<1>9. Held'
  <2>1. usPool'.made = 0 + Len(usJobs'.q) + Cardinality(UDPBusy)' + Cardinality(usPool'.free)
    <3>1. /\ Cardinality(usPool.free) \in Nat /\ Len(usJobs.q) \in Nat
          /\ usPool.made = UDPBatch + Len(usJobs.q) + Cardinality(UDPBusy) + Cardinality(usPool.free)
      BY <1>1, FS_CardinalityType, UDPConst DEF UDPInv, UDPTypes, UDPJobs, Held, Lent
    <3>. QED  BY <1>3, <1>5, <1>6, <1>7, <3>1, BusyFinite, UDPConst
  <2>2. \A b \in usPool'.free : b <= usPool'.made
    BY <1>5 DEF UDPInv, Held
  <2>. QED  BY <1>1, <1>2, <1>3, <1>5, <1>7, <2>1, <2>2 DEF UDPInv, Held, Lent
<1>10. SlotsApart' /\ JobsApart' /\ WorkApart'
  <2>1. SlotsApart /\ usReader.pc # "done" /\ JobsApart /\ WorkApart
    BY <1>1 DEF UDPInv
  <2>2. SlotsApart'
    BY <1>2 DEF SlotsApart
  <2>3. JobsApart'
    BY <1>1, <1>3, <1>5, <1>7, <2>1 DEF JobsApart, SlotsApart
  <2>4. WorkApart'
    BY <1>1, <1>5, <1>7, <2>1 DEF WorkApart, SlotsApart
  <2>. QED  BY <2>2, <2>3, <2>4
<1>11. Owed'
  BY <1>1 DEF UDPInv, Owed, InQ, InBatch
<1>12. Winding'
  BY <1>1, <1>2, <1>3 DEF UDPInv, Winding
<1>13. DatagramsAccounted'
  BY <1>1, <1>3, <1>7 DEF UDPInv, DatagramsAccounted
<1>. QED  BY <1>8, <1>9, <1>10, <1>11, <1>12, <1>13 DEF UDPInv

Dispatching == usReader.pc = "dispatch"

(* The datagram at hand, and the slot it was read into.                    *)
LEMMA AtHand ==
  ASSUME UDPInv, Dispatching
  PROVE  /\ Head(usReader.batch) \in [slot : UDPSlots, kind : UDPKinds] /\ Len(usReader.batch) \in Nat \ {0}
         /\ Tail(usReader.batch) \in Seq([slot : UDPSlots, kind : UDPKinds])
         /\ Len(usReader.batch) # 1 => Tail(usReader.batch) # <<>>
<1>1. usReader.batch \in Seq([slot : UDPSlots, kind : UDPKinds]) /\ usReader.batch # <<>>
  BY DEF UDPInv, UDPTypes, UDPReaders, Dispatching
<1>2. Len(usReader.batch) \in Nat \ {0} /\ Len(Tail(usReader.batch)) = Len(usReader.batch) - 1
  BY <1>1
<1>. DEFINE e == <<>>
            t == Tail(usReader.batch)
<1>4. Len(e) = 0 /\ Len(t) = Len(usReader.batch) - 1
  BY <1>2
<1>. HIDE DEF e, t
<1>6. ASSUME Len(usReader.batch) # 1 PROVE t # e
  <2>1. Len(t) # 0
    BY <1>2, <1>4, <1>6
  <2>. QED  BY <1>4, <2>1
<1>3. Len(usReader.batch) # 1 => Tail(usReader.batch) # <<>>
  BY <1>6 DEF e, t
<1>5. Head(usReader.batch) \in [slot : UDPSlots, kind : UDPKinds] /\ Tail(usReader.batch) \in Seq([slot : UDPSlots, kind : UDPKinds])
  BY <1>1, HeadTailProperties
<1>. QED  BY <1>2, <1>3, <1>5

\* A queued datagram has a buffer the pool made.
LEMMA JobBuffers ==
  ASSUME UDPInv, NEW j \in 1..Len(usJobs.q)
  PROVE  usJobs.q[j] \in UDPJob /\ usJobs.q[j].buf \in Buf /\ usJobs.q[j].buf \in Nat /\ usJobs.q[j].buf <= usPool.made
<1>1. usJobs.q[j] \in UDPJob
  BY ElementOfSeq DEF UDPInv, UDPTypes, UDPJobs
<1>2. usJobs.q[j].buf <= usPool.made
  BY DEF UDPInv, Held
<1>. QED  BY <1>1, <1>2 DEF UDPJob, Buf

Keeps == Head(usReader.batch).kind # "short" /\ Len(usJobs.q) < UDPQueue

(* A datagram that is kept: its buffer goes to the queue, its slot gets    *)
(* another.                                                                *)
LEMMA UDPQueues ==
  ASSUME UDPInv, DispatchOne, Keeps
  PROVE  UDPInv'
<1>. DEFINE m == Head(usReader.batch)
            bp == usReader.buf[m.slot]
            b == PoolPick(usPool)
            job == [kind |-> m.kind, buf |-> bp]
<1>29. Dispatching
  BY DEF DispatchOne, Dispatching
<1>1. /\ m.slot \in UDPSlots /\ m.kind \in UDPKinds \ {"short"} /\ bp \in Buf /\ Len(usJobs.q) \in Nat
      /\ usJobs.q \in Seq(UDPJob) /\ UDPQueue \in Nat
  BY <1>29, AtHand, UDPConst DEF UDPInv, UDPTypes, UDPReaders, UDPJobs, Keeps
<1>2. job \in UDPJob /\ job.buf = bp
  BY <1>1 DEF UDPJob
<1>3. UNCHANGED <<usWork, usRes, usWrites, usLife>> /\ usPool' = PoolTake(usPool)
  BY <1>1 DEF Keeps, DispatchOne
<1>4. usJobs' = [usJobs EXCEPT !.q = Append(usJobs.q, job)]
  BY <1>1 DEF DispatchOne, Keeps
<1>28. ~(Len(usJobs.q) >= UDPQueue) /\ m.kind # "short"
  BY <1>1 DEF Keeps
<1>5. usReader' = [pc |-> IF Len(usReader.batch) = 1 THEN "read" ELSE "dispatch",
                   batch |-> Tail(usReader.batch), buf |-> [usReader.buf EXCEPT ![m.slot] = b]]
  BY <1>28, Zenon DEF DispatchOne
<1>6. usStats' = [usStats EXCEPT !.received = @ + 1, !.invalid = @ + 0, !.drops = @ + 0]
  BY <1>28, Zenon DEF DispatchOne
<1>7. usPool \in UDPPool /\ IsFiniteSet(usPool.free)
  BY DEF UDPInv, UDPTypes
<1>8. /\ usPool' \in UDPPool /\ IsFiniteSet(usPool'.free) /\ b \in Buf
      /\ \/ /\ usPool.free = {} /\ b = usPool.made + 1 /\ usPool'.free = {} /\ usPool'.made = usPool.made + 1
         \/ /\ b \in usPool.free /\ usPool'.made = usPool.made /\ usPool'.free = usPool.free \ {b}
            /\ Cardinality(usPool.free) \in Nat \ {0} /\ Cardinality(usPool'.free) = Cardinality(usPool.free) - 1
  BY <1>3, <1>7, TakeIs
<1>9. /\ usReader' \in UDPReaders /\ (usReader'.pc = "dispatch" => usReader'.batch # <<>>) /\ usReader'.pc # "done"
      /\ usReader'.buf[m.slot] = b /\ \A i \in UDPSlots : i # m.slot => usReader'.buf[i] = usReader.buf[i]
  <2>. DEFINE nb == [usReader.buf EXCEPT ![m.slot] = b]
              pc == IF Len(usReader.batch) = 1 THEN "read" ELSE "dispatch"
  <2>1. nb \in [UDPSlots -> Buf] /\ nb[m.slot] = b /\ \A i \in UDPSlots : i # m.slot => nb[i] = usReader.buf[i]
    BY <1>1, <1>8 DEF UDPInv, UDPTypes, UDPReaders
  <2>2. pc \in {"read", "dispatch", "done"} /\ (pc = "dispatch" => Tail(usReader.batch) # <<>>) /\ pc # "done"
    BY <1>29, AtHand
  <2>. HIDE DEF nb, pc
  <2>3. usReader' = [pc |-> pc, batch |-> Tail(usReader.batch), buf |-> nb]
    BY <1>5 DEF nb, pc
  <2>. QED  BY <1>29, <2>1, <2>2, <2>3, AtHand DEF UDPReaders
<1>10. /\ usJobs' \in UDPJobs /\ usJobs'.closed = usJobs.closed /\ Len(usJobs'.q) = Len(usJobs.q) + 1
       /\ usJobs'.q[Len(usJobs.q) + 1].buf = bp /\ \A j \in 1..Len(usJobs.q) : usJobs'.q[j] = usJobs.q[j]
  <2>. DEFINE nq == Append(usJobs.q, job)
  <2>. HIDE DEF job
  <2>1. nq \in Seq(UDPJob) /\ Len(nq) = Len(usJobs.q) + 1 /\ nq[Len(usJobs.q) + 1] = job
        /\ \A j \in 1..Len(usJobs.q) : nq[j] = usJobs.q[j]
    BY <1>1, <1>2, AppendProperties
  <2>. HIDE DEF nq
  <2>2. usJobs' = [usJobs EXCEPT !.q = nq]
    BY <1>4 DEF nq
  <2>3. usJobs' \in UDPJobs /\ usJobs'.closed = usJobs.closed /\ usJobs'.q = nq
    BY <2>1, <2>2 DEF UDPInv, UDPTypes, UDPJobs
  <2>. QED  BY <1>2, <2>1, <2>3
<1>11. /\ usStats' \in UDPStats /\ usStats'.received = usStats.received + 1 /\ usStats'.garbled = usStats.garbled
       /\ usStats'.invalid = usStats.invalid /\ usStats'.drops = usStats.drops /\ usStats'.completed = usStats.completed
  <2>1. usStats \in UDPStats
    BY DEF UDPInv, UDPTypes
  <2>. DEFINE n == usStats.received + 1
              i == usStats.invalid + 0
              d == usStats.drops + 0
  <2>2. n \in Nat /\ i = usStats.invalid /\ d = usStats.drops /\ i \in Nat /\ d \in Nat
    BY <2>1 DEF UDPStats
  <2>4. usStats' = [usStats EXCEPT !.received = n, !.invalid = i, !.drops = d]
    BY <1>6
  <2>. HIDE DEF n, i, d
  <2>3. /\ usStats' \in UDPStats /\ usStats'.received = n /\ usStats'.garbled = usStats.garbled
        /\ usStats'.invalid = i /\ usStats'.drops = d /\ usStats'.completed = usStats.completed
    BY <2>1, <2>2, <2>4 DEF UDPStats
  <2>. QED  BY <2>2, <2>3 DEF n
<1>12. UDPBusy' = UDPBusy
  BY <1>3 DEF UDPBusy
<1>. HIDE DEF m, b, bp, job
<1>13. bp = usReader.buf[m.slot]
  BY DEF bp
<1>30. Len(usJobs.q) < UDPQueue
  BY DEF Keeps
<1>31. \A j \in 1..Len(usJobs'.q) : j \in 1..Len(usJobs.q) \/ j = Len(usJobs.q) + 1
  BY <1>1, <1>10
<1>14. UDPTypes'
  BY <1>1, <1>3, <1>8, <1>9, <1>10, <1>11, <1>30 DEF UDPInv, UDPTypes
<1>15. /\ usPool.made = UDPBatch + Len(usJobs.q) + Cardinality(UDPBusy) + Cardinality(usPool.free)
       /\ usPool.made <= UDPBatch + UDPQueue + Cardinality(UDPWorkers) /\ usPool.made \in Nat
       /\ Cardinality(usPool.free) \in Nat /\ UDPBatch \in Nat
  BY <1>7, <1>29, UDPConst, FS_CardinalityType DEF UDPInv, Held, Lent, UDPPool, Dispatching
<1>16. /\ usPool'.made = UDPBatch + Len(usJobs'.q) + Cardinality(UDPBusy) + Cardinality(usPool'.free)
       /\ usPool'.made <= UDPBatch + UDPQueue + Cardinality(UDPWorkers) /\ usPool.made <= usPool'.made /\ b <= usPool'.made
  <2>1. CASE usPool.free = {} /\ b = usPool.made + 1 /\ usPool'.free = {} /\ usPool'.made = usPool.made + 1
    <3>1. Cardinality(usPool.free) = 0 /\ Cardinality(usPool'.free) = 0
      BY <2>1, FS_EmptySet
    <3>. DEFINE B == Cardinality(UDPBusy)
                N == Cardinality(UDPWorkers)
                J == Len(usJobs.q)
    <3>2. B \in Nat /\ N \in Nat /\ B <= N /\ J \in Nat /\ J < UDPQueue /\ UDPQueue \in Nat /\ UDPBatch \in Nat
      BY <1>1, <1>30, BusyFinite, UDPConst
    <3>3. usPool.made = UDPBatch + J + B /\ usPool.made \in Nat /\ Len(usJobs'.q) = J + 1
      BY <1>1, <1>10, <1>15, <3>1, <3>2
    <3>4. usPool'.made = usPool.made + 1 /\ b = usPool.made + 1
      BY <2>1
    <3>. HIDE DEF B, N, J
    <3>5. /\ usPool'.made = UDPBatch + (J + 1) + B + 0 /\ usPool'.made <= UDPBatch + UDPQueue + N
          /\ usPool.made <= usPool'.made /\ b <= usPool'.made
      BY <3>2, <3>3, <3>4
    <3>. QED  BY <3>1, <3>3, <3>5 DEF B, N
  <2>2. CASE /\ b \in usPool.free /\ usPool'.made = usPool.made /\ usPool'.free = usPool.free \ {b}
             /\ Cardinality(usPool.free) \in Nat \ {0} /\ Cardinality(usPool'.free) = Cardinality(usPool.free) - 1
    <3>1. b <= usPool.made
      BY <2>2 DEF UDPInv, Held
    <3>. QED  BY <1>1, <1>10, <1>15, <2>2, <3>1, BusyFinite, SMTT(30)
  <2>. QED  BY <1>8, <2>1, <2>2
<1>17. \A b2 \in Nat : b2 <= usPool.made => b2 <= usPool'.made
  BY <1>15, <1>16, <1>8 DEF UDPPool
<1>18. Held'
  <2>1. \A i \in UDPSlots : usReader'.buf[i] <= usPool'.made
    <3>1. \A i \in UDPSlots : usReader.buf[i] \in Nat /\ usReader.buf[i] <= usPool.made
      BY DEF UDPInv, UDPTypes, UDPReaders, Buf, Held
    <3>. QED  BY <1>9, <1>16, <1>17, <3>1
  <2>2. bp \in Nat /\ bp <= usPool.made
    BY <1>1, <1>13 DEF UDPInv, Held, Buf
  <2>3. \A j \in 1..Len(usJobs'.q) : usJobs'.q[j].buf <= usPool'.made
    <3>1. \A j \in 1..Len(usJobs.q) : usJobs.q[j].buf \in Nat /\ usJobs.q[j].buf <= usPool.made
      BY JobBuffers
    <3>. QED  BY <1>10, <1>17, <1>31, <2>2, <3>1
  <2>4. \A w \in UDPWorkers : usWork'[w].buf <= usPool'.made
    BY <1>3, <1>17 DEF UDPInv, UDPTypes, UDPWorker, Held
  <2>5. \A x \in usPool'.free : x <= usPool'.made
    BY <1>8, <1>16, <1>17 DEF UDPInv, Held
  <2>. QED  BY <1>3, <1>9, <1>12, <1>16, <2>1, <2>3, <2>4, <2>5 DEF UDPInv, Held, Lent
(* The buffer taken is nobody's.                                           *)
<1>19. /\ \A i \in UDPSlots : usReader.buf[i] # b
       /\ \A j \in 1..Len(usJobs.q) : usJobs.q[j].buf # b
       /\ \A w \in UDPBusy : usWork[w].buf # b
       /\ b \notin usPool'.free
  <2>1. CASE usPool.free = {} /\ b = usPool.made + 1 /\ usPool'.free = {}
    <3>1. \A x \in Nat : x <= usPool.made => x # b
      <4>1. b = usPool.made + 1 /\ usPool.made \in Nat
        BY <1>15, <2>1
      <4>. QED  BY <4>1
    <3>2. \A i \in UDPSlots : usReader.buf[i] \in Nat /\ usReader.buf[i] <= usPool.made
      BY DEF UDPInv, UDPTypes, UDPReaders, Buf, Held
    <3>3. \A j \in 1..Len(usJobs.q) : usJobs.q[j].buf \in Nat /\ usJobs.q[j].buf <= usPool.made
      BY JobBuffers
    <3>4. \A w \in UDPBusy : usWork[w].buf \in Nat /\ usWork[w].buf <= usPool.made
      BY DEF UDPInv, UDPTypes, UDPWorker, Held, UDPBusy
    <3>. QED  BY <2>1, <3>1, <3>2, <3>3, <3>4
  <2>2. CASE b \in usPool.free /\ usPool'.free = usPool.free \ {b}
    BY <1>29, <2>2 DEF UDPInv, SlotsApart, JobsApart, WorkApart, Dispatching
  <2>. QED  BY <1>8, <2>1, <2>2
<1>20. usPool'.free \subseteq usPool.free
  BY <1>8
<1>21. SlotsApart /\ JobsApart /\ WorkApart /\ usReader.pc # "done"
  BY <1>29 DEF UDPInv, Dispatching
<1>22. SlotsApart'
  <2>1. \A i, k \in UDPSlots : usReader'.buf[i] = usReader'.buf[k] => i = k
    BY <1>9, <1>19, <1>21 DEF SlotsApart
  <2>2. \A i \in UDPSlots : usReader'.buf[i] \notin usPool'.free
    BY <1>9, <1>19, <1>20, <1>21 DEF SlotsApart
  <2>3. \A i \in UDPSlots : usReader'.buf[i] # bp
    BY <1>1, <1>9, <1>13, <1>19, <1>21 DEF SlotsApart
  <2>4. \A i \in UDPSlots, j \in 1..Len(usJobs'.q) : usReader'.buf[i] # usJobs'.q[j].buf
    BY <1>9, <1>10, <1>19, <1>21, <1>31, <2>3, SMTT(30) DEF SlotsApart
  <2>5. \A i \in UDPSlots, w \in UDPBusy : usReader'.buf[i] # usWork[w].buf
    BY <1>9, <1>19, <1>21 DEF SlotsApart
  <2>. QED  BY <1>3, <1>12, <2>1, <2>2, <2>4, <2>5 DEF SlotsApart
<1>23. JobsApart'
  <2>1. \A j \in 1..Len(usJobs.q) : usJobs.q[j].buf # bp
    BY <1>1, <1>13, <1>21 DEF SlotsApart
  <2>2. bp \notin usPool.free /\ \A w \in UDPBusy : usWork[w].buf # bp
    BY <1>1, <1>13, <1>21 DEF SlotsApart
  <2>3. \A j, k \in 1..Len(usJobs'.q) : usJobs'.q[j].buf = usJobs'.q[k].buf => j = k
    BY <1>10, <1>31, <1>21, <2>1 DEF JobsApart
  <2>4. \A j \in 1..Len(usJobs'.q) : usJobs'.q[j].buf \notin usPool'.free
    BY <1>10, <1>31, <1>20, <1>21, <2>2 DEF JobsApart
  <2>5. \A j \in 1..Len(usJobs'.q), w \in UDPBusy : usJobs'.q[j].buf # usWork[w].buf
    BY <1>10, <1>31, <1>21, <2>2 DEF JobsApart
  <2>. QED  BY <1>3, <1>12, <2>3, <2>4, <2>5 DEF JobsApart
<1>24. WorkApart'
  BY <1>3, <1>12, <1>20, <1>21 DEF WorkApart
<1>25. Owed'
  BY <1>3 DEF UDPInv, Owed, InQ, InBatch
<1>26. Winding'
  BY <1>3, <1>9, <1>10, <1>21 DEF UDPInv, Winding
<1>27. DatagramsAccounted'
  <2>. DEFINE B == Cardinality(UDPBusy)
              J == Len(usJobs.q)
  <2>1. usStats \in UDPStats /\ B \in Nat /\ J \in Nat
    BY <1>1, BusyFinite DEF UDPInv, UDPTypes
  <2>2. usStats.received + usStats.garbled = usStats.invalid + usStats.drops + usStats.completed + J + B
    BY DEF UDPInv, DatagramsAccounted
  <2>3. Len(usJobs'.q) = J + 1 /\ Cardinality(UDPBusy)' = B
    BY <1>10, <1>12
  <2>. HIDE DEF B, J
  <2>4. usStats'.received + usStats'.garbled = usStats'.invalid + usStats'.drops + usStats'.completed + (J + 1) + B
    BY <1>11, <2>1, <2>2 DEF UDPStats
  <2>. QED  BY <2>3, <2>4 DEF DatagramsAccounted
<1>. QED  BY <1>14, <1>18, <1>22, <1>23, <1>24, <1>25, <1>26, <1>27 DEF UDPInv

(* A datagram that is too short, or that a full queue cannot take: its     *)
(* buffer goes back to the pool and its slot takes one from there.         *)
LEMMA UDPDrops == ASSUME UDPInv, DispatchOne, ~Keeps PROVE UDPInv'
<1>. DEFINE m == Head(usReader.batch)
            bp == usReader.buf[m.slot]
            p == PoolPut(usPool, bp)
            b == PoolPick(p)
<1>1. Dispatching
  BY DEF DispatchOne, Dispatching
<1>2. m.slot \in UDPSlots /\ m.kind \in UDPKinds /\ bp \in Buf /\ Len(usJobs.q) \in Nat /\ UDPQueue \in Nat
  BY <1>1, AtHand, UDPConst DEF UDPInv, UDPTypes, UDPReaders, UDPJobs
<1>3. m.kind = "short" \/ Len(usJobs.q) >= UDPQueue
  BY <1>2 DEF Keeps
<1>4. UNCHANGED <<usWork, usRes, usWrites, usLife, usJobs>> /\ usPool' = PoolTake(p)
  BY <1>3, Zenon DEF DispatchOne
<1>5. usReader' = [pc |-> IF Len(usReader.batch) = 1 THEN "read" ELSE "dispatch",
                   batch |-> Tail(usReader.batch), buf |-> [usReader.buf EXCEPT ![m.slot] = b]]
  BY <1>3, Zenon DEF DispatchOne
<1>6. usStats' = [usStats EXCEPT !.received = @ + 1, !.invalid = @ + (IF m.kind = "short" THEN 1 ELSE 0),
                                 !.drops = @ + (IF m.kind /= "short" /\ Len(usJobs.q) >= UDPQueue THEN 1 ELSE 0)]
  BY Zenon DEF DispatchOne
<1>7. usPool \in UDPPool /\ IsFiniteSet(usPool.free) /\ Cardinality(usPool.free) \in Nat
  BY FS_CardinalityType DEF UDPInv, UDPTypes
<1>8. SlotsApart /\ JobsApart /\ WorkApart /\ usReader.pc # "done"
  BY <1>1 DEF UDPInv, Dispatching
<1>9. /\ p \in UDPPool /\ IsFiniteSet(p.free) /\ p.free = usPool.free \cup {bp} /\ p.made = usPool.made
      /\ Cardinality(p.free) = Cardinality(usPool.free) + 1
  <2>1. bp \notin usPool.free
    BY <1>2, <1>8 DEF SlotsApart
  <2>. QED  BY <1>2, <1>7, <2>1, PutIs
<1>. HIDE DEF p
<1>10. /\ usPool' \in UDPPool /\ IsFiniteSet(usPool'.free) /\ b \in Buf /\ b \in usPool.free \cup {bp}
       /\ usPool'.made = usPool.made /\ usPool'.free = (usPool.free \cup {bp}) \ {b}
       /\ Cardinality(usPool'.free) = Cardinality(usPool.free)
  <2>1. p.free # {}
    BY <1>9
  <2>2. /\ usPool' \in UDPPool /\ IsFiniteSet(usPool'.free) /\ b \in Buf /\ b \in p.free
        /\ usPool'.made = p.made /\ usPool'.free = p.free \ {b}
        /\ Cardinality(usPool'.free) = Cardinality(p.free) - 1
    BY <1>4, <1>9, <2>1, TakeIs
  <2>3. Cardinality(usPool'.free) = Cardinality(usPool.free)
    <3>1. /\ Cardinality(usPool.free) \in Nat
          /\ Cardinality(p.free) = Cardinality(usPool.free) + 1
          /\ Cardinality(usPool'.free) = Cardinality(p.free) - 1
      BY <1>7, <1>9, <2>2, Zenon
    <3>. QED  BY <3>1
  <2>. QED  BY <1>9, <2>2, <2>3
<1>11. /\ usReader' \in UDPReaders /\ (usReader'.pc = "dispatch" => usReader'.batch # <<>>) /\ usReader'.pc # "done"
       /\ usReader'.buf[m.slot] = b /\ \A i \in UDPSlots : i # m.slot => usReader'.buf[i] = usReader.buf[i]
  <2>. DEFINE nb == [usReader.buf EXCEPT ![m.slot] = b]
              pc == IF Len(usReader.batch) = 1 THEN "read" ELSE "dispatch"
  <2>1. nb \in [UDPSlots -> Buf] /\ nb[m.slot] = b /\ \A i \in UDPSlots : i # m.slot => nb[i] = usReader.buf[i]
    BY <1>2, <1>10 DEF UDPInv, UDPTypes, UDPReaders
  <2>2. pc \in {"read", "dispatch", "done"} /\ (pc = "dispatch" => Tail(usReader.batch) # <<>>) /\ pc # "done"
    BY <1>1, AtHand
  <2>. HIDE DEF nb, pc
  <2>3. usReader' = [pc |-> pc, batch |-> Tail(usReader.batch), buf |-> nb]
    BY <1>5 DEF nb, pc
  <2>. QED  BY <1>1, <2>1, <2>2, <2>3, AtHand DEF UDPReaders
<1>12. /\ usStats' \in UDPStats /\ usStats'.received = usStats.received + 1 /\ usStats'.garbled = usStats.garbled
       /\ usStats'.invalid + usStats'.drops = usStats.invalid + usStats.drops + 1 /\ usStats'.completed = usStats.completed
  <2>1. usStats \in UDPStats
    BY DEF UDPInv, UDPTypes
  <2>. DEFINE n == usStats.received + 1
              i == usStats.invalid + (IF m.kind = "short" THEN 1 ELSE 0)
              d == usStats.drops + (IF m.kind /= "short" /\ Len(usJobs.q) >= UDPQueue THEN 1 ELSE 0)
  <2>2. n \in Nat /\ i \in Nat /\ d \in Nat
    BY <2>1 DEF UDPStats
  <2>3. i + d = usStats.invalid + usStats.drops + 1
    <3>1. usStats.invalid \in Nat /\ usStats.drops \in Nat
      BY <2>1 DEF UDPStats
    <3>2. CASE m.kind = "short"
      BY <3>1, <3>2
    <3>3. CASE m.kind # "short"
      <4>1. d = usStats.drops + 1 /\ i = usStats.invalid + 0
        BY <1>3, <3>3
      <4>. HIDE DEF i, d
      <4>. QED  BY <3>1, <4>1
    <3>. QED  BY <3>2, <3>3
  <2>4. usStats' = [usStats EXCEPT !.received = n, !.invalid = i, !.drops = d]
    BY <1>6
  <2>. HIDE DEF n, i, d
  <2>5. /\ usStats' \in UDPStats /\ usStats'.received = n /\ usStats'.garbled = usStats.garbled
        /\ usStats'.invalid = i /\ usStats'.drops = d /\ usStats'.completed = usStats.completed
    BY <2>1, <2>2, <2>4 DEF UDPStats
  <2>. QED  BY <2>3, <2>5 DEF n
<1>13. UDPBusy' = UDPBusy
  BY <1>4 DEF UDPBusy
<1>. HIDE DEF m, b, bp
<1>14. bp = usReader.buf[m.slot]
  BY DEF bp
<1>15. UDPTypes'
  BY <1>4, <1>10, <1>11, <1>12 DEF UDPInv, UDPTypes
<1>16. bp <= usPool.made
  BY <1>2, <1>14 DEF UDPInv, Held
<1>17. Held'
  <2>1. b <= usPool.made
    BY <1>10, <1>16 DEF UDPInv, Held
  <2>2. \A i \in UDPSlots : usReader'.buf[i] <= usPool'.made
    BY <1>10, <1>11, <2>1 DEF UDPInv, Held
  <2>3. \A x \in usPool'.free : x <= usPool'.made
    BY <1>10, <1>16 DEF UDPInv, Held
  <2>4. Lent' = Lent
    BY <1>8, <1>11 DEF Lent
  <2>. QED  BY <1>4, <1>10, <1>13, <2>2, <2>3, <2>4 DEF UDPInv, Held
<1>18. b = bp \/ (b \in usPool.free /\ b # bp)
  BY <1>10
<1>19. SlotsApart'
  BY <1>2, <1>4, <1>8, <1>10, <1>11, <1>13, <1>14, <1>18 DEF SlotsApart, JobsApart, WorkApart
<1>20. JobsApart' /\ WorkApart'
  BY <1>2, <1>4, <1>8, <1>10, <1>13, <1>14 DEF SlotsApart, JobsApart, WorkApart
<1>21. Owed'
  BY <1>4 DEF UDPInv, Owed, InQ, InBatch
<1>22. Winding'
  BY <1>4, <1>8, <1>11 DEF UDPInv, Winding
<1>23. DatagramsAccounted'
  <2>. DEFINE B == Cardinality(UDPBusy)
              J == Len(usJobs.q)
  <2>1. usStats \in UDPStats /\ B \in Nat /\ J \in Nat
    BY <1>2, BusyFinite DEF UDPInv, UDPTypes
  <2>2. usStats.received + usStats.garbled = usStats.invalid + usStats.drops + usStats.completed + J + B
    BY DEF UDPInv, DatagramsAccounted
  <2>3. Len(usJobs'.q) = J /\ Cardinality(UDPBusy)' = B
    BY <1>4, <1>13
  <2>. HIDE DEF B, J
  <2>4. usStats'.received + usStats'.garbled = usStats'.invalid + usStats'.drops + usStats'.completed + J + B
    BY <1>12, <2>1, <2>2 DEF UDPStats
  <2>. QED  BY <2>3, <2>4 DEF DatagramsAccounted
<1>. QED  BY <1>15, <1>17, <1>19, <1>20, <1>21, <1>22, <1>23 DEF UDPInv

(* The job at the head of the queue.                                       *)
LEMMA HeadJob ==
  ASSUME UDPInv, usJobs.q # <<>>
  PROVE  /\ Head(usJobs.q) = usJobs.q[1] /\ Head(usJobs.q) \in UDPJob /\ 1 \in 1..Len(usJobs.q)
         /\ Tail(usJobs.q) \in Seq(UDPJob) /\ Len(usJobs.q) \in Nat \ {0} /\ Len(Tail(usJobs.q)) = Len(usJobs.q) - 1
         /\ \A j \in 1..Len(Tail(usJobs.q)) : j + 1 \in 1..Len(usJobs.q) /\ Tail(usJobs.q)[j] = usJobs.q[j + 1]
<1>1. usJobs.q \in Seq(UDPJob)
  BY DEF UDPInv, UDPTypes, UDPJobs
<1>2. Len(usJobs.q) \in Nat \ {0} /\ Len(Tail(usJobs.q)) = Len(usJobs.q) - 1
  BY <1>1
<1>. QED  BY <1>1, <1>2

(* The queue without its head, whose buffer nothing else holds.            *)
LEMMA HeadLeaves ==
  ASSUME UDPInv, usJobs.q # <<>>, usJobs' = [usJobs EXCEPT !.q = Tail(@)]
  PROVE  /\ usJobs' \in UDPJobs /\ usJobs'.closed = usJobs.closed /\ Len(usJobs'.q) = Len(usJobs.q) - 1
         /\ Len(usJobs.q) \in Nat \ {0}
         /\ \A j \in 1..Len(usJobs'.q) : j + 1 \in 1..Len(usJobs.q) /\ usJobs'.q[j] = usJobs.q[j + 1]
         /\ \A j \in 1..Len(usJobs'.q) : usJobs'.q[j].buf # Head(usJobs.q).buf
<1>. DEFINE t == Tail(usJobs.q)
<1>1. /\ t \in Seq(UDPJob) /\ Len(usJobs.q) \in Nat \ {0} /\ Len(t) = Len(usJobs.q) - 1
      /\ \A j \in 1..Len(t) : j + 1 \in 1..Len(usJobs.q) /\ t[j] = usJobs.q[j + 1]
  BY HeadJob
<1>2. usJobs' = [usJobs EXCEPT !.q = t]
  OBVIOUS
<1>. HIDE DEF t
<1>3. usJobs' \in UDPJobs /\ usJobs'.closed = usJobs.closed /\ usJobs'.q = t
  BY <1>1, <1>2 DEF UDPInv, UDPTypes, UDPJobs
<1>4. \A j \in 1..Len(t) : j + 1 # 1
  BY <1>1
<1>5. ASSUME NEW j \in 1..Len(t) PROVE t[j].buf # usJobs.q[1].buf
  <2>1. j + 1 \in 1..Len(usJobs.q) /\ 1 \in 1..Len(usJobs.q) /\ t[j] = usJobs.q[j + 1] /\ j + 1 # 1
    BY <1>1, <1>4, HeadJob
  <2>2. \A k, l \in 1..Len(usJobs.q) : usJobs.q[k].buf = usJobs.q[l].buf => k = l
    BY DEF UDPInv, JobsApart
  <2>3. usJobs.q[j + 1].buf # usJobs.q[1].buf
    BY <2>1, <2>2
  <2>. QED  BY <2>1, <2>3
<1>. QED  BY <1>1, <1>3, <1>5, HeadJob

(* A worker whose job is over: its buffer is pooled.                       *)
LEMMA WorkerFreed ==
  ASSUME UDPInv, NEW w \in UDPBusy, HandleDone(w, usWork[w].buf), UNCHANGED <<usReader, usJobs>>
  PROVE  /\ usWork' \in [UDPWorkers -> UDPWorker] /\ usWork'[w].pc = "idle"
         /\ \A v \in UDPWorkers : v # w => usWork'[v] = usWork[v]
         /\ usPool' \in UDPPool /\ IsFiniteSet(usPool'.free)
         /\ (Held /\ SlotsApart /\ JobsApart /\ WorkApart)'
         /\ Cardinality(UDPBusy) \in Nat \ {0} /\ Cardinality(UDPBusy)' = Cardinality(UDPBusy) - 1
<1>. DEFINE b == usWork[w].buf
            n == [pc |-> "idle", kind |-> "query", buf |-> NoBuf]
<1>1. w \in UDPWorkers /\ b \in Buf /\ b \notin usPool.free
  BY DEF UDPInv, UDPTypes, UDPBusy, UDPWorker, Held, WorkApart, Buf
<1>2. usWork' = [usWork EXCEPT ![w] = n] /\ usPool' = PoolPut(usPool, b)
  BY DEF HandleDone
<1>3. n \in UDPWorker /\ n.pc = "idle" /\ n.buf = 0
  BY DEF UDPWorker, UDPKinds, NoBuf
<1>. HIDE DEF n
<1>4. usPool \in UDPPool /\ IsFiniteSet(usPool.free) /\ Cardinality(usPool.free) \in Nat
  BY FS_CardinalityType DEF UDPInv, UDPTypes
<1>5. /\ usPool' \in UDPPool /\ IsFiniteSet(usPool'.free) /\ usPool'.free = usPool.free \cup {b} /\ usPool'.made = usPool.made
      /\ Cardinality(usPool'.free) = Cardinality(usPool.free) + 1
  BY <1>1, <1>2, <1>4, PutIs
<1>6. usWork' \in [UDPWorkers -> UDPWorker] /\ usWork'[w] = n /\ \A v \in UDPWorkers : v # w => usWork'[v] = usWork[v]
  BY <1>1, <1>2, <1>3 DEF UDPInv, UDPTypes
<1>7. UDPBusy' = UDPBusy \ {w}
  BY <1>1, <1>3, <1>6 DEF UDPBusy
<1>8. Cardinality(UDPBusy) \in Nat \ {0} /\ Cardinality(UDPBusy)' = Cardinality(UDPBusy) - 1
  BY <1>7, BusyFinite, FS_RemoveElement, FS_EmptySet
<1>9. b <= usPool.made
  BY <1>1 DEF UDPInv, Held
<1>10. Held'
  <2>1. usPool'.made = Lent' + Len(usJobs'.q) + Cardinality(UDPBusy)' + Cardinality(usPool'.free)
    <3>. DEFINE B == Cardinality(UDPBusy)
                F == Cardinality(usPool.free)
                J == Len(usJobs.q)
    <3>1. B \in Nat \ {0} /\ F \in Nat /\ J \in Nat /\ Lent \in Nat /\ usPool.made = Lent + J + B + F
      BY <1>4, <1>8, UDPConst DEF UDPInv, UDPTypes, UDPJobs, Held, Lent
    <3>2. Lent' = Lent /\ Len(usJobs'.q) = J /\ Cardinality(UDPBusy)' = B - 1 /\ Cardinality(usPool'.free) = F + 1
      BY <1>5, <1>8 DEF Lent
    <3>. HIDE DEF B, F, J
    <3>. QED  BY <1>5, <3>1, <3>2
  <2>2. \A x \in usPool'.free : x <= usPool'.made
    BY <1>5, <1>9 DEF UDPInv, Held
  <2>3. \A v \in UDPWorkers : usWork'[v].buf <= usPool'.made
    <3>1. 0 <= usPool.made
      BY <1>4 DEF UDPPool
    <3>. QED  BY <1>3, <1>5, <1>6, <3>1 DEF UDPInv, Held
  <2>4. \A v \in UDPBusy' : usWork'[v].buf # 0
    BY <1>6, <1>7 DEF UDPInv, Held, UDPBusy
  <2>. QED  BY <1>5, <2>1, <2>2, <2>3, <2>4 DEF UDPInv, Held
<1>11. \A v \in UDPBusy' : v \in UDPBusy /\ v # w /\ usWork'[v] = usWork[v]
  BY <1>6, <1>7 DEF UDPBusy
<1>12. SlotsApart'
  BY <1>5, <1>11 DEF UDPInv, SlotsApart
<1>13. JobsApart'
  BY <1>5, <1>11 DEF UDPInv, JobsApart
<1>14. WorkApart'
  BY <1>5, <1>11 DEF UDPInv, WorkApart
<1>. QED  BY <1>3, <1>5, <1>6, <1>8, <1>10, <1>12, <1>13, <1>14

(* One job completed.                                                      *)
LEMMA OneCompleted ==
  ASSUME UDPInv, usStats' = [usStats EXCEPT !.completed = @ + 1], usJobs' = usJobs,
         Cardinality(UDPBusy) \in Nat \ {0}, Cardinality(UDPBusy)' = Cardinality(UDPBusy) - 1
  PROVE  usStats' \in UDPStats /\ DatagramsAccounted'
<1>. DEFINE B == Cardinality(UDPBusy)
            J == Len(usJobs.q)
            c == usStats.completed + 1
<1>1. usStats \in UDPStats /\ J \in Nat /\ B \in Nat \ {0} /\ c \in Nat
  BY DEF UDPInv, UDPTypes, UDPJobs, UDPStats
<1>2. usStats.received + usStats.garbled = usStats.invalid + usStats.drops + usStats.completed + J + B
  BY DEF UDPInv, DatagramsAccounted
<1>3. Len(usJobs'.q) = J /\ Cardinality(UDPBusy)' = B - 1 /\ usStats' = [usStats EXCEPT !.completed = c]
  OBVIOUS
<1>. HIDE DEF B, J
<1>6. c = usStats.completed + 1
  OBVIOUS
<1>. HIDE DEF c
<1>4. /\ usStats' \in UDPStats /\ usStats'.received = usStats.received /\ usStats'.garbled = usStats.garbled
      /\ usStats'.invalid = usStats.invalid /\ usStats'.drops = usStats.drops /\ usStats'.completed = c
  BY <1>1, <1>3 DEF UDPStats
<1>5. usStats'.received + usStats'.garbled = usStats'.invalid + usStats'.drops + usStats'.completed + J + (B - 1)
  BY <1>1, <1>2, <1>4, <1>6 DEF UDPStats
<1>. QED  BY <1>3, <1>4, <1>5 DEF DatagramsAccounted

\* A handler ends without a reply.
LEMMA UDPNoReply == ASSUME UDPInv, NEW w \in UDPWorkers, WorkerNoReply(w) PROVE UDPInv'
<1>1. usWork[w].pc = "handling" /\ HandleDone(w, usWork[w].buf) /\ UNCHANGED <<usReader, usJobs, usRes, usWrites, usLife>>
      /\ usStats' = [usStats EXCEPT !.completed = @ + 1]
  BY DEF WorkerNoReply
<1>2. w \in UDPBusy
  BY <1>1 DEF UDPBusy
<1>3. /\ usWork' \in [UDPWorkers -> UDPWorker] /\ usWork'[w].pc = "idle"
      /\ \A v \in UDPWorkers : v # w => usWork'[v] = usWork[v]
      /\ usPool' \in UDPPool /\ IsFiniteSet(usPool'.free)
      /\ (Held /\ SlotsApart /\ JobsApart /\ WorkApart)'
      /\ Cardinality(UDPBusy) \in Nat \ {0} /\ Cardinality(UDPBusy)' = Cardinality(UDPBusy) - 1
  BY <1>1, <1>2, WorkerFreed
<1>4. usStats' \in UDPStats /\ DatagramsAccounted'
  BY <1>1, <1>3, OneCompleted
<1>5. UDPTypes'
  BY <1>1, <1>3, <1>4 DEF UDPInv, UDPTypes
<1>6. Owed'
  BY <1>1, <1>3 DEF UDPInv, Owed, InQ, InBatch
<1>7. Winding'
  BY <1>1, <1>3 DEF UDPInv, Winding
<1>. QED  BY <1>3, <1>4, <1>5, <1>6, <1>7 DEF UDPInv

\* A worker gets the result of its write and ends its datagram.
LEMMA UDPResult == ASSUME UDPInv, NEW w \in UDPWorkers, WorkerResult(w) PROVE UDPInv'
<1>1. /\ usWork[w].pc = "waiting" /\ usRes[w] # "none" /\ HandleDone(w, usWork[w].buf)
      /\ UNCHANGED <<usReader, usJobs, usWrites, usLife>>
      /\ usStats' = [usStats EXCEPT !.completed = @ + 1] /\ usRes' = [usRes EXCEPT ![w] = "none"]
  BY DEF WorkerResult
<1>2. w \in UDPBusy
  BY <1>1 DEF UDPBusy
<1>3. /\ usWork' \in [UDPWorkers -> UDPWorker] /\ usWork'[w].pc = "idle"
      /\ \A v \in UDPWorkers : v # w => usWork'[v] = usWork[v]
      /\ usPool' \in UDPPool /\ IsFiniteSet(usPool'.free)
      /\ (Held /\ SlotsApart /\ JobsApart /\ WorkApart)'
      /\ Cardinality(UDPBusy) \in Nat \ {0} /\ Cardinality(UDPBusy)' = Cardinality(UDPBusy) - 1
  BY <1>1, <1>2, WorkerFreed
<1>4. usStats' \in UDPStats /\ DatagramsAccounted'
  BY <1>1, <1>3, OneCompleted
<1>8. usRes' \in [UDPWorkers -> {"none", "ok", "error"}] /\ usRes'[w] = "none" /\ \A v \in UDPWorkers : v # w => usRes'[v] = usRes[v]
  BY <1>1 DEF UDPInv, UDPTypes
<1>5. UDPTypes'
  BY <1>1, <1>3, <1>4, <1>8 DEF UDPInv, UDPTypes
<1>6. Owed'
  <2>1. InQ(w)' = InQ(w) /\ InBatch(w)' = InBatch(w) /\ \A v \in UDPWorkers : (InQ(v)' <=> InQ(v)) /\ (InBatch(v)' <=> InBatch(v))
    BY <1>1 DEF InQ, InBatch
  <2>2. ~InQ(w) /\ ~InBatch(w)
    BY <1>1 DEF UDPInv, Owed
  <2>. QED  BY <1>1, <1>3, <1>8, <2>1, <2>2 DEF UDPInv, Owed
<1>7. Winding'
  BY <1>1, <1>3 DEF UDPInv, Winding
<1>. QED  BY <1>3, <1>4, <1>5, <1>6, <1>7 DEF UDPInv

GarbledNext == Head(usJobs.q).kind = "garbled"

(* A garbled datagram is done with at once.                                *)
LEMMA UDPTakesGarbled ==
  ASSUME UDPInv, NEW w \in UDPWorkers, WorkerTake(w), GarbledNext
  PROVE  UDPInv'
<1>. DEFINE b == Head(usJobs.q).buf
            n == [pc |-> "idle", kind |-> "query", buf |-> NoBuf]
<1>1. /\ usWork[w].pc = "idle" /\ usJobs.q # <<>> /\ UNCHANGED <<usReader, usRes, usWrites, usLife>>
      /\ usJobs' = [usJobs EXCEPT !.q = Tail(@)]
      /\ usStats' = [usStats EXCEPT !.invalid = @ + 1, !.completed = @ + 1, !.garbled = @ + 1]
      /\ usWork' = [usWork EXCEPT ![w] = n] /\ usPool' = PoolPut(usPool, b)
  BY DEF WorkerTake, HandleDone, GarbledNext
<1>2. Head(usJobs.q) = usJobs.q[1] /\ 1 \in 1..Len(usJobs.q)
  BY <1>1, HeadJob
<1>3. b \in Buf /\ b \notin usPool.free /\ b <= usPool.made /\ b = usJobs.q[1].buf
  BY <1>2, JobBuffers DEF UDPInv, JobsApart
<1>4. n \in UDPWorker /\ n.pc = "idle" /\ n.buf = 0
  BY DEF UDPWorker, UDPKinds, NoBuf
<1>5. usPool \in UDPPool /\ IsFiniteSet(usPool.free) /\ Cardinality(usPool.free) \in Nat
  BY FS_CardinalityType DEF UDPInv, UDPTypes
<1>6. /\ usPool' \in UDPPool /\ IsFiniteSet(usPool'.free) /\ usPool'.free = usPool.free \cup {b} /\ usPool'.made = usPool.made
      /\ Cardinality(usPool'.free) = Cardinality(usPool.free) + 1
  BY <1>1, <1>3, <1>5, PutIs
<1>7. /\ usJobs' \in UDPJobs /\ usJobs'.closed = usJobs.closed /\ Len(usJobs'.q) = Len(usJobs.q) - 1
      /\ Len(usJobs.q) \in Nat \ {0}
      /\ \A j \in 1..Len(usJobs'.q) : j + 1 \in 1..Len(usJobs.q) /\ usJobs'.q[j] = usJobs.q[j + 1]
      /\ \A j \in 1..Len(usJobs'.q) : usJobs'.q[j].buf # b
  BY <1>1, HeadLeaves
<1>. HIDE DEF n, b
<1>8. usWork' \in [UDPWorkers -> UDPWorker] /\ usWork'[w] = n /\ \A v \in UDPWorkers : v # w => usWork'[v] = usWork[v]
  BY <1>1, <1>4 DEF UDPInv, UDPTypes
<1>9. UDPBusy' = UDPBusy /\ \A v \in UDPBusy : v # w /\ usWork'[v] = usWork[v]
  BY <1>1, <1>4, <1>8 DEF UDPBusy
<1>10. /\ usStats' \in UDPStats /\ usStats'.received = usStats.received /\ usStats'.garbled = usStats.garbled + 1
       /\ usStats'.invalid = usStats.invalid + 1 /\ usStats'.drops = usStats.drops /\ usStats'.completed = usStats.completed + 1
  <2>. DEFINE i == usStats.invalid + 1
              c == usStats.completed + 1
              g == usStats.garbled + 1
  <2>1. usStats \in UDPStats /\ i \in Nat /\ c \in Nat /\ g \in Nat
    BY DEF UDPInv, UDPTypes, UDPStats
  <2>2. usStats' = [usStats EXCEPT !.invalid = i, !.completed = c, !.garbled = g]
    BY <1>1
  <2>. HIDE DEF i, c, g
  <2>3. /\ usStats' \in UDPStats /\ usStats'.received = usStats.received /\ usStats'.garbled = g
        /\ usStats'.invalid = i /\ usStats'.drops = usStats.drops /\ usStats'.completed = c
    BY <2>1, <2>2 DEF UDPStats
  <2>. QED  BY <2>3 DEF i, c, g
<1>11. UDPTypes'
  <2>1. Len(usJobs'.q) <= UDPQueue
    BY <1>7, UDPConst DEF UDPInv, UDPTypes
  <2>. QED  BY <1>1, <1>6, <1>7, <1>8, <1>10, <2>1 DEF UDPInv, UDPTypes
<1>. DEFINE B == Cardinality(UDPBusy)
            F == Cardinality(usPool.free)
            J == Len(usJobs.q)
<1>12. /\ B \in Nat /\ F \in Nat /\ J \in Nat \ {0} /\ Lent \in Nat /\ usPool.made = Lent + J + B + F
       /\ Lent' = Lent /\ Len(usJobs'.q) = J - 1 /\ Cardinality(UDPBusy)' = B /\ Cardinality(usPool'.free) = F + 1
       /\ usStats.received + usStats.garbled = usStats.invalid + usStats.drops + usStats.completed + J + B
  BY <1>1, <1>5, <1>6, <1>7, <1>9, BusyFinite, UDPConst DEF UDPInv, Held, Lent, DatagramsAccounted
<1>. HIDE DEF B, F, J
<1>13. Held'
  <2>1. usPool'.made = Lent' + Len(usJobs'.q) + Cardinality(UDPBusy)' + Cardinality(usPool'.free)
    BY <1>6, <1>12
  <2>2. \A x \in usPool'.free : x <= usPool'.made
    BY <1>3, <1>6 DEF UDPInv, Held
  <2>3. \A v \in UDPWorkers : usWork'[v].buf <= usPool'.made
    <3>1. 0 <= usPool.made
      BY <1>5 DEF UDPPool
    <3>. QED  BY <1>4, <1>6, <1>8, <3>1 DEF UDPInv, Held
  <2>4. \A v \in UDPBusy' : usWork'[v].buf # 0
    BY <1>9 DEF UDPInv, Held
  <2>5. \A j \in 1..Len(usJobs'.q) : usJobs'.q[j].buf <= usPool'.made
    BY <1>6, <1>7 DEF UDPInv, Held
  <2>. QED  BY <1>1, <1>6, <2>1, <2>2, <2>3, <2>4, <2>5 DEF UDPInv, Held
<1>14. SlotsApart'
  <2>1. usReader.pc # "done" => \A i \in UDPSlots : usReader.buf[i] # b
    BY <1>2, <1>3 DEF UDPInv, SlotsApart
  <2>. QED  BY <1>1, <1>6, <1>7, <1>9, <2>1 DEF UDPInv, SlotsApart
<1>15. JobsApart'
  <2>1. \A j, k \in 1..Len(usJobs'.q) : usJobs'.q[j].buf = usJobs'.q[k].buf => j = k
    <3>. SUFFICES ASSUME NEW j \in 1..Len(usJobs'.q), NEW k \in 1..Len(usJobs'.q), usJobs'.q[j].buf = usJobs'.q[k].buf
                  PROVE  j = k
      OBVIOUS
    <3>1. j + 1 \in 1..Len(usJobs.q) /\ k + 1 \in 1..Len(usJobs.q) /\ usJobs.q[j + 1].buf = usJobs.q[k + 1].buf
      BY <1>7
    <3>2. \A x, y \in 1..Len(usJobs.q) : usJobs.q[x].buf = usJobs.q[y].buf => x = y
      BY DEF UDPInv, JobsApart
    <3>3. j + 1 = k + 1
      BY <3>1, <3>2
    <3>. QED  BY <3>3
  <2>2. \A j \in 1..Len(usJobs'.q) : usJobs'.q[j].buf \notin usPool'.free
    <3>1. \A j \in 1..Len(usJobs.q) : usJobs.q[j].buf \notin usPool.free
      BY DEF UDPInv, JobsApart
    <3>. QED  BY <1>6, <1>7, <3>1
  <2>3. \A j \in 1..Len(usJobs'.q), v \in UDPBusy : usJobs'.q[j].buf # usWork[v].buf
    <3>1. \A j \in 1..Len(usJobs.q), v \in UDPBusy : usJobs.q[j].buf # usWork[v].buf
      BY DEF UDPInv, JobsApart
    <3>. QED  BY <1>7, <3>1
  <2>. QED  BY <1>9, <2>1, <2>2, <2>3 DEF JobsApart
<1>16. WorkApart'
  <2>1. \A v \in UDPBusy : usWork[v].buf # b
    BY <1>2, <1>3 DEF UDPInv, JobsApart
  <2>. QED  BY <1>6, <1>9, <2>1 DEF UDPInv, WorkApart
<1>17. Owed'
  BY <1>1, <1>4, <1>8 DEF UDPInv, Owed, InQ, InBatch
<1>18. Winding'
  <2>1. \A v \in UDPWorkers : usWork[v].pc # "exited"
    BY <1>1 DEF UDPInv, Winding
  <2>2. \A v \in UDPWorkers : usWork'[v].pc # "exited"
    BY <1>4, <1>8, <2>1
  <2>. QED  BY <1>1, <1>7, <2>1, <2>2 DEF UDPInv, Winding
<1>19. DatagramsAccounted'
  <2>1. usStats \in UDPStats
    BY DEF UDPInv, UDPTypes
  <2>2. usStats'.received + usStats'.garbled = usStats'.invalid + usStats'.drops + usStats'.completed + (J - 1) + B
    <3>. DEFINE r == usStats.received
                g == usStats.garbled
                i == usStats.invalid
                d == usStats.drops
                c == usStats.completed
    <3>1. r \in Nat /\ g \in Nat /\ i \in Nat /\ d \in Nat /\ c \in Nat
      BY <2>1 DEF UDPStats
    <3>2. r + g = i + d + c + J + B /\ J \in Nat /\ B \in Nat
      BY <1>12
    <3>3. usStats'.received = r /\ usStats'.garbled = g + 1 /\ usStats'.invalid = i + 1 /\ usStats'.drops = d
          /\ usStats'.completed = c + 1
      BY <1>10
    <3>. HIDE DEF r, g, i, d, c
    <3>4. r + (g + 1) = (i + 1) + d + (c + 1) + (J - 1) + B
      BY <3>1, <3>2
    <3>. QED  BY <3>3, <3>4
  <2>. QED  BY <1>12, <2>2 DEF DatagramsAccounted
<1>. QED  BY <1>11, <1>13, <1>14, <1>15, <1>16, <1>17, <1>18, <1>19 DEF UDPInv

(* Any other goes to the handler, buffer and all.                          *)
LEMMA UDPTakesQuery ==
  ASSUME UDPInv, NEW w \in UDPWorkers, WorkerTake(w), ~GarbledNext
  PROVE  UDPInv'
<1>. DEFINE h == Head(usJobs.q)
            b == h.buf
            n == [pc |-> "handling", kind |-> h.kind, buf |-> b]
<1>1. /\ usWork[w].pc = "idle" /\ usJobs.q # <<>> /\ UNCHANGED <<usReader, usRes, usWrites, usLife, usStats, usPool>>
      /\ usJobs' = [usJobs EXCEPT !.q = Tail(@)] /\ usWork' = [usWork EXCEPT ![w] = n]
  BY DEF WorkerTake, GarbledNext
<1>2. h = usJobs.q[1] /\ 1 \in 1..Len(usJobs.q) /\ h \in UDPJob
  BY <1>1, HeadJob
<1>3. b \in Buf /\ b \notin usPool.free /\ b <= usPool.made /\ b = usJobs.q[1].buf
  BY <1>2, JobBuffers DEF UDPInv, JobsApart
<1>4. n \in UDPWorker /\ n.pc = "handling" /\ n.buf = b
  BY <1>2, <1>3 DEF UDPWorker, UDPJob, Buf
<1>7. /\ usJobs' \in UDPJobs /\ usJobs'.closed = usJobs.closed /\ Len(usJobs'.q) = Len(usJobs.q) - 1
      /\ Len(usJobs.q) \in Nat \ {0}
      /\ \A j \in 1..Len(usJobs'.q) : j + 1 \in 1..Len(usJobs.q) /\ usJobs'.q[j] = usJobs.q[j + 1]
      /\ \A j \in 1..Len(usJobs'.q) : usJobs'.q[j].buf # b
  BY <1>1, HeadLeaves
<1>. HIDE DEF n, b, h
<1>8. usWork' \in [UDPWorkers -> UDPWorker] /\ usWork'[w] = n /\ \A v \in UDPWorkers : v # w => usWork'[v] = usWork[v]
  BY <1>1, <1>4 DEF UDPInv, UDPTypes
<1>9. UDPBusy' = UDPBusy \cup {w} /\ w \notin UDPBusy /\ \A v \in UDPBusy : v # w /\ usWork'[v] = usWork[v]
  BY <1>1, <1>4, <1>8 DEF UDPBusy
<1>10. Cardinality(UDPBusy)' = Cardinality(UDPBusy) + 1
  BY <1>9, BusyFinite, FS_AddElement
<1>11. UDPTypes'
  <2>1. Len(usJobs'.q) <= UDPQueue
    BY <1>7, UDPConst DEF UDPInv, UDPTypes
  <2>. QED  BY <1>1, <1>7, <1>8, <2>1 DEF UDPInv, UDPTypes
<1>. DEFINE B == Cardinality(UDPBusy)
            F == Cardinality(usPool.free)
            J == Len(usJobs.q)
<1>5. F \in Nat
  BY FS_CardinalityType DEF UDPInv, UDPTypes
<1>12. /\ B \in Nat /\ F \in Nat /\ J \in Nat \ {0} /\ Lent \in Nat /\ usPool.made = Lent + J + B + F
       /\ Lent' = Lent /\ Len(usJobs'.q) = J - 1 /\ Cardinality(UDPBusy)' = B + 1 /\ Cardinality(usPool'.free) = F
       /\ usStats.received + usStats.garbled = usStats.invalid + usStats.drops + usStats.completed + J + B
  BY <1>1, <1>5, <1>7, <1>10, BusyFinite, UDPConst DEF UDPInv, Held, Lent, DatagramsAccounted
<1>. HIDE DEF B, F, J
<1>13. Held'
  <2>1. usPool'.made = Lent' + Len(usJobs'.q) + Cardinality(UDPBusy)' + Cardinality(usPool'.free)
    <3>. DEFINE l == Lent
                k == usPool.made
    <3>1. l \in Nat /\ J \in Nat /\ B \in Nat /\ F \in Nat /\ k = l + J + B + F
      BY <1>12
    <3>2. Lent' = l /\ usPool'.made = k
      BY <1>1, <1>12
    <3>. HIDE DEF l, k
    <3>3. k = l + (J - 1) + (B + 1) + F
      BY <3>1
    <3>. QED  BY <1>12, <3>2, <3>3
  <2>3. \A v \in UDPWorkers : usWork'[v].buf <= usPool'.made
    BY <1>1, <1>3, <1>4, <1>8 DEF UDPInv, Held
  <2>4. \A v \in UDPBusy' : usWork'[v].buf # 0
    BY <1>3, <1>4, <1>8, <1>9 DEF UDPInv, Held, Buf
  <2>5. \A j \in 1..Len(usJobs'.q) : usJobs'.q[j].buf <= usPool'.made
    BY <1>1, <1>7 DEF UDPInv, Held
  <2>. QED  BY <1>1, <2>1, <2>3, <2>4, <2>5 DEF UDPInv, Held
<1>14. SlotsApart'
  <2>1. usReader.pc # "done" => \A i \in UDPSlots : usReader.buf[i] # b
    BY <1>2, <1>3 DEF UDPInv, SlotsApart
  <2>. QED  BY <1>1, <1>4, <1>7, <1>8, <1>9, <2>1 DEF UDPInv, SlotsApart
<1>15. JobsApart'
  <2>1. \A j, k \in 1..Len(usJobs'.q) : usJobs'.q[j].buf = usJobs'.q[k].buf => j = k
    <3>. SUFFICES ASSUME NEW j \in 1..Len(usJobs'.q), NEW k \in 1..Len(usJobs'.q), usJobs'.q[j].buf = usJobs'.q[k].buf
                  PROVE  j = k
      OBVIOUS
    <3>1. j + 1 \in 1..Len(usJobs.q) /\ k + 1 \in 1..Len(usJobs.q) /\ usJobs.q[j + 1].buf = usJobs.q[k + 1].buf
      BY <1>7
    <3>2. \A x, y \in 1..Len(usJobs.q) : usJobs.q[x].buf = usJobs.q[y].buf => x = y
      BY DEF UDPInv, JobsApart
    <3>3. j + 1 = k + 1
      BY <3>1, <3>2
    <3>. QED  BY <3>3
  <2>. QED  BY <1>1, <1>4, <1>7, <1>8, <1>9, <2>1 DEF UDPInv, JobsApart
<1>16. WorkApart'
  <2>1. \A v \in UDPBusy : usWork[v].buf # b
    BY <1>2, <1>3 DEF UDPInv, JobsApart
  <2>. QED  BY <1>1, <1>3, <1>4, <1>8, <1>9, <2>1 DEF UDPInv, WorkApart
<1>17. Owed'
  BY <1>1, <1>4, <1>8 DEF UDPInv, Owed, InQ, InBatch
<1>18. Winding'
  <2>1. \A v \in UDPWorkers : usWork[v].pc # "exited"
    BY <1>1 DEF UDPInv, Winding
  <2>2. \A v \in UDPWorkers : usWork'[v].pc # "exited"
    BY <1>4, <1>8, <2>1
  <2>. QED  BY <1>1, <1>7, <2>1, <2>2 DEF UDPInv, Winding
<1>19. DatagramsAccounted'
  <2>1. usStats \in UDPStats
    BY DEF UDPInv, UDPTypes
  <2>2. usStats.received + usStats.garbled = usStats.invalid + usStats.drops + usStats.completed + (J - 1) + (B + 1)
    <3>. DEFINE x == usStats.received + usStats.garbled
                y == usStats.invalid + usStats.drops + usStats.completed
    <3>1. x \in Nat /\ y \in Nat
      BY <2>1 DEF UDPStats
    <3>2. x = y + J + B /\ J \in Nat /\ B \in Nat
      BY <1>12
    <3>. HIDE DEF x, y
    <3>3. x = y + (J - 1) + (B + 1)
      BY <3>1, <3>2
    <3>. QED  BY <3>3 DEF x, y
  <2>. QED  BY <1>1, <1>12, <2>2 DEF DatagramsAccounted
<1>. QED  BY <1>11, <1>13, <1>14, <1>15, <1>16, <1>17, <1>18, <1>19 DEF UDPInv

(* A worker that stays what it is to the buffers.                          *)
LEMMA WorkerMoves ==
  ASSUME UDPInv, NEW w \in UDPWorkers, NEW pc \in {"idle", "handling", "waiting", "exited"},
         usWork' = [usWork EXCEPT ![w].pc = pc],
         pc \in {"handling", "waiting"} <=> usWork[w].pc \in {"handling", "waiting"},
         UNCHANGED <<usReader, usJobs, usPool, usStats>>
  PROVE  /\ usWork' \in [UDPWorkers -> UDPWorker] /\ usWork'[w].pc = pc
         /\ \A v \in UDPWorkers : v # w => usWork'[v] = usWork[v]
         /\ (Held /\ SlotsApart /\ JobsApart /\ WorkApart /\ DatagramsAccounted)'
<1>. DEFINE n == [usWork[w] EXCEPT !.pc = pc]
<1>1. n \in UDPWorker /\ n.pc = pc /\ n.buf = usWork[w].buf
  BY DEF UDPInv, UDPTypes, UDPWorker
<1>2. usWork' = [usWork EXCEPT ![w] = n]
  BY DEF UDPInv, UDPTypes
<1>. HIDE DEF n
<1>3. usWork' \in [UDPWorkers -> UDPWorker] /\ usWork'[w] = n /\ \A v \in UDPWorkers : v # w => usWork'[v] = usWork[v]
  BY <1>1, <1>2 DEF UDPInv, UDPTypes
<1>4. \A v \in UDPWorkers : usWork'[v].buf = usWork[v].buf /\ (v \in UDPBusy' <=> v \in UDPBusy)
  BY <1>1, <1>3 DEF UDPBusy
<1>5. UDPBusy' = UDPBusy /\ Lent' = Lent /\ UDPBusy \subseteq UDPWorkers
  BY <1>4 DEF UDPBusy, Lent
<1>6. Held'
  BY <1>4, <1>5 DEF UDPInv, Held
<1>7. (SlotsApart /\ JobsApart /\ WorkApart)'
  BY <1>4, <1>5 DEF UDPInv, SlotsApart, JobsApart, WorkApart
<1>8. DatagramsAccounted'
  BY <1>5 DEF UDPInv, DatagramsAccounted
<1>. QED  BY <1>1, <1>3, <1>6, <1>7, <1>8

\* A worker finds the queue closed and empty, and exits.
LEMMA UDPExits == ASSUME UDPInv, NEW w \in UDPWorkers, WorkerExit(w) PROVE UDPInv'
<1>1. /\ usWork[w].pc = "idle" /\ usJobs.closed /\ usJobs.q = <<>> /\ usWork' = [usWork EXCEPT ![w].pc = "exited"]
      /\ UNCHANGED <<usReader, usJobs, usRes, usWrites, usPool, usStats, usLife>>
  BY DEF WorkerExit
<1>2. /\ usWork' \in [UDPWorkers -> UDPWorker] /\ usWork'[w].pc = "exited"
      /\ \A v \in UDPWorkers : v # w => usWork'[v] = usWork[v]
      /\ (Held /\ SlotsApart /\ JobsApart /\ WorkApart /\ DatagramsAccounted)'
  BY <1>1, WorkerMoves
<1>3. UDPTypes'
  BY <1>1, <1>2 DEF UDPInv, UDPTypes
<1>4. Owed'
  BY <1>1, <1>2 DEF UDPInv, Owed, InQ, InBatch
<1>5. Winding'
  BY <1>1, <1>2 DEF UDPInv, Winding
<1>. QED  BY <1>2, <1>3, <1>4, <1>5 DEF UDPInv

\* A worker hands its reply to the writer and waits.
LEMMA UDPWritesOne == ASSUME UDPInv, NEW w \in UDPWorkers, WorkerWrite(w) PROVE UDPInv'
<1>. DEFINE q == usWrites.q
            nq == Append(q, w)
            N == Len(q)
<1>1. /\ usWork[w].pc = "handling" /\ N < UDPQueue /\ usWork' = [usWork EXCEPT ![w].pc = "waiting"]
      /\ UNCHANGED <<usReader, usJobs, usRes, usPool, usStats, usLife>> /\ usWrites' = [usWrites EXCEPT !.q = nq]
  BY DEF WorkerWrite
<1>2. /\ usWork' \in [UDPWorkers -> UDPWorker] /\ usWork'[w].pc = "waiting"
      /\ \A v \in UDPWorkers : v # w => usWork'[v] = usWork[v]
      /\ (Held /\ SlotsApart /\ JobsApart /\ WorkApart /\ DatagramsAccounted)'
  BY <1>1, WorkerMoves
<1>3. q \in Seq(UDPWorkers) /\ N \in Nat /\ UDPQueue \in Nat
  BY UDPConst DEF UDPInv, UDPTypes, UDPWrites
<1>4. nq \in Seq(UDPWorkers) /\ Len(nq) = N + 1 /\ nq[N + 1] = w /\ \A i \in 1..N : nq[i] = q[i]
  BY <1>3, AppendProperties
<1>. HIDE DEF nq
<1>5. /\ usWrites' \in UDPWrites /\ usWrites'.q = nq /\ usWrites'.batch = usWrites.batch /\ usWrites'.closed = usWrites.closed
      /\ usWrites'.exited = usWrites.exited
  BY <1>1, <1>4 DEF UDPInv, UDPTypes, UDPWrites
<1>6. Len(nq) <= UDPQueue
  BY <1>1, <1>3, <1>4
<1>7. UDPTypes'
  BY <1>1, <1>2, <1>5, <1>6 DEF UDPInv, UDPTypes
<1>8. \A i \in 1..Len(nq) : i \in 1..N \/ i = N + 1
  BY <1>3, <1>4
<1>9. 1..N \subseteq 1..Len(nq) /\ N + 1 \in 1..Len(nq)
  BY <1>3, <1>4
<1>10. ~InQ(w) /\ ~InBatch(w) /\ usRes[w] = "none"
  BY <1>1 DEF UDPInv, Owed
<1>11. \A i \in 1..N : q[i] # w
  BY <1>10 DEF InQ
<1>. DEFINE M == Len(usWrites.batch)
<1>12. \A i \in 1..M : usWrites.batch[i] # w
  BY <1>10 DEF InBatch
<1>13. \A v \in UDPWorkers : (InQ(v)' <=> InQ(v) \/ v = w) /\ (InBatch(v)' <=> InBatch(v))
  <2>1. \A v \in UDPWorkers : InBatch(v)' <=> InBatch(v)
    BY <1>5 DEF InBatch
  <2>2. ASSUME NEW v \in UDPWorkers PROVE (\E i \in 1..Len(nq) : nq[i] = v) <=> (\E i \in 1..N : q[i] = v) \/ v = w
    <3>. HIDE DEF q, N
    <3>. QED  BY <1>4, <1>8, <1>9
  <2>. QED  BY <1>5, <2>1, <2>2 DEF InQ
<1>14. Owed'
  <2>1. \A i, k \in 1..Len(nq) : nq[i] = nq[k] => i = k
    <3>1. \A i, k \in 1..N : q[i] = q[k] => i = k
      BY DEF UDPInv, Owed
    <3>. HIDE DEF q, N
    <3>. QED  BY <1>4, <1>8, <1>11, <3>1
  <2>2. \A i \in 1..Len(nq), k \in 1..M : nq[i] # usWrites.batch[k]
    <3>1. \A i \in 1..N, k \in 1..M : q[i] # usWrites.batch[k]
      BY DEF UDPInv, Owed
    <3>. HIDE DEF q, N, M
    <3>. QED  BY <1>4, <1>8, <1>12, <3>1
  <2>3. \A v \in UDPWorkers : usRes'[v] # "none" => ~InQ(v)' /\ ~InBatch(v)'
    BY <1>1, <1>10, <1>13 DEF UDPInv, Owed
  <2>4. \A v \in UDPWorkers : usWork'[v].pc = "waiting" <=> InQ(v)' \/ InBatch(v)' \/ usRes'[v] # "none"
    BY <1>1, <1>2, <1>13 DEF UDPInv, Owed
  <2>. QED  BY <1>5, <2>1, <2>2, <2>3, <2>4 DEF Owed
<1>15. Winding'
  <2>1. ~usWrites.closed /\ ~usWrites.exited
    BY <1>1 DEF UDPInv, Winding
  <2>. QED  BY <1>1, <1>2, <1>5, <2>1 DEF UDPInv, Winding
<1>. QED  BY <1>2, <1>7, <1>14, <1>15 DEF UDPInv

(* The writer moves the head of its queue into its batch.                  *)
LEMMA UDPCollects == UDPInv /\ WriterCollect => UDPInv'
<1>. SUFFICES ASSUME UDPInv, WriterCollect PROVE UDPInv'
  OBVIOUS
<1>. DEFINE q == usWrites.q
            N == Len(q)
            n == IF N < UDPBatch THEN N ELSE UDPBatch
            b == SubSeq(q, 1, n)
            r == SubSeq(q, n + 1, N)
<1>1. /\ usWrites.batch = <<>> /\ q # <<>> /\ UNCHANGED <<usReader, usJobs, usWork, usRes, usPool, usStats, usLife>>
      /\ usWrites' = [usWrites EXCEPT !.batch = b, !.q = r]
  BY Zenon DEF WriterCollect
<1>2. q \in Seq(UDPWorkers) /\ N \in Nat \ {0} /\ UDPBatch \in Nat \ {0} /\ usWrites \in UDPWrites /\ N <= UDPQueue
      /\ UDPQueue \in Nat
  <2>1. q \in Seq(UDPWorkers) /\ usWrites \in UDPWrites /\ N <= UDPQueue
    BY DEF UDPInv, UDPTypes, UDPWrites
  <2>2. N \in Nat \ {0}
    BY <1>1, <2>1, EmptySeq, LenProperties
  <2>. QED  BY <2>1, <2>2, UDPConst
<1>3. n \in 1..N
  BY <1>2
<1>. HIDE DEF n
<1>4. b \in Seq(UDPWorkers) /\ Len(b) = n /\ \A i \in 1..n : b[i] = q[i]
  <2>. HIDE DEF q, N
  <2>1. q \in Seq(UDPWorkers) /\ 1 \in Int /\ n \in Int
    BY <1>2, <1>3
  <2>2. \A i \in 1..n : i \in 1..Len(q)
    BY <1>2, <1>3 DEF N
  <2>. QED  BY <1>2, <1>3, <2>1, <2>2 DEF N
<1>5. r \in Seq(UDPWorkers) /\ Len(r) = N - n /\ \A i \in 1..(N - n) : r[i] = q[n + i]
  <2>. HIDE DEF q, N
  <2>. QED  BY <1>2, <1>3 DEF N
<1>. HIDE DEF b, r
<1>6. /\ usWrites' \in UDPWrites /\ usWrites'.q = r /\ usWrites'.batch = b /\ usWrites'.closed = usWrites.closed
      /\ usWrites'.exited = usWrites.exited
  <2>. DEFINE h == [usWrites EXCEPT !.batch = b]
  <2>1. h \in UDPWrites /\ h.batch = b /\ h.closed = usWrites.closed /\ h.exited = usWrites.exited
    BY <1>2, <1>4 DEF UDPWrites
  <2>2. usWrites' = [h EXCEPT !.q = r]
    BY <1>1
  <2>. HIDE DEF h
  <2>. QED  BY <1>5, <2>1, <2>2 DEF UDPWrites
<1>7. (Held /\ SlotsApart /\ JobsApart /\ WorkApart)'
  BY <1>1, BuffersStay
<1>8. UDPTypes'
  <2>1. Len(r) <= UDPQueue
    <3>. HIDE DEF N
    <3>. QED  BY <1>2, <1>3, <1>5
  <2>. QED  BY <1>1, <1>6, <2>1 DEF UDPInv, UDPTypes
<1>9. \A v : ~InBatch(v)
  BY <1>1 DEF InBatch
<1>10. ASSUME NEW v \in UDPWorkers PROVE InQ(v) <=> InQ(v)' \/ InBatch(v)'
  <2>1. (\E i \in 1..N : q[i] = v) <=> (\E i \in 1..Len(r) : r[i] = v) \/ (\E i \in 1..Len(b) : b[i] = v)
    <3>. HIDE DEF q, N
    <3>1. \A i \in 1..N : i \in 1..n \/ (i - n \in 1..(N - n) /\ n + (i - n) = i)
      BY <1>2, <1>3
    <3>2. \A i \in 1..n : i \in 1..N
      BY <1>2, <1>3
    <3>3. \A i \in 1..(N - n) : n + i \in 1..N
      BY <1>2, <1>3
    <3>4. ASSUME NEW i \in 1..N, q[i] = v PROVE (\E k \in 1..Len(r) : r[k] = v) \/ (\E k \in 1..Len(b) : b[k] = v)
      <4>1. CASE i \in 1..n
        BY <1>4, <3>4, <4>1
      <4>2. CASE i - n \in 1..(N - n) /\ n + (i - n) = i
        <5>1. r[i - n] = v
          BY <1>5, <3>4, <4>2
        <5>. QED  BY <1>5, <4>2, <5>1
      <4>. QED  BY <3>1, <4>1, <4>2
    <3>5. ASSUME NEW i \in 1..Len(r), r[i] = v PROVE \E k \in 1..N : q[k] = v
      BY <1>5, <3>3, <3>5
    <3>6. ASSUME NEW i \in 1..Len(b), b[i] = v PROVE \E k \in 1..N : q[k] = v
      BY <1>4, <3>2, <3>6
    <3>. QED  BY <3>4, <3>5, <3>6
  <2>. QED  BY <1>6, <2>1 DEF InQ, InBatch
<1>11. Owed'
  <2>0. \A i, k \in 1..N : q[i] = q[k] => i = k
    BY DEF UDPInv, Owed
  <2>1. \A i, k \in 1..Len(r) : r[i] = r[k] => i = k
    <3>. HIDE DEF q, N
    <3>1. \A i \in 1..(N - n) : n + i \in 1..N
      BY <1>2, <1>3
    <3>. SUFFICES ASSUME NEW i \in 1..Len(r), NEW k \in 1..Len(r), r[i] = r[k] PROVE i = k
      OBVIOUS
    <3>2. i \in 1..(N - n) /\ k \in 1..(N - n) /\ q[n + i] = q[n + k]
      BY <1>5
    <3>3. n + i = n + k
      BY <2>0, <3>1, <3>2
    <3>. QED  BY <1>2, <1>3, <3>2, <3>3
  <2>2. \A i \in 1..Len(r), k \in 1..Len(b) : r[i] # b[k]
    <3>. HIDE DEF q, N
    <3>. SUFFICES ASSUME NEW i \in 1..Len(r), NEW k \in 1..Len(b), r[i] = b[k] PROVE FALSE
      OBVIOUS
    <3>1. i \in 1..(N - n) /\ k \in 1..n /\ q[n + i] = q[k]
      BY <1>4, <1>5
    <3>2. n + i \in 1..N /\ k \in 1..N /\ n + i # k
      BY <1>2, <1>3, <3>1
    <3>. QED  BY <2>0, <3>1, <3>2
  <2>3. \A v \in UDPWorkers : usRes'[v] # "none" => ~InQ(v)' /\ ~InBatch(v)'
    BY <1>1, <1>10 DEF UDPInv, Owed
  <2>4. \A v \in UDPWorkers : usWork'[v].pc = "waiting" <=> InQ(v)' \/ InBatch(v)' \/ usRes'[v] # "none"
    BY <1>1, <1>9, <1>10 DEF UDPInv, Owed
  <2>. QED  BY <1>6, <2>1, <2>2, <2>3, <2>4 DEF Owed
<1>12. Winding'
  <2>1. ~usWrites.exited
    BY <1>1 DEF UDPInv, Winding
  <2>. QED  BY <1>1, <1>6, <2>1 DEF UDPInv, Winding
<1>13. DatagramsAccounted'
  BY <1>1 DEF UDPInv, DatagramsAccounted, UDPBusy
<1>. QED  BY <1>7, <1>8, <1>11, <1>12, <1>13 DEF UDPInv

(* A send gives every request of the batch its result.                     *)
LEMMA UDPSends == UDPInv /\ WriterSend => UDPInv'
<1>. SUFFICES ASSUME UDPInv, WriterSend PROVE UDPInv'
  OBVIOUS
<1>. DEFINE b == usWrites.batch
            e == <<>>
            result(i) == IF SendFailsOutright(b) \/ i \in SendStops(b) THEN "error" ELSE "ok"
            out(w) == result(CHOOSE i \in DOMAIN b : b[i] = w)
<1>1. /\ b # e /\ UNCHANGED <<usReader, usJobs, usWork, usPool, usStats, usLife>>
      /\ usWrites' = [usWrites EXCEPT !.batch = e]
      /\ usRes' = [w \in UDPWorkers |-> IF \E i \in DOMAIN b : b[i] = w THEN out(w) ELSE usRes[w]]
  BY Zenon DEF WriterSend
<1>2. \A w : out(w) \in {"ok", "error"}
  OBVIOUS
<1>3. b \in Seq(UDPWorkers) /\ DOMAIN b = 1..Len(b) /\ e \in Seq(UDPWorkers) /\ Len(e) = 0 /\ usWrites \in UDPWrites
  BY DEF UDPInv, UDPTypes, UDPWrites
<1>4. \A w \in UDPWorkers : usRes'[w] = IF InBatch(w) THEN out(w) ELSE usRes[w]
  BY <1>1, <1>3 DEF InBatch
<1>. HIDE DEF out, result, e
<1>5. /\ usWrites' \in UDPWrites /\ usWrites'.q = usWrites.q /\ usWrites'.batch = e /\ usWrites'.closed = usWrites.closed
      /\ usWrites'.exited = usWrites.exited
  BY <1>1, <1>3 DEF UDPWrites
<1>6. usRes' \in [UDPWorkers -> {"none", "ok", "error"}]
  <2>1. \A w \in UDPWorkers : (IF \E i \in DOMAIN b : b[i] = w THEN out(w) ELSE usRes[w]) \in {"none", "ok", "error"}
    BY <1>2 DEF UDPInv, UDPTypes
  <2>. QED  BY <1>1, <2>1
<1>7. (Held /\ SlotsApart /\ JobsApart /\ WorkApart)'
  BY <1>1, BuffersStay
<1>8. UDPTypes'
  BY <1>1, <1>5, <1>6 DEF UDPInv, UDPTypes
<1>9. \A w \in UDPWorkers : ~InBatch(w)' /\ (InQ(w)' <=> InQ(w)) /\ ~(InQ(w) /\ InBatch(w))
  <2>1. \A w \in UDPWorkers : ~InBatch(w)'
    BY <1>3, <1>5 DEF InBatch
  <2>2. \A w \in UDPWorkers : InQ(w)' <=> InQ(w)
    BY <1>5 DEF InQ
  <2>3. \A w \in UDPWorkers : ~(InQ(w) /\ InBatch(w))
    BY DEF UDPInv, Owed, InQ, InBatch
  <2>. QED  BY <2>1, <2>2, <2>3
<1>10. Owed'
  <2>1. \A i, k \in 1..Len(usWrites.q) : usWrites.q[i] = usWrites.q[k] => i = k
    BY DEF UDPInv, Owed
  <2>2. \A w \in UDPWorkers : usRes'[w] # "none" => ~InQ(w)' /\ ~InBatch(w)'
    BY <1>4, <1>9 DEF UDPInv, Owed
  <2>3. \A w \in UDPWorkers : usRes'[w] # "none" <=> InBatch(w) \/ usRes[w] # "none"
    BY <1>2, <1>4
  <2>4. \A w \in UDPWorkers : usWork'[w].pc = "waiting" <=> InQ(w)' \/ InBatch(w)' \/ usRes'[w] # "none"
    BY <1>1, <1>9, <2>3 DEF UDPInv, Owed
  <2>5. \A i \in 1..Len(usWrites.q), k \in 1..Len(e) : usWrites.q[i] # e[k]
    BY <1>3
  <2>. QED  BY <1>5, <2>1, <2>2, <2>4, <2>5 DEF Owed
<1>11. Winding'
  <2>1. usWrites.exited => b = e
    BY DEF UDPInv, Winding, e
  <2>2. ~usWrites.exited
    BY <1>1, <2>1
  <2>. QED  BY <1>1, <1>5, <2>2 DEF UDPInv, Winding
<1>12. DatagramsAccounted'
  BY <1>1 DEF UDPInv, DatagramsAccounted, UDPBusy
<1>. QED  BY <1>7, <1>8, <1>10, <1>11, <1>12 DEF UDPInv

(* The writer and Serve leave one after the other.                         *)
LEMMA UDPWindsDown == UDPInv /\ (WriterExit \/ ServeStep) => UDPInv'
<1>. SUFFICES ASSUME UDPInv, WriterExit \/ ServeStep PROVE UDPInv'
  OBVIOUS
<1>1. UNCHANGED <<usReader, usJobs, usWork, usRes, usPool, usStats>>
  BY DEF WriterExit, ServeStep, ServeClosesWrites, ServeFinishes, ServeClosesSocket
<1>2. (Held /\ SlotsApart /\ JobsApart /\ WorkApart)'
  BY <1>1, BuffersStay
<1>3. DatagramsAccounted'
  BY <1>1 DEF UDPInv, DatagramsAccounted, UDPBusy
<1>4. usWrites' \in UDPWrites /\ usWrites'.q = usWrites.q /\ usWrites'.batch = usWrites.batch /\ usLife' \in UDPLife
  BY DEF WriterExit, ServeStep, ServeClosesWrites, ServeFinishes, ServeClosesSocket, UDPInv, UDPTypes, UDPWrites, UDPLife
<1>5. UDPTypes'
  BY <1>1, <1>4 DEF UDPInv, UDPTypes
<1>6. Owed'
  BY <1>1, <1>4 DEF UDPInv, Owed, InQ, InBatch
<1>7. Winding'
  <2>1. CASE WriterExit
    <3>1. usWrites'.exited /\ usWrites'.closed /\ usWrites.closed /\ usWrites.q = <<>> /\ usWrites.batch = <<>> /\ usLife' = usLife
      BY <2>1 DEF WriterExit, UDPInv, UDPTypes, UDPWrites
    <3>. QED  BY <1>1, <1>4, <3>1 DEF UDPInv, Winding
  <2>2. CASE ServeClosesWrites
    <3>1. usWrites'.exited = usWrites.exited /\ usWrites'.closed /\ usLife' = usLife /\ \A w \in UDPWorkers : usWork[w].pc = "exited"
      BY <2>2 DEF ServeClosesWrites, UDPInv, UDPTypes, UDPWrites
    <3>. QED  BY <1>1, <1>4, <3>1 DEF UDPInv, Winding
  <2>3. CASE ServeFinishes
    <3>1. usWrites' = usWrites /\ usWrites.exited /\ usLife'.finished /\ usLife'.socket = usLife.socket
          /\ usLife'.shutdown = usLife.shutdown
      BY <2>3 DEF ServeFinishes, UDPInv, UDPTypes, UDPLife
    <3>. QED  BY <1>1, <3>1 DEF UDPInv, Winding
  <2>4. CASE ServeClosesSocket
    <3>1. usWrites' = usWrites /\ usLife.finished /\ usLife'.finished
      BY <2>4 DEF ServeClosesSocket, UDPInv, UDPTypes, UDPLife
    <3>. QED  BY <1>1, <3>1 DEF UDPInv, Winding
  <2>. QED  BY <2>1, <2>2, <2>3, <2>4 DEF ServeStep
<1>. QED  BY <1>2, <1>3, <1>5, <1>6, <1>7 DEF UDPInv

(* Shutdown sets its flag, and returns drained or timed out.               *)
LEMMA UDPShuts == UDPInv /\ (ShutdownBegins \/ ShutdownReturns) => UDPInv'
<1>. SUFFICES ASSUME UDPInv, ShutdownBegins \/ ShutdownReturns PROVE UDPInv'
  OBVIOUS
<1>1. UNCHANGED <<usReader, usJobs, usWork, usRes, usWrites, usPool, usStats>>
  BY DEF ShutdownBegins, ShutdownReturns
<1>2. (Held /\ SlotsApart /\ JobsApart /\ WorkApart)'
  BY <1>1, BuffersStay
<1>3. DatagramsAccounted'
  BY <1>1 DEF UDPInv, DatagramsAccounted, UDPBusy
<1>4. usLife' \in UDPLife /\ usLife'.finished = usLife.finished
  BY DEF ShutdownBegins, ShutdownReturns, UDPInv, UDPTypes, UDPLife
<1>5. usLife'.shutdown = "timedout" \/ (usLife'.socket = usLife.socket /\ (usLife.shutdown = "timedout" => FALSE))
  BY DEF ShutdownBegins, ShutdownReturns, UDPInv, UDPTypes, UDPLife
<1>6. UDPTypes'
  BY <1>1, <1>4 DEF UDPInv, UDPTypes
<1>7. Owed'
  BY <1>1 DEF UDPInv, Owed, InQ, InBatch
<1>8. Winding'
  BY <1>1, <1>4, <1>5 DEF UDPInv, Winding
<1>. QED  BY <1>2, <1>3, <1>6, <1>7, <1>8 DEF UDPInv

\* Every step keeps the invariant.
LEMMA UDPStep == UDPInv /\ [UDPNext]_UDPVars => UDPInv'
<1>. SUFFICES ASSUME UDPInv, [UDPNext]_UDPVars PROVE UDPInv'
  OBVIOUS
<1>1. CASE \E kinds \in UNION {[1..n -> UDPKinds] : n \in UDPSlots} : ReadBatch(kinds)
  BY <1>1, UDPReads
<1>2. CASE ReadFails
  BY <1>2, UDPReadFails
<1>3. CASE DispatchOne
  BY <1>3, UDPQueues, UDPDrops
<1>4. ASSUME NEW w \in UDPWorkers, WorkerStep(w) PROVE UDPInv'
  BY <1>4, UDPTakesGarbled, UDPTakesQuery, UDPNoReply, UDPWritesOne, UDPResult, UDPExits DEF WorkerStep
<1>5. CASE WriterStep
  BY <1>5, UDPCollects, UDPSends, UDPWindsDown DEF WriterStep
<1>6. CASE ServeStep
  BY <1>6, UDPWindsDown
<1>7. CASE ShutdownBegins \/ ShutdownReturns
  BY <1>7, UDPShuts
<1>8. CASE UNCHANGED UDPVars
  <2>1. UNCHANGED <<usReader, usJobs, usWork, usRes, usWrites, usPool, usStats, usLife>>
    BY <1>8 DEF UDPVars
  <2>2. (Held /\ SlotsApart /\ JobsApart /\ WorkApart)'
    BY <2>1, BuffersStay
  <2>3. (UDPTypes /\ Owed /\ Winding)'
    BY <2>1 DEF UDPInv, UDPTypes, Owed, InQ, InBatch, Winding
  <2>4. DatagramsAccounted'
    BY <2>1 DEF UDPInv, DatagramsAccounted, UDPBusy
  <2>. QED  BY <2>2, <2>3, <2>4 DEF UDPInv
<1>. QED  BY <1>1, <1>2, <1>3, <1>4, <1>5, <1>6, <1>7, <1>8 DEF UDPNext

(* The buffers are numbered within the bound of the type.                  *)
LEMMA UDPTyped == UDPInv => UDPTypeOK
<1>. SUFFICES ASSUME UDPInv PROVE UDPTypeOK
  OBVIOUS
<1>. DEFINE M == UDPBatch + UDPQueue + Cardinality(UDPWorkers)
<1>1. M \in Nat /\ UDPBuffers = 1..(M + 1) /\ usPool.made <= M /\ usPool.made \in Nat
  BY UDPConst DEF UDPBuffers, UDPInv, UDPTypes, UDPPool, Held
<1>. HIDE DEF M
<1>2. \A b \in Buf : b <= usPool.made => b \in UDPBuffers
  BY <1>1 DEF Buf
<1>3. usReader.buf \in [UDPSlots -> UDPBuffers] /\ usReader.pc \in {"read", "dispatch", "done"}
      /\ usReader.batch \in Seq([slot : UDPSlots, kind : UDPKinds])
  BY <1>2 DEF UDPInv, UDPTypes, UDPReaders, Held
<1>4. usJobs.q \in Seq([kind : UDPKinds \ {"short"}, buf : UDPBuffers])
  <2>1. usJobs.q \in Seq(UDPJob)
    BY DEF UDPInv, UDPTypes, UDPJobs
  <2>2. \A j \in 1..Len(usJobs.q) : usJobs.q[j] \in UDPJob
    BY <2>1
  <2>3. ASSUME NEW j \in 1..Len(usJobs.q) PROVE usJobs.q[j] \in [kind : UDPKinds \ {"short"}, buf : UDPBuffers]
    <3>. DEFINE h == usJobs.q[j]
    <3>1. h \in UDPJob /\ h.buf <= usPool.made
      BY <2>2 DEF UDPInv, Held
    <3>. HIDE DEF h
    <3>2. h.buf \in UDPBuffers
      BY <1>2, <3>1 DEF UDPJob
    <3>3. h \in [kind : UDPKinds \ {"short"}, buf : UDPBuffers]
      BY <3>1, <3>2 DEF UDPJob
    <3>. QED  BY <3>3 DEF h
  <2>. DEFINE q == usJobs.q
              S == [kind : UDPKinds \ {"short"}, buf : UDPBuffers]
  <2>4. q \in Seq(UDPJob) /\ \A j \in 1..Len(q) : q[j] \in S
    BY <2>1, <2>3
  <2>. HIDE DEF q, S
  <2>5. Len(q) \in Nat /\ q \in [1..Len(q) -> S]
    BY <2>4
  <2>6. q \in Seq(S)
    BY <2>5
  <2>. QED  BY <2>6 DEF q, S
<1>5. usWork \in [UDPWorkers -> [pc : {"idle", "handling", "waiting", "exited"}, kind : UDPKinds, buf : UDPBuffers \cup {NoBuf}]]
  <2>1. ASSUME NEW w \in UDPWorkers
        PROVE usWork[w] \in [pc : {"idle", "handling", "waiting", "exited"}, kind : UDPKinds, buf : UDPBuffers \cup {NoBuf}]
    <3>. DEFINE h == usWork[w]
    <3>1. h \in UDPWorker /\ h.buf <= usPool.made
      BY DEF UDPInv, UDPTypes, Held
    <3>. HIDE DEF h
    <3>2. h.buf \in UDPBuffers \cup {NoBuf}
      BY <1>2, <3>1 DEF UDPWorker, Buf, NoBuf
    <3>3. h \in [pc : {"idle", "handling", "waiting", "exited"}, kind : UDPKinds, buf : UDPBuffers \cup {NoBuf}]
      BY <3>1, <3>2 DEF UDPWorker
    <3>. QED  BY <3>3 DEF h
  <2>2. usWork \in [UDPWorkers -> UDPWorker]
    BY DEF UDPInv, UDPTypes
  <2>. QED  BY <2>1, <2>2
<1>6. usPool.free \subseteq UDPBuffers
  BY <1>2 DEF UDPInv, UDPTypes, UDPPool, Held
<1>7. usJobs.closed \in BOOLEAN /\ usWrites.q \in Seq(UDPWorkers) /\ usWrites.batch \in Seq(UDPWorkers)
      /\ Len(usJobs.q) <= UDPQueue /\ Len(usWrites.q) <= UDPQueue
  BY DEF UDPInv, UDPTypes, UDPJobs, UDPWrites
<1>8. usRes \in [UDPWorkers -> {"none", "ok", "error"}] /\ usStats \in UDPStats /\ usLife \in UDPLife
  BY DEF UDPInv, UDPTypes
<1>. QED  BY <1>1, <1>3, <1>4, <1>5, <1>6, <1>7, <1>8 DEF UDPTypeOK, UDPStats, UDPLife

(* The four kinds of owner are apart, so no buffer has two.                *)
LEMMA OneOwner == UDPInv => BufferExclusive
<1>. SUFFICES ASSUME UDPInv PROVE BufferExclusive
  OBVIOUS
<1>. DEFINE slots == IF usReader.pc = "done" THEN {} ELSE UDPSlots
            A == {<<"slot", i, usReader.buf[i]>> : i \in slots}
            J == {<<"job", j, usJobs.q[j].buf>> : j \in DOMAIN usJobs.q}
            W == {<<"worker", w, usWork[w].buf>> : w \in UDPBusy}
            P == {<<"pool", 0, b>> : b \in usPool.free}
<1>0. DOMAIN usJobs.q = 1..Len(usJobs.q)
  BY DEF UDPInv, UDPTypes, UDPJobs
<1>1. SlotsApart /\ JobsApart /\ WorkApart
  BY DEF UDPInv
<1>2. ASSUME NEW x \in A, NEW y \in A, x[3] = y[3] PROVE x = y
  BY <1>1, <1>2 DEF SlotsApart
<1>3. ASSUME NEW x \in A, NEW y \in J PROVE x[3] # y[3]
  BY <1>0, <1>1 DEF SlotsApart
<1>4. ASSUME NEW x \in A, NEW y \in W PROVE x[3] # y[3]
  BY <1>1 DEF SlotsApart
<1>5. ASSUME NEW x \in A, NEW y \in P PROVE x[3] # y[3]
  BY <1>1 DEF SlotsApart
<1>6. ASSUME NEW x \in J, NEW y \in J, x[3] = y[3] PROVE x = y
  BY <1>0, <1>1, <1>6 DEF JobsApart
<1>7. ASSUME NEW x \in J, NEW y \in W PROVE x[3] # y[3]
  BY <1>0, <1>1 DEF JobsApart
<1>8. ASSUME NEW x \in J, NEW y \in P PROVE x[3] # y[3]
  BY <1>0, <1>1 DEF JobsApart
<1>9. ASSUME NEW x \in W, NEW y \in W, x[3] = y[3] PROVE x = y
  BY <1>1, <1>9 DEF WorkApart
<1>10. ASSUME NEW x \in W, NEW y \in P PROVE x[3] # y[3]
  BY <1>1 DEF WorkApart
<1>11. ASSUME NEW x \in P, NEW y \in P, x[3] = y[3] PROVE x = y
  BY <1>11
<1>12. BufferExclusive <=> \A x, y \in ((A \cup J) \cup W) \cup P : x[3] = y[3] => x = y
  BY Zenon DEF BufferExclusive
<1>. HIDE DEF A, J, W, P
<1>13. \A x, y \in ((A \cup J) \cup W) \cup P : x[3] = y[3] => x = y
  BY <1>2, <1>3, <1>4, <1>5, <1>6, <1>7, <1>8, <1>9, <1>10, <1>11
<1>. QED  BY <1>12, <1>13

\* The invariant gives what the component promises.
LEMMA UDPImplies == UDPInv => UDPSound
<1>. SUFFICES ASSUME UDPInv PROVE UDPSound
  OBVIOUS
<1>1. WaitersServed
  <2>1. DOMAIN usWrites.q = 1..Len(usWrites.q) /\ DOMAIN usWrites.batch = 1..Len(usWrites.batch)
    BY DEF UDPInv, UDPTypes, UDPWrites
  <2>. QED  BY <2>1 DEF UDPInv, Owed, InQ, InBatch, WaitersServed
<1>2. DrainBeforeClose
  <2>1. usLife.finished => usJobs.q = <<>>
    <3>1. PICK w : w \in UDPWorkers
      BY UDPConst
    <3>. QED  BY <3>1 DEF UDPInv, Winding
  <2>. QED  BY <2>1 DEF UDPInv, Winding, DrainBeforeClose
<1>. QED  BY <1>1, <1>2, UDPTyped, OneOwner DEF UDPSound, UDPInv

\* For any number of workers and any sizes of batch and queue: every datagram
\* is accounted for, every buffer has one owner, no worker waits for a result
\* nobody owes it, and winding down closes nothing still in use (Serve,
\* dispatch, handle, write loop).
THEOREM UDPHolds == UDPSpec => []UDPSound
<1>1. UDPInit => UDPInv
  BY UDPInitial
<1>2. UDPInv /\ [UDPNext]_UDPVars => UDPInv'
  BY UDPStep
<1>3. UDPInv => UDPSound
  BY UDPImplies
<1>. QED  BY <1>1, <1>2, <1>3, PTL DEF UDPSpec

-----------------------------------------------------------------------------
(* Listeners. What a Restart has done so far (StageOK) is known only while *)
(* no two have met; the generations (Places, WebAged, WebFresh, WebGoes)   *)
(* are known always, and keep an old web server from being taken for the   *)
(* current one.                                                            *)

LSGens == 0..LSRestarts
LSock == [p : Protos, g : LSGens]
LSOps == [st : {"idle", "stop", "clear", "bind", "register", "doh"}, i : 0..(Len(LSProtos) + 1), g : LSGens,
          snap : SUBSET LSock]
WebJob == [old : LSGens, new : LSGens, st : {"stop", "start"}]
LSWebs == [cur : LSGens, open : SUBSET LSGens, shut : SUBSET LSGens, jobs : SUBSET WebJob, failed : BOOLEAN]
LSHists == [restarts : LSGens, last : [g : LSGens, ok : BOOLEAN], reported : SUBSET LSock, raced : BOOLEAN,
            webCrossed : BOOLEAN]

LSTypes ==
  /\ lsOpen \in SUBSET LSock /\ lsReg \in SUBSET LSock /\ lsServers \in SUBSET LSock /\ lsServing \in SUBSET LSock
  /\ lsHTTP \in LSock \cup {NoSock} /\ lsShut \in SUBSET (LSock \cup {NoSock})
  /\ lsOp \in [LSCallers -> LSOps]
  /\ lsRes \in 0..LSResults
  /\ lsWeb \in LSWebs
  /\ lsHist \in LSHists

(* A caller's place in Start, and the generation it was given.             *)
PlaceOK(o, n) ==
  /\ o.st = "idle" <=> o = IdleOp
  /\ o.st \in {"bind", "register", "doh"} => o.i # 0
  /\ o.st \in {"register", "doh"} => o.i <= Len(LSProtos)
  /\ o.st = "register" => LSProtos[o.i] # "doh"
  /\ o.st = "doh" => LSProtos[o.i] = "doh"
  /\ o.st # "idle" => o.g # 0 /\ o.g <= n
Active(c) == lsOp[c].st # "idle"
Places ==
  /\ \A c \in LSCallers : PlaceOK(lsOp[c], lsHist.restarts)
  /\ \A c, d \in LSCallers : Active(c) /\ Active(d) /\ lsOp[c].g = lsOp[d].g => c = d

(* The web server's generations: none is ahead of the restarts, none is    *)
(* that of a Restart still running, and each is the current one or has a   *)
(* job that stops it or did.                                               *)
WebAged ==
  /\ lsWeb.cur <= lsHist.restarts
  /\ \A g \in lsWeb.open \cup lsWeb.shut : g <= lsHist.restarts
  /\ \A j \in lsWeb.jobs : j.old <= lsHist.restarts /\ j.new <= lsHist.restarts
WebFresh ==
  \A c \in LSCallers : Active(c) =>
    /\ lsOp[c].g # lsWeb.cur /\ lsOp[c].g \notin lsWeb.open \cup lsWeb.shut
    /\ \A j \in lsWeb.jobs : lsOp[c].g # j.old /\ lsOp[c].g # j.new
Closing(g) == \E j \in lsWeb.jobs : j.old = g /\ j.st = "stop"
WebGoes ==
  /\ \A g \in lsWeb.open : g = lsWeb.cur \/ Closing(g)
  /\ \A j \in lsWeb.jobs : j.new = lsWeb.cur \/ j.new \in lsWeb.shut \/ Closing(j.new)
WebOne ==
  ~lsHist.webCrossed =>
    \/ lsWeb.jobs = {} /\ lsWeb.open = IF lsWeb.failed THEN {} ELSE {lsWeb.cur}
    \/ \E j \in lsWeb.jobs :
         /\ lsWeb.jobs = {j} /\ j.new = lsWeb.cur /\ j.old # j.new /\ j.new \notin lsWeb.shut
         /\ j.st = "stop" => lsWeb.open \subseteq {j.old}
         /\ j.st = "start" => lsWeb.open = {}

(* The sockets, while no two restarts have met.                            *)
Tracked == lsReg \cup lsServers \cup {lsHTTP}
HTTPAged == lsHTTP.g <= lsHist.restarts /\ \A s \in lsShut : s.g <= lsHist.restarts
Up(p, g) == Sock(p, g) \in lsOpen \/ (p \in SoftProtos /\ Sock(p, g) \in lsHist.reported)
UpTo(i, g) == \A k \in 1..Len(LSProtos) : k < i => Up(LSProtos[k], g)
OnlyOf(g) == \A s \in lsOpen : s.g = g
StageOK(o) ==
  /\ o.st = "stop" => lsOpen \subseteq Tracked /\ lsHTTP.g < o.g
  /\ o.st = "clear" => lsOpen = {}
  /\ o.st \in {"bind", "register", "doh"} => OnlyOf(o.g) /\ UpTo(o.i, o.g) /\ lsHTTP \in {NoSock, Sock("doh", o.g)}
  /\ o.st \in {"bind", "doh"} => lsOpen \subseteq Tracked
  /\ o.st = "register" => /\ lsOpen \subseteq Tracked \cup {Sock(LSProtos[o.i], o.g)}
                          /\ Sock(LSProtos[o.i], o.g) \in lsOpen /\ o.snap = lsServers
  /\ o.st = "doh" => lsHTTP = Sock("doh", o.g)
  /\ o.st # "idle" => \A s \in lsShut : s.g < o.g
AtRest ==
  /\ lsOpen \subseteq Tracked
  /\ lsHist.last.ok => UpTo(Len(LSProtos) + 1, lsHist.last.g) /\ OnlyOf(lsHist.last.g)
Resting == \A c \in LSCallers : ~Active(c)
Stages ==
  ~lsHist.raced =>
    /\ \A c, d \in LSCallers : Active(c) /\ Active(d) => c = d
    /\ \A c \in LSCallers : StageOK(lsOp[c])
    /\ Resting => AtRest

LSInv == LSTypes /\ Places /\ WebAged /\ WebFresh /\ WebGoes /\ WebOne /\ HTTPAged /\ Stages

\* What protocols, sockets and the idle caller are.
LEMMA LSConst ==
  /\ LSRestarts \in Nat /\ LSResults \in Nat \ {0} /\ Len(LSProtos) \in Nat
  /\ \A i \in 1..Len(LSProtos) : LSProtos[i] \in Protos
  /\ \A p \in Protos : \E i \in 1..Len(LSProtos) : p = LSProtos[i]
  /\ "none" \notin Protos /\ NoSock \notin LSock /\ NoSock.g = 0
  /\ \A p, g : p \in Protos /\ g \in LSGens => Sock(p, g) \in LSock
  /\ \A p, g : Sock(p, g).p = p /\ Sock(p, g).g = g
  /\ IdleOp \in LSOps /\ IdleOp.st = "idle" /\ 0 \in LSGens
<1>1. LSProtos \in Seq({"udp", "tcp", "dot", "doh", "doh3", "doq"}) /\ LSRestarts \in Nat /\ LSResults \in Nat \ {0}
  BY LSAssumption
<1>2. Len(LSProtos) \in Nat /\ \A i \in 1..Len(LSProtos) : LSProtos[i] \in {"udp", "tcp", "dot", "doh", "doh3", "doq"}
  BY <1>1
<1>3. "none" \notin Protos
  BY <1>2 DEF Protos
<1>4. NoSock \notin LSock /\ NoSock.g = 0
  BY <1>3 DEF NoSock, LSock
<1>5. /\ \A i \in 1..Len(LSProtos) : LSProtos[i] \in Protos
      /\ \A p \in Protos : \E i \in 1..Len(LSProtos) : p = LSProtos[i]
  BY DEF Protos
<1>6. \A p, g : p \in Protos /\ g \in LSGens => Sock(p, g) \in LSock
  BY DEF Sock, LSock
<1>7. \A p, g : Sock(p, g).p = p /\ Sock(p, g).g = g
  BY DEF Sock
<1>8. 0 \in LSGens /\ 0 \in 0..(Len(LSProtos) + 1)
  BY <1>1, <1>2 DEF LSGens
<1>9. IdleOp \in LSOps /\ IdleOp.st = "idle"
  BY <1>8 DEF IdleOp, LSOps
<1>. QED  BY <1>1, <1>2, <1>3, <1>4, <1>5, <1>6, <1>7, <1>8, <1>9

\* The invariant holds in the initial states.
LEMMA LSInitial == LSInit => LSInv
<1>. SUFFICES ASSUME LSInit PROVE LSInv
  OBVIOUS
<1>1. \A p \in Protos : Sock(p, 0) \in LSock
  BY LSConst
<1>2. /\ lsOpen \in SUBSET LSock /\ lsReg \in SUBSET LSock /\ lsServers \in SUBSET LSock /\ lsServing \in SUBSET LSock
      /\ lsHTTP \in LSock \cup {NoSock} /\ lsShut = {} /\ lsRes \in 0..LSResults
  BY <1>1, LSConst DEF LSInit
<1>3. lsOp \in [LSCallers -> LSOps] /\ \A c \in LSCallers : lsOp[c] = IdleOp /\ lsOp[c].st = "idle"
  BY LSConst DEF LSInit
<1>4. lsWeb \in LSWebs /\ lsWeb.cur = 0 /\ lsWeb.open = {0} /\ lsWeb.shut = {} /\ lsWeb.jobs = {} /\ lsWeb.failed = FALSE
  BY LSConst DEF LSInit, LSWebs
<1>5. /\ lsHist \in LSHists /\ lsHist.restarts = 0 /\ lsHist.last.g = 0 /\ lsHist.last.ok /\ ~lsHist.raced /\ ~lsHist.webCrossed
  BY LSConst DEF LSInit, LSHists
<1>6. LSTypes
  BY <1>2, <1>3, <1>4, <1>5 DEF LSTypes
<1>7. Places
  BY <1>3 DEF Places, PlaceOK, Active
<1>8. WebAged /\ WebFresh /\ WebGoes /\ WebOne
  BY <1>3, <1>4, <1>5 DEF WebAged, WebFresh, WebGoes, WebOne, Active
<1>9. lsHTTP.g = 0
  BY LSConst DEF LSInit
<1>10. HTTPAged
  BY <1>2, <1>5, <1>9 DEF HTTPAged
<1>11. lsOpen \subseteq Tracked
  <2>1. \A p \in Protos : p \in ReusePort \/ p \in DNSServers \/ p = "doh"
    <3>1. \A i \in 1..Len(LSProtos) : LSProtos[i] \in {"udp", "tcp", "dot", "doh", "doh3", "doq"}
      BY LSAssumption
    <3>. QED  BY <3>1 DEF Protos, ReusePort, DNSServers
  <2>. QED  BY <2>1 DEF LSInit, Tracked
<1>12. AtRest
  <2>1. \A k \in 1..Len(LSProtos) : Sock(LSProtos[k], 0) \in lsOpen
    BY LSConst DEF LSInit
  <2>2. \A s \in lsOpen : s.g = 0
    BY LSConst DEF LSInit
  <2>. QED  BY <1>5, <1>11, <2>1, <2>2 DEF AtRest, UpTo, Up, OnlyOf
<1>13. Stages
  BY <1>3, <1>12 DEF Stages, StageOK, Active
<1>. QED  BY <1>6, <1>7, <1>8, <1>10, <1>13 DEF LSInv

(* A caller moves on, or ends.                                             *)
LEMMA OpMoves ==
  ASSUME LSInv, NEW c \in LSCallers, NEW n \in LSOps, lsOp' = [lsOp EXCEPT ![c] = n],
         PlaceOK(n, lsHist.restarts), lsHist'.restarts = lsHist.restarts,
         n.st # "idle" => n.g = lsOp[c].g, Active(c)
  PROVE  /\ lsOp' \in [LSCallers -> LSOps] /\ lsOp'[c] = n /\ (\A d \in LSCallers : d # c => lsOp'[d] = lsOp[d])
         /\ Places'
         /\ \A d \in LSCallers : Active(d)' => Active(d) /\ lsOp'[d].g = lsOp[d].g
<1>1. lsOp' \in [LSCallers -> LSOps] /\ lsOp'[c] = n /\ \A d \in LSCallers : d # c => lsOp'[d] = lsOp[d]
  BY DEF LSInv, LSTypes
<1>2. \A d \in LSCallers : Active(d)' => Active(d) /\ lsOp'[d].g = lsOp[d].g
  BY <1>1 DEF Active
<1>3. Places'
  BY <1>1, <1>2 DEF LSInv, Places
<1>. QED  BY <1>1, <1>2, <1>3

(* Steps the web server has no part in.                                    *)
LEMMA WebStays ==
  ASSUME LSInv, lsWeb' = lsWeb, lsHist'.restarts = lsHist.restarts, lsHist'.webCrossed = lsHist.webCrossed,
         \A d \in LSCallers : Active(d)' => Active(d) /\ lsOp'[d].g = lsOp[d].g
  PROVE  (WebAged /\ WebFresh /\ WebGoes /\ WebOne)'
<1>1. WebAged'
  BY DEF LSInv, WebAged
<1>2. WebFresh'
  BY DEF LSInv, WebFresh
<1>3. WebGoes'
  BY DEF LSInv, WebGoes, Closing
<1>4. WebOne'
  BY DEF LSInv, WebOne
<1>. QED  BY <1>1, <1>2, <1>3, <1>4

(* Without a race the caller that steps is the only one.                   *)
LEMMA StageMoves ==
  ASSUME LSInv, NEW c \in LSCallers, Active(c), \A d \in LSCallers : d # c => lsOp'[d] = lsOp[d],
         lsHist.raced => lsHist'.raced,
         ~lsHist'.raced /\ ~lsHist.raced /\ StageOK(lsOp[c]) => StageOK(lsOp[c])',
         ~lsHist'.raced /\ ~lsHist.raced /\ StageOK(lsOp[c]) /\ ~Active(c)' => AtRest'
  PROVE  Stages'
<1>. SUFFICES ASSUME ~lsHist'.raced
              PROVE  /\ \A e, d \in LSCallers : Active(e)' /\ Active(d)' => e = d
                     /\ \A d \in LSCallers : StageOK(lsOp[d])'
                     /\ Resting' => AtRest'
  BY DEF Stages
<1>1. ~lsHist.raced /\ StageOK(lsOp[c])
  BY DEF LSInv, Stages
<1>2. \A d \in LSCallers : d # c => lsOp[d].st = "idle" /\ lsOp'[d].st = "idle"
  BY <1>1 DEF LSInv, Stages, Active
<1>3. \A d \in LSCallers : d # c => StageOK(lsOp[d])'
  BY <1>2 DEF StageOK
<1>4. Resting' => AtRest'
  BY <1>1 DEF Resting
<1>. QED  BY <1>1, <1>2, <1>3, <1>4 DEF Active

(* Restart is called: the caller is given the next generation.             *)
LEMMA LSCalls == ASSUME LSInv, NEW c \in LSCallers, RestartCalled(c) PROVE LSInv'
<1>. DEFINE n == [IdleOp EXCEPT !.st = "stop", !.g = lsHist.restarts + 1]
            r == lsHist.restarts + 1
            w == lsHist.raced \/ \E o \in LSCallers : lsOp[o] # IdleOp
<1>1. /\ lsOp[c] = IdleOp /\ lsHist.restarts < LSRestarts /\ lsOp' = [lsOp EXCEPT ![c] = n]
      /\ lsHist' = [lsHist EXCEPT !.restarts = r, !.raced = w]
      /\ UNCHANGED <<lsOpen, lsReg, lsServers, lsHTTP, lsServing, lsShut, lsRes, lsDoqEnds, lsWeb>>
  BY DEF RestartCalled
<1>2. lsHist.restarts \in Nat /\ r \in LSGens /\ r # 0
  BY <1>1, LSConst DEF LSInv, LSTypes, LSHists, LSGens
<1>3. w \in BOOLEAN
  OBVIOUS
<1>. HIDE DEF w
<1>4. /\ lsHist' \in LSHists /\ lsHist'.restarts = r /\ lsHist'.raced = w /\ lsHist'.last = lsHist.last
      /\ lsHist'.reported = lsHist.reported /\ lsHist'.webCrossed = lsHist.webCrossed
  BY <1>1, <1>2, <1>3 DEF LSInv, LSTypes, LSHists
<1>5. n \in LSOps /\ n.st = "stop" /\ n.g = r
  BY <1>2, LSConst DEF LSOps, IdleOp
<1>. HIDE DEF n
<1>6. lsOp' \in [LSCallers -> LSOps] /\ lsOp'[c] = n /\ \A d \in LSCallers : d # c => lsOp'[d] = lsOp[d]
  BY <1>1, <1>5 DEF LSInv, LSTypes
<1>7. LSTypes'
  BY <1>1, <1>4, <1>6 DEF LSInv, LSTypes
<1>8. \A d \in LSCallers : Active(d) => lsOp[d].g < r /\ lsOp[d].g # r
  BY <1>2 DEF LSInv, LSTypes, LSOps, LSGens, Places, PlaceOK, Active
<1>9. Places'
  <2>1. \A d \in LSCallers : PlaceOK(lsOp[d], lsHist.restarts) => PlaceOK(lsOp[d], r)
    <3>1. \A d \in LSCallers : lsOp[d].g \in Nat
      BY LSConst DEF LSInv, LSTypes, LSOps, LSGens
    <3>. QED  BY <1>2, <3>1 DEF PlaceOK
  <2>2. PlaceOK(n, r)
    BY <1>2, <1>5 DEF PlaceOK, IdleOp
  <2>. QED  BY <1>4, <1>5, <1>6, <1>8, <2>1, <2>2 DEF LSInv, Places, Active
<1>10. WebAged' /\ WebFresh'
  <2>1. /\ lsWeb.cur \in Nat /\ \A g \in lsWeb.open \cup lsWeb.shut : g \in Nat
        /\ \A j \in lsWeb.jobs : j.old \in Nat /\ j.new \in Nat
    BY LSConst DEF LSInv, LSTypes, LSWebs, WebJob, LSGens
  <2>2. WebAged'
    BY <1>1, <1>2, <1>4, <2>1 DEF LSInv, WebAged
  <2>3. r # lsWeb.cur /\ r \notin lsWeb.open \cup lsWeb.shut /\ \A j \in lsWeb.jobs : r # j.old /\ r # j.new
    BY <1>2, <2>1 DEF LSInv, WebAged
  <2>. QED  BY <1>1, <1>5, <1>6, <2>2, <2>3 DEF LSInv, WebFresh, Active
<1>11. WebGoes' /\ WebOne'
  BY <1>1, <1>4 DEF LSInv, WebGoes, Closing, WebOne
<1>12. lsHTTP.g \in Nat /\ \A s \in lsShut : s.g \in Nat
  BY LSConst DEF LSInv, LSTypes, LSock, LSGens, NoSock
<1>13. HTTPAged'
  BY <1>1, <1>2, <1>4, <1>12 DEF LSInv, HTTPAged
<1>14. Stages'
  <2>. SUFFICES ASSUME ~lsHist'.raced
                PROVE  /\ \A e, d \in LSCallers : Active(e)' /\ Active(d)' => e = d
                       /\ \A d \in LSCallers : StageOK(lsOp[d])'
                       /\ ~Resting'
    BY DEF Stages
  <2>1. ~lsHist.raced /\ \A o \in LSCallers : lsOp[o] = IdleOp
    BY <1>4 DEF w
  <2>2. \A d \in LSCallers : lsOp[d].st = "idle"
    BY <2>1, LSConst
  <2>3. lsOpen \subseteq Tracked
    BY <2>1, <2>2 DEF LSInv, Stages, AtRest, Resting, Active
  <2>4. lsHTTP.g < r /\ \A s \in lsShut : s.g < r
    BY <1>2, <1>12 DEF LSInv, HTTPAged
  <2>5. StageOK(lsOp[c])'
    BY <1>1, <1>5, <1>6, <2>3, <2>4 DEF StageOK, Tracked
  <2>6. \A d \in LSCallers : d # c => lsOp'[d].st = "idle"
    BY <1>6, <2>2
  <2>7. \A d \in LSCallers : d # c => StageOK(lsOp[d])'
    BY <2>6 DEF StageOK
  <2>. QED  BY <1>5, <1>6, <2>5, <2>6, <2>7 DEF Active, Resting
<1>. QED  BY <1>7, <1>9, <1>10, <1>11, <1>13, <1>14 DEF LSInv

(* Shutdown closes every listener it knows, unless a server had not begun. *)
LEMMA LSStops == ASSUME LSInv, NEW c \in LSCallers, StopListeners(c) PROVE LSInv'
<1>. DEFINE n == [lsOp[c] EXCEPT !.st = "clear"]
            w == lsHist.raced \/ ~(lsServers \subseteq lsServing)
<1>1. /\ lsOp[c].st = "stop" /\ lsOpen' = lsOpen \ Stopped /\ lsShut' = lsShut \cup {lsHTTP}
      /\ lsHist' = [lsHist EXCEPT !.raced = w]
      /\ UNCHANGED <<lsReg, lsServers, lsHTTP, lsServing, lsRes, lsWeb>>
  BY DEF StopListeners
<1>2. lsOp' = [lsOp EXCEPT ![c] = n] /\ lsOp[c] \in LSOps
  BY DEF StopListeners, LSInv, LSTypes
<1>3. n \in LSOps /\ n.st = "clear" /\ n.g = lsOp[c].g /\ n.i = lsOp[c].i
  BY <1>2 DEF LSOps
<1>4. w \in BOOLEAN
  OBVIOUS
<1>. HIDE DEF w
<1>5. /\ lsHist' \in LSHists /\ lsHist'.restarts = lsHist.restarts /\ lsHist'.raced = w /\ lsHist'.last = lsHist.last
      /\ lsHist'.reported = lsHist.reported /\ lsHist'.webCrossed = lsHist.webCrossed
  BY <1>1, <1>4 DEF LSInv, LSTypes, LSHists
<1>. HIDE DEF n
<1>6. PlaceOK(lsOp[c], lsHist.restarts) /\ Active(c)
  BY <1>1 DEF LSInv, Places, Active
<1>7. PlaceOK(n, lsHist.restarts)
  BY <1>1, <1>3, <1>6 DEF PlaceOK, IdleOp
<1>8. /\ lsOp' \in [LSCallers -> LSOps] /\ lsOp'[c] = n /\ (\A d \in LSCallers : d # c => lsOp'[d] = lsOp[d])
      /\ Places'
      /\ \A d \in LSCallers : Active(d)' => Active(d) /\ lsOp'[d].g = lsOp[d].g
  BY <1>2, <1>3, <1>5, <1>6, <1>7, OpMoves
<1>9. LSTypes'
  BY <1>1, <1>5, <1>8 DEF LSInv, LSTypes
<1>10. (WebAged /\ WebFresh /\ WebGoes /\ WebOne)'
  BY <1>1, <1>5, <1>8, WebStays
<1>11. HTTPAged'
  BY <1>1, <1>5 DEF LSInv, HTTPAged
<1>12. ASSUME ~lsHist'.raced, StageOK(lsOp[c]) PROVE StageOK(lsOp[c])'
  <2>1. lsServers \subseteq lsServing
    BY <1>5, <1>12 DEF w
  <2>2. lsOpen \subseteq Tracked /\ lsHTTP.g < lsOp[c].g /\ \A s \in lsShut : s.g < lsOp[c].g
    BY <1>1, <1>12 DEF StageOK
  <2>3. lsOpen' = {}
    BY <1>1, <2>1, <2>2 DEF Stopped, Tracked
  <2>. QED  BY <1>1, <1>3, <1>8, <2>2, <2>3 DEF StageOK
<1>13. Stages'
  <2>1. lsHist.raced => lsHist'.raced
    BY <1>5 DEF w
  <2>2. Active(c)'
    BY <1>3, <1>8 DEF Active
  <2>. QED  BY <1>6, <1>8, <1>12, <2>1, <2>2, StageMoves
<1>. QED  BY <1>8, <1>9, <1>10, <1>11, <1>13 DEF LSInv

LSSocks ==
  /\ lsOpen \in SUBSET LSock /\ lsReg \in SUBSET LSock /\ lsServers \in SUBSET LSock /\ lsServing \in SUBSET LSock
  /\ lsHTTP \in LSock \cup {NoSock} /\ lsShut \in SUBSET (LSock \cup {NoSock})
  /\ lsRes \in 0..LSResults
  /\ lsHist \in LSHists

(* One step of a Restart that is under way, the web server left alone.     *)
LEMMA LSMoves ==
  ASSUME LSInv, NEW c \in LSCallers, Active(c), NEW n \in LSOps, lsOp' = [lsOp EXCEPT ![c] = n],
         PlaceOK(n, lsHist.restarts), n.st # "idle" => n.g = lsOp[c].g,
         lsWeb' = lsWeb, lsHist'.restarts = lsHist.restarts, lsHist'.webCrossed = lsHist.webCrossed,
         lsHist'.raced = lsHist.raced, LSSocks', HTTPAged',
         lsOp'[c] = n /\ ~lsHist.raced /\ StageOK(lsOp[c]) => StageOK(lsOp[c])',
         ~lsHist.raced /\ StageOK(lsOp[c]) /\ n.st = "idle" => AtRest'
  PROVE  LSInv'
<1>8. /\ lsOp' \in [LSCallers -> LSOps] /\ lsOp'[c] = n /\ (\A d \in LSCallers : d # c => lsOp'[d] = lsOp[d])
      /\ Places'
      /\ \A d \in LSCallers : Active(d)' => Active(d) /\ lsOp'[d].g = lsOp[d].g
  BY OpMoves
<1>9. LSTypes'
  BY <1>8 DEF LSInv, LSTypes, LSSocks
<1>10. (WebAged /\ WebFresh /\ WebGoes /\ WebOne)'
  BY <1>8, WebStays
<1>13. Stages'
  <2>1. ~Active(c)' => n.st = "idle"
    BY <1>8 DEF Active
  <2>. QED  BY <1>8, <2>1, StageMoves
<1>. QED  BY <1>8, <1>9, <1>10, <1>13 DEF LSInv

(* Restart empties the registry.                                           *)
LEMMA LSClears == ASSUME LSInv, NEW c \in LSCallers, ClearRegistry(c) PROVE LSInv'
<1>. DEFINE h == [lsOp[c] EXCEPT !.st = "bind"]
            n == [h EXCEPT !.i = 1]
<1>1. /\ lsOp[c].st = "clear" /\ lsReg' = {} /\ lsServers' = {} /\ lsHTTP' = NoSock
      /\ UNCHANGED <<lsOpen, lsServing, lsShut, lsRes, lsDoqEnds, lsWeb, lsHist>>
  BY DEF ClearRegistry
<1>2. lsOp' = [lsOp EXCEPT ![c] = n] /\ lsOp[c] \in LSOps
  BY DEF ClearRegistry, LSInv, LSTypes
<1>3. h \in LSOps /\ h.st = "bind" /\ h.g = lsOp[c].g
  BY <1>2 DEF LSOps
<1>4. 1 \in 0..(Len(LSProtos) + 1)
  BY LSConst
<1>. HIDE DEF h
<1>5. n \in LSOps /\ n.st = "bind" /\ n.g = lsOp[c].g /\ n.i = 1
  BY <1>3, <1>4 DEF LSOps
<1>. HIDE DEF n
<1>6. PlaceOK(lsOp[c], lsHist.restarts) /\ Active(c)
  BY <1>1 DEF LSInv, Places, Active
<1>7. PlaceOK(n, lsHist.restarts)
  BY <1>1, <1>5, <1>6 DEF PlaceOK, IdleOp
<1>8. LSSocks'
  BY <1>1 DEF LSInv, LSTypes, LSSocks
<1>9. HTTPAged'
  <2>1. 0 <= lsHist.restarts
    BY LSConst DEF LSInv, LSTypes, LSHists, LSGens
  <2>. QED  BY <1>1, <2>1, LSConst DEF LSInv, HTTPAged
<1>10. ASSUME lsOp'[c] = n, StageOK(lsOp[c]) PROVE StageOK(lsOp[c])'
  <2>1. lsOpen = {} /\ \A s \in lsShut : s.g < lsOp[c].g
    BY <1>1, <1>10 DEF StageOK
  <2>2. UpTo(1, lsOp[c].g)' /\ OnlyOf(lsOp[c].g)'
    BY <1>1, <2>1, LSConst DEF UpTo, OnlyOf
  <2>. QED  BY <1>1, <1>5, <1>10, <2>1, <2>2 DEF StageOK, UpTo, OnlyOf
<1>. QED  BY <1>1, <1>2, <1>5, <1>6, <1>7, <1>8, <1>9, <1>10, LSMoves

(* Start has come to a listener of the configuration.                      *)
LEMMA AtProto ==
  ASSUME LSInv, NEW c \in LSCallers, NEW p, Starting(c, p)
  PROVE  /\ lsOp[c] \in LSOps /\ lsOp[c].st = "bind" /\ lsOp[c].i \in 1..Len(LSProtos) /\ p = LSProtos[lsOp[c].i]
         /\ p \in Protos /\ Active(c) /\ PlaceOK(lsOp[c], lsHist.restarts) /\ lsOp[c].g \in LSGens
         /\ Sock(p, lsOp[c].g) \in LSock
<1>1. lsOp[c] \in LSOps /\ lsOp[c].st = "bind" /\ lsOp[c].i <= Len(LSProtos) /\ p = LSProtos[lsOp[c].i]
  BY DEF LSInv, LSTypes, Starting
<1>2. PlaceOK(lsOp[c], lsHist.restarts) /\ Active(c)
  BY <1>1 DEF LSInv, Places, Active
<1>3. lsOp[c].i \in 1..Len(LSProtos)
  BY <1>1, <1>2, LSConst DEF PlaceOK, LSOps
<1>. QED  BY <1>1, <1>2, <1>3, LSConst DEF LSOps

(* startClassic, startDoT, startDoH3, startDoQ bind a socket.              *)
LEMMA LSBinds == ASSUME LSInv, NEW c \in LSCallers, NEW p, Bind(c, p) PROVE LSInv'
<1>. PICK G, I : G = lsOp[c].g /\ I = lsOp[c].i
  OBVIOUS
<1>. DEFINE h == [lsOp[c] EXCEPT !.st = "register"]
            n == [h EXCEPT !.snap = lsServers]
            s == Sock(p, G)
<1>1. /\ Starting(c, p) /\ p # "doh" /\ lsOpen' = lsOpen \cup {s}
      /\ UNCHANGED <<lsReg, lsServers, lsHTTP, lsServing, lsShut, lsRes, lsDoqEnds, lsWeb, lsHist>>
  BY DEF Bind
<1>2. lsOp' = [lsOp EXCEPT ![c] = n] /\ lsServers \in SUBSET LSock
  BY DEF Bind, LSInv, LSTypes
<1>3. /\ lsOp[c] \in LSOps /\ lsOp[c].st = "bind" /\ I \in 1..Len(LSProtos) /\ p = LSProtos[I]
      /\ p \in Protos /\ Active(c) /\ PlaceOK(lsOp[c], lsHist.restarts) /\ G \in LSGens /\ s \in LSock
  BY <1>1, AtProto
<1>4. h \in LSOps /\ h.st = "register" /\ h.g = G /\ h.i = I
  BY <1>3 DEF LSOps
<1>. HIDE DEF h
<1>5. n \in LSOps /\ n.st = "register" /\ n.g = G /\ n.i = I /\ n.snap = lsServers
  BY <1>2, <1>4 DEF LSOps
<1>. HIDE DEF n
<1>7. PlaceOK(n, lsHist.restarts)
  <2>1. n.i <= Len(LSProtos) /\ n.i # 0
    BY <1>3, <1>5, LSConst
  <2>. QED  BY <1>1, <1>3, <1>5, <2>1 DEF PlaceOK, IdleOp
<1>8. LSSocks'
  BY <1>1, <1>3 DEF LSInv, LSTypes, LSSocks
<1>9. HTTPAged'
  BY <1>1 DEF LSInv, HTTPAged
<1>10. ASSUME lsOp'[c] = n, StageOK(lsOp[c]) PROVE StageOK(lsOp[c])'
  <2>1. /\ OnlyOf(G) /\ UpTo(I, G) /\ lsHTTP \in {NoSock, Sock("doh", G)}
        /\ lsOpen \subseteq Tracked /\ \A x \in lsShut : x.g < G
    BY <1>3, <1>10 DEF StageOK
  <2>2. OnlyOf(G)'
    <3>1. s.g = G
      BY LSConst
    <3>. HIDE DEF s
    <3>. QED  BY <1>1, <2>1, <3>1 DEF OnlyOf
  <2>3. UpTo(I, G)'
    BY <1>1, <2>1 DEF UpTo, Up
  <2>4. lsOpen' \subseteq Tracked' \cup {s} /\ s \in lsOpen'
    BY <1>1, <2>1 DEF Tracked
  <2>. HIDE DEF s
  <2>5. Sock(LSProtos[lsOp[c].i], lsOp[c].g)' = s
    BY <1>3, <1>5, <1>10 DEF s
  <2>. QED  BY <1>1, <1>5, <1>10, <2>1, <2>2, <2>3, <2>4, <2>5 DEF StageOK
<1>. QED  BY <1>1, <1>2, <1>3, <1>5, <1>7, <1>8, <1>9, <1>10, LSMoves

(* The caller goes on to the next listener.                                *)
LEMMA Advances ==
  ASSUME LSInv, NEW c \in LSCallers, lsOp[c].st \in {"bind", "register", "doh"}, lsOp[c].i \in 1..Len(LSProtos), Active(c),
         NEW n, n = [[[lsOp[c] EXCEPT !.st = "bind"] EXCEPT !.i = lsOp[c].i + 1] EXCEPT !.snap = {}]
  PROVE  /\ Advanced(c) = [lsOp EXCEPT ![c] = n]
         /\ n \in LSOps /\ n.st = "bind" /\ n.i = lsOp[c].i + 1 /\ n.g = lsOp[c].g /\ PlaceOK(n, lsHist.restarts)
<1>1. lsOp \in [LSCallers -> LSOps] /\ lsOp[c] \in LSOps /\ PlaceOK(lsOp[c], lsHist.restarts)
  BY DEF LSInv, LSTypes, Places
<1>2. Advanced(c) = [lsOp EXCEPT ![c] = n]
  BY <1>1 DEF Advanced
<1>. DEFINE i == lsOp[c].i + 1
            a == [lsOp[c] EXCEPT !.st = "bind"]
            b == [a EXCEPT !.i = i]
            e == {}
<1>3. i \in 0..(Len(LSProtos) + 1) /\ i # 0
  BY LSConst
<1>. HIDE DEF i
<1>4. a \in LSOps /\ a.st = "bind" /\ a.g = lsOp[c].g
  BY <1>1 DEF LSOps
<1>. HIDE DEF a
<1>5. b \in LSOps /\ b.st = "bind" /\ b.g = lsOp[c].g /\ b.i = i
  BY <1>3, <1>4 DEF LSOps
<1>6. e \in SUBSET LSock
  OBVIOUS
<1>7. n = [b EXCEPT !.snap = e]
  BY DEF a, b, i, e
<1>. HIDE DEF b, e
<1>8. n \in LSOps /\ n.st = "bind" /\ n.g = lsOp[c].g /\ n.i = i
  BY <1>5, <1>6, <1>7 DEF LSOps
<1>9. PlaceOK(n, lsHist.restarts)
  BY <1>1, <1>3, <1>8 DEF PlaceOK, IdleOp, Active
<1>. QED  BY <1>2, <1>8, <1>9 DEF i

(* What was up so far, and one listener more.                              *)
LEMMA UpNext ==
  ASSUME NEW i \in 1..Len(LSProtos), NEW g, UpTo(i, g), Up(LSProtos[i], g)
  PROVE  UpTo(i + 1, g)
<1>1. \A k \in 1..Len(LSProtos) : k < i + 1 => k < i \/ k = i
  BY LSConst
<1>. QED  BY <1>1 DEF UpTo

(* A listener is registered, a plain one by an append without the lock.    *)
LEMMA LSRegisters == ASSUME LSInv, NEW c \in LSCallers, Register(c) PROVE LSInv'
<1>. PICK G, I : G = lsOp[c].g /\ I = lsOp[c].i
  OBVIOUS
<1>. DEFINE n == [[[lsOp[c] EXCEPT !.st = "bind"] EXCEPT !.i = I + 1] EXCEPT !.snap = {}]
            p == LSProtos[I]
            s == Sock(p, G)
<1>1. /\ lsOp[c].st = "register" /\ lsOp' = Advanced(c)
      /\ UNCHANGED <<lsOpen, lsHTTP, lsServing, lsShut, lsRes, lsDoqEnds, lsWeb, lsHist>>
      /\ \/ p \in DNSServers /\ lsServers' = lsOp[c].snap \cup {s} /\ lsReg' = lsReg
         \/ p \notin DNSServers /\ lsReg' = lsReg \cup {s} /\ lsServers' = lsServers
  BY Zenon DEF Register
<1>2. lsOp[c] \in LSOps /\ Active(c) /\ PlaceOK(lsOp[c], lsHist.restarts)
  BY <1>1 DEF LSInv, LSTypes, Places, Active
<1>3. I \in 1..Len(LSProtos) /\ G \in LSGens
  BY <1>1, <1>2, LSConst DEF PlaceOK, LSOps
<1>4. s \in LSock /\ s.g = G /\ lsOp[c].snap \in SUBSET LSock
  BY <1>2, <1>3, LSConst DEF LSOps
<1>. HIDE DEF n
<1>5. lsOp' = [lsOp EXCEPT ![c] = n] /\ n \in LSOps /\ n.st = "bind" /\ n.i = I + 1 /\ n.g = G /\ PlaceOK(n, lsHist.restarts)
  <2>1. n = [[[lsOp[c] EXCEPT !.st = "bind"] EXCEPT !.i = lsOp[c].i + 1] EXCEPT !.snap = {}]
    BY DEF n
  <2>2. lsOp[c].st \in {"bind", "register", "doh"} /\ lsOp[c].i \in 1..Len(LSProtos)
    BY <1>1, <1>3
  <2>3. /\ Advanced(c) = [lsOp EXCEPT ![c] = n] /\ n \in LSOps /\ n.st = "bind" /\ n.i = lsOp[c].i + 1 /\ n.g = lsOp[c].g
        /\ PlaceOK(n, lsHist.restarts)
    BY <1>2, <2>1, <2>2, Advances, ZenonT(60)
  <2>. QED  BY <1>1, <2>3
<1>. HIDE DEF s, p
<1>8. LSSocks'
  BY <1>1, <1>4 DEF LSInv, LSTypes, LSSocks
<1>9. HTTPAged'
  BY <1>1 DEF LSInv, HTTPAged
<1>10. ASSUME lsOp'[c] = n, StageOK(lsOp[c]) PROVE StageOK(lsOp[c])'
  <2>1. /\ OnlyOf(G) /\ UpTo(I, G) /\ lsHTTP \in {NoSock, Sock("doh", G)} /\ lsOpen \subseteq Tracked \cup {s} /\ s \in lsOpen
        /\ lsOp[c].snap = lsServers /\ \A x \in lsShut : x.g < G
    BY <1>1, <1>10 DEF StageOK, s, p
  <2>2. Up(LSProtos[I], G)
    BY <2>1 DEF Up, s, p
  <2>3. UpTo(I + 1, G)
    BY <1>3, <2>1, <2>2, UpNext
  <2>4. UpTo(I + 1, G)' /\ OnlyOf(G)'
    BY <1>1, <2>1, <2>3 DEF UpTo, Up, OnlyOf
  <2>5. lsOpen' \subseteq Tracked'
    BY <1>1, <2>1 DEF Tracked
  <2>. QED  BY <1>1, <1>5, <1>10, <2>1, <2>4, <2>5 DEF StageOK
<1>. QED  BY <1>1, <1>2, <1>5, <1>8, <1>9, <1>10, LSMoves

(* A plain listener that does not bind is reported.                        *)
LEMMA LSReports == ASSUME LSInv, NEW c \in LSCallers, NEW p, BindReported(c, p) PROVE LSInv'
<1>. PICK G, I : G = lsOp[c].g /\ I = lsOp[c].i
  OBVIOUS
<1>. DEFINE n == [[[lsOp[c] EXCEPT !.st = "bind"] EXCEPT !.i = I + 1] EXCEPT !.snap = {}]
            s == Sock(p, G)
<1>1. /\ Starting(c, p) /\ p \in SoftProtos /\ lsRes < LSResults /\ lsRes' = lsRes + 1 /\ lsOp' = Advanced(c)
      /\ lsHist' = [lsHist EXCEPT !.reported = @ \cup {s}]
      /\ UNCHANGED <<lsOpen, lsReg, lsServers, lsHTTP, lsServing, lsShut, lsDoqEnds, lsWeb>>
  BY DEF BindReported
<1>3. /\ lsOp[c] \in LSOps /\ lsOp[c].st = "bind" /\ I \in 1..Len(LSProtos) /\ p = LSProtos[I]
      /\ p \in Protos /\ Active(c) /\ G \in LSGens /\ s \in LSock
  BY <1>1, AtProto
<1>. HIDE DEF n
<1>5. lsOp' = [lsOp EXCEPT ![c] = n] /\ n \in LSOps /\ n.st = "bind" /\ n.i = I + 1 /\ n.g = G /\ PlaceOK(n, lsHist.restarts)
  BY <1>1, <1>3, Advances DEF n
<1>. HIDE DEF s
<1>6. /\ lsHist' \in LSHists /\ lsHist'.restarts = lsHist.restarts /\ lsHist'.raced = lsHist.raced /\ lsHist'.last = lsHist.last
      /\ lsHist'.reported = lsHist.reported \cup {s} /\ lsHist'.webCrossed = lsHist.webCrossed
  BY <1>1, <1>3 DEF LSInv, LSTypes, LSHists
<1>8. LSSocks'
  <2>1. lsRes' \in 0..LSResults
    BY <1>1, LSConst DEF LSInv, LSTypes
  <2>. QED  BY <1>1, <1>6, <2>1 DEF LSInv, LSTypes, LSSocks
<1>9. HTTPAged'
  BY <1>1, <1>6 DEF LSInv, HTTPAged
<1>10. ASSUME lsOp'[c] = n, StageOK(lsOp[c]) PROVE StageOK(lsOp[c])'
  <2>1. /\ OnlyOf(G) /\ UpTo(I, G) /\ lsHTTP \in {NoSock, Sock("doh", G)} /\ lsOpen \subseteq Tracked
        /\ \A x \in lsShut : x.g < G
    BY <1>3, <1>10 DEF StageOK
  <2>2. Up(LSProtos[I], G)'
    BY <1>1, <1>3, <1>6 DEF Up, s
  <2>3. UpTo(I, G)' /\ OnlyOf(G)'
    BY <1>1, <1>6, <2>1 DEF UpTo, Up, OnlyOf
  <2>4. UpTo(I + 1, G)'
    <3>1. \A k \in 1..Len(LSProtos) : k < I + 1 => k < I \/ k = I
      BY <1>3, LSConst
    <3>. QED  BY <2>2, <2>3, <3>1 DEF UpTo
  <2>5. lsOpen' \subseteq Tracked'
    BY <1>1, <2>1 DEF Tracked
  <2>. QED  BY <1>1, <1>5, <1>10, <2>1, <2>3, <2>4, <2>5 DEF StageOK
<1>. QED  BY <1>1, <1>3, <1>5, <1>6, <1>8, <1>9, <1>10, LSMoves

(* A Restart that ends, successful or not.                                 *)
LEMMA Ending ==
  ASSUME LSInv, NEW c \in LSCallers, Active(c), NEW ok \in BOOLEAN
  PROVE  /\ Ended(c) = [lsOp EXCEPT ![c] = IdleOp] /\ PlaceOK(IdleOp, lsHist.restarts)
         /\ Outcome(c, ok) \in LSHists /\ Outcome(c, ok).restarts = lsHist.restarts /\ Outcome(c, ok).raced = lsHist.raced
         /\ Outcome(c, ok).last.g = lsOp[c].g /\ Outcome(c, ok).last.ok = ok /\ Outcome(c, ok).reported = lsHist.reported
         /\ Outcome(c, ok).webCrossed = lsHist.webCrossed
<1>1. Ended(c) = [lsOp EXCEPT ![c] = IdleOp] /\ PlaceOK(IdleOp, lsHist.restarts)
  BY DEF Ended, PlaceOK, IdleOp
<1>. DEFINE l == [g |-> lsOp[c].g, ok |-> ok]
<1>2. l \in [g : LSGens, ok : BOOLEAN] /\ l.g = lsOp[c].g /\ l.ok = ok
  BY DEF LSInv, LSTypes, LSOps
<1>3. Outcome(c, ok) = [lsHist EXCEPT !.last = l]
  BY DEF Outcome
<1>. HIDE DEF l
<1>. QED  BY <1>1, <1>2, <1>3 DEF LSInv, LSTypes, LSHists

(* An encrypted listener that does not bind ends Restart with the error.   *)
LEMMA LSRefuses == ASSUME LSInv, NEW c \in LSCallers, NEW p, BindRefused(c, p) PROVE LSInv'
<1>1. /\ Starting(c, p) /\ lsOp' = Ended(c) /\ lsHist' = Outcome(c, FALSE)
      /\ UNCHANGED <<lsOpen, lsReg, lsServers, lsHTTP, lsServing, lsShut, lsRes, lsDoqEnds, lsWeb>>
  BY DEF BindRefused
<1>2. Active(c) /\ lsOp[c].st = "bind"
  BY <1>1, AtProto
<1>3. /\ Ended(c) = [lsOp EXCEPT ![c] = IdleOp] /\ PlaceOK(IdleOp, lsHist.restarts)
      /\ lsHist' \in LSHists /\ lsHist'.restarts = lsHist.restarts /\ lsHist'.raced = lsHist.raced
      /\ ~lsHist'.last.ok /\ lsHist'.webCrossed = lsHist.webCrossed
  BY <1>1, <1>2, Ending
<1>4. LSSocks' /\ HTTPAged'
  BY <1>1, <1>3 DEF LSInv, LSTypes, LSSocks, HTTPAged
<1>5. ASSUME StageOK(lsOp[c]) PROVE AtRest'
  <2>1. lsOpen \subseteq Tracked
    BY <1>2, <1>5 DEF StageOK
  <2>. QED  BY <1>1, <1>3, <2>1 DEF AtRest, Tracked
<1>6. ASSUME lsOp'[c] = IdleOp PROVE StageOK(lsOp[c])'
  BY <1>6, LSConst DEF StageOK
<1>. QED  BY <1>1, <1>2, <1>3, <1>4, <1>5, <1>6, LSConst, LSMoves

(* startDoH takes the slot.                                                *)
LEMMA LSTakes == ASSUME LSInv, NEW c \in LSCallers, TakeHTTPSlot(c) PROVE LSInv'
<1>. PICK G, I : G = lsOp[c].g /\ I = lsOp[c].i
  OBVIOUS
<1>. DEFINE n == [lsOp[c] EXCEPT !.st = "doh"]
            s == Sock("doh", G)
<1>1. /\ Starting(c, "doh") /\ lsHTTP' = s
      /\ UNCHANGED <<lsOpen, lsReg, lsServers, lsServing, lsShut, lsRes, lsDoqEnds, lsWeb, lsHist>>
  BY DEF TakeHTTPSlot
<1>2. lsOp' = [lsOp EXCEPT ![c] = n]
  BY DEF TakeHTTPSlot, LSInv, LSTypes
<1>3. /\ lsOp[c] \in LSOps /\ lsOp[c].st = "bind" /\ I \in 1..Len(LSProtos) /\ "doh" = LSProtos[I]
      /\ Active(c) /\ PlaceOK(lsOp[c], lsHist.restarts) /\ G \in LSGens /\ s \in LSock
  BY <1>1, AtProto
<1>5. n \in LSOps /\ n.st = "doh" /\ n.g = G /\ n.i = I
  BY <1>3 DEF LSOps
<1>. HIDE DEF n
<1>7. PlaceOK(n, lsHist.restarts)
  <2>1. n.i <= Len(LSProtos) /\ n.i # 0
    BY <1>3, <1>5, LSConst
  <2>. QED  BY <1>1, <1>3, <1>5, <2>1 DEF PlaceOK, IdleOp
<1>6. s.g = G
  BY LSConst
<1>. HIDE DEF s
<1>8. LSSocks'
  BY <1>1, <1>3 DEF LSInv, LSTypes, LSSocks
<1>9. HTTPAged'
  <2>1. G <= lsHist.restarts
    BY <1>3 DEF PlaceOK
  <2>. QED  BY <1>1, <1>6, <2>1 DEF LSInv, HTTPAged
<1>10. ASSUME lsOp'[c] = n, StageOK(lsOp[c]) PROVE StageOK(lsOp[c])'
  <2>1. /\ OnlyOf(G) /\ UpTo(I, G) /\ lsHTTP \in {NoSock, Sock("doh", G)} /\ lsOpen \subseteq Tracked
        /\ \A x \in lsShut : x.g < G
    BY <1>3, <1>10 DEF StageOK
  <2>2. UpTo(I, G)' /\ OnlyOf(G)'
    BY <1>1, <2>1 DEF UpTo, Up, OnlyOf
  <2>3. lsOpen' \subseteq Tracked'
    <3>1. lsHTTP = NoSock \/ lsHTTP = s
      BY <2>1 DEF s
    <3>2. NoSock \notin lsOpen
      BY LSConst DEF LSInv, LSTypes
    <3>. QED  BY <1>1, <2>1, <3>1, <3>2 DEF Tracked
  <2>. QED  BY <1>1, <1>5, <1>10, <2>1, <2>2, <2>3 DEF StageOK, s
<1>. QED  BY <1>1, <1>2, <1>3, <1>5, <1>7, <1>8, <1>9, <1>10, LSMoves

(* The DoH listener binds, or Restart ends.                                *)
LEMMA LSBindsDoH == ASSUME LSInv, NEW c \in LSCallers, BindDoH(c) PROVE LSInv'
<1>. PICK G, I : G = lsOp[c].g /\ I = lsOp[c].i
  OBVIOUS
<1>. DEFINE n == [[[lsOp[c] EXCEPT !.st = "bind"] EXCEPT !.i = lsOp[c].i + 1] EXCEPT !.snap = {}]
            s == Sock("doh", G)
<1>1. /\ lsOp[c].st = "doh" /\ UNCHANGED <<lsReg, lsServers, lsHTTP, lsServing, lsShut, lsRes, lsDoqEnds, lsWeb>>
      /\ \/ lsOpen' = (IF s \in lsShut THEN lsOpen ELSE lsOpen \cup {s}) /\ lsOp' = Advanced(c) /\ lsHist' = lsHist
         \/ lsOp' = Ended(c) /\ lsHist' = Outcome(c, FALSE) /\ lsOpen' = lsOpen
  BY DEF BindDoH
<1>2. lsOp[c] \in LSOps /\ Active(c) /\ PlaceOK(lsOp[c], lsHist.restarts)
  BY <1>1 DEF LSInv, LSTypes, Places, Active
<1>3. I \in 1..Len(LSProtos) /\ G \in LSGens /\ LSProtos[I] = "doh"
  BY <1>1, <1>2, LSConst DEF PlaceOK, LSOps
<1>4. s \in LSock /\ s.g = G
  BY <1>3, LSConst
<1>5. lsOp[c].st \in {"bind", "register", "doh"} /\ lsOp[c].i \in 1..Len(LSProtos)
  BY <1>1, <1>3
<1>6. CASE lsOp' = Ended(c) /\ lsHist' = Outcome(c, FALSE) /\ lsOpen' = lsOpen
  <2>3. /\ Ended(c) = [lsOp EXCEPT ![c] = IdleOp] /\ PlaceOK(IdleOp, lsHist.restarts)
        /\ lsHist' \in LSHists /\ lsHist'.restarts = lsHist.restarts /\ lsHist'.raced = lsHist.raced
        /\ ~lsHist'.last.ok /\ lsHist'.webCrossed = lsHist.webCrossed
    BY <1>2, <1>6, Ending
  <2>4. LSSocks' /\ HTTPAged'
    BY <1>1, <1>6, <2>3 DEF LSInv, LSTypes, LSSocks, HTTPAged
  <2>5. ASSUME StageOK(lsOp[c]) PROVE AtRest'
    <3>1. lsOpen \subseteq Tracked
      BY <1>1, <2>5 DEF StageOK
    <3>. QED  BY <1>1, <1>6, <2>3, <3>1 DEF AtRest, Tracked
  <2>6. ASSUME lsOp'[c] = IdleOp PROVE StageOK(lsOp[c])'
    BY <2>6, LSConst DEF StageOK
  <2>. HIDE DEF n, s
  <2>7. lsOp' = [lsOp EXCEPT ![c] = IdleOp] /\ lsWeb' = lsWeb
    BY <1>1, <1>6, <2>3
  <2>. QED  BY <1>2, <2>3, <2>4, <2>5, <2>6, <2>7, LSConst, LSMoves
<1>7. CASE lsOpen' = (IF s \in lsShut THEN lsOpen ELSE lsOpen \cup {s}) /\ lsOp' = Advanced(c) /\ lsHist' = lsHist
  <2>. HIDE DEF s
  <2>0. n = [[[lsOp[c] EXCEPT !.st = "bind"] EXCEPT !.i = lsOp[c].i + 1] EXCEPT !.snap = {}]
    OBVIOUS
  <2>. HIDE DEF n
  <2>1. /\ Advanced(c) = [lsOp EXCEPT ![c] = n] /\ n \in LSOps /\ n.st = "bind" /\ n.i = lsOp[c].i + 1 /\ n.g = lsOp[c].g
        /\ PlaceOK(n, lsHist.restarts)
    BY <1>2, <1>5, <2>0, Advances, ZenonT(60)
  <2>2. LSSocks' /\ HTTPAged'
    BY <1>1, <1>4, <1>7 DEF LSInv, LSTypes, LSSocks, HTTPAged
  <2>3. ASSUME lsOp'[c] = n, StageOK(lsOp[c]) PROVE StageOK(lsOp[c])'
    <3>1. /\ OnlyOf(G) /\ UpTo(I, G) /\ lsHTTP = s /\ lsOpen \subseteq Tracked /\ \A x \in lsShut : x.g < G
      BY <1>1, <2>3 DEF StageOK, s
    <3>2. s \notin lsShut
      BY <1>3, <1>4, <3>1, LSConst DEF LSGens
    <3>3. lsOpen' = lsOpen \cup {s}
      BY <1>7, <3>2
    <3>4. UpTo(I, G)' /\ OnlyOf(G)' /\ Up(LSProtos[I], G)'
      BY <1>3, <1>4, <1>7, <3>1, <3>3 DEF UpTo, Up, OnlyOf, s
    <3>5. UpTo(I + 1, G)'
      <4>1. \A k \in 1..Len(LSProtos) : k < I + 1 => k < I \/ k = I
        BY <1>3, LSConst
      <4>. QED  BY <3>4, <4>1 DEF UpTo
    <3>6. lsOpen' \subseteq Tracked'
      BY <1>1, <3>1, <3>3 DEF Tracked
    <3>. QED  BY <1>1, <2>1, <2>3, <3>1, <3>4, <3>5, <3>6 DEF StageOK, s
  <2>4. lsOp' = [lsOp EXCEPT ![c] = n] /\ lsWeb' = lsWeb /\ lsHist' = lsHist /\ n.st # "idle"
    BY <1>1, <1>7, <2>1
  <2>. QED  BY <1>2, <2>1, <2>2, <2>3, <2>4, LSMoves
<1>. QED  BY <1>1, <1>6, <1>7

(* Restart returns nil, and perhaps swaps the web server.                  *)
LEMMA LSDone == ASSUME LSInv, NEW c \in LSCallers, NEW rebind \in BOOLEAN, RestartDone(c, rebind) PROVE LSInv'
<1>. PICK G : G = lsOp[c].g
  OBVIOUS
<1>. DEFINE O == Outcome(c, TRUE)
            j == [old |-> lsWeb.cur, new |-> G, st |-> "stop"]
            J == lsWeb.jobs \cup {j}
            x == lsWeb.jobs # {}
<1>1. /\ lsOp[c].st = "bind" /\ lsOp[c].i > Len(LSProtos) /\ lsOp' = Ended(c)
      /\ UNCHANGED <<lsOpen, lsReg, lsServers, lsHTTP, lsServing, lsShut, lsRes, lsDoqEnds>>
      /\ \/ ~rebind /\ lsWeb' = lsWeb /\ lsHist' = O
         \/ rebind /\ lsWeb' = [lsWeb EXCEPT !.cur = G, !.jobs = J] /\ lsHist' = [O EXCEPT !.webCrossed = x]
  BY DEF RestartDone
<1>2. lsOp[c] \in LSOps /\ Active(c) /\ PlaceOK(lsOp[c], lsHist.restarts) /\ G \in LSGens /\ G <= lsHist.restarts
  BY <1>1 DEF LSInv, LSTypes, Places, Active, LSOps, PlaceOK
<1>3. /\ Ended(c) = [lsOp EXCEPT ![c] = IdleOp] /\ PlaceOK(IdleOp, lsHist.restarts)
      /\ O \in LSHists /\ O.restarts = lsHist.restarts /\ O.raced = lsHist.raced
      /\ O.last.ok = TRUE /\ O.last.g = G /\ O.reported = lsHist.reported /\ O.webCrossed = lsHist.webCrossed
  BY <1>2, Ending
<1>4. x \in BOOLEAN
  OBVIOUS
<1>. HIDE DEF O, x
<1>5. /\ lsHist' \in LSHists /\ lsHist'.restarts = lsHist.restarts /\ lsHist'.raced = lsHist.raced
      /\ lsHist'.last.ok /\ lsHist'.last.g = G /\ lsHist'.reported = lsHist.reported
      /\ lsHist'.webCrossed = (IF rebind THEN x ELSE lsHist.webCrossed)
  BY <1>1, <1>3, <1>4 DEF LSHists
<1>6. /\ lsOp' \in [LSCallers -> LSOps] /\ lsOp'[c] = IdleOp /\ (\A d \in LSCallers : d # c => lsOp'[d] = lsOp[d])
      /\ Places'
      /\ \A d \in LSCallers : Active(d)' => Active(d) /\ lsOp'[d].g = lsOp[d].g
  BY <1>1, <1>2, <1>3, <1>5, LSConst, OpMoves
<1>7. ~Active(c)'
  BY <1>6, LSConst DEF Active
<1>8. HTTPAged'
  BY <1>1, <1>5 DEF LSInv, HTTPAged
<1>9. Stages'
  <2>1. ASSUME StageOK(lsOp[c]) PROVE AtRest'
    <3>1. lsOpen \subseteq Tracked /\ OnlyOf(G) /\ UpTo(lsOp[c].i, G)
      BY <1>1, <2>1 DEF StageOK
    <3>2. \A k \in 1..Len(LSProtos) : k < lsOp[c].i
      BY <1>1, <1>2, LSConst DEF LSOps
    <3>3. \A k \in 1..Len(LSProtos) : Up(LSProtos[k], G)
      BY <3>1, <3>2 DEF UpTo
    <3>4. UpTo(Len(LSProtos) + 1, G)' /\ OnlyOf(G)'
      BY <1>1, <1>5, <3>1, <3>3 DEF UpTo, Up, OnlyOf
    <3>. QED  BY <1>1, <1>5, <3>1, <3>4 DEF AtRest, Tracked
  <2>2. StageOK(lsOp[c])'
    BY <1>6, LSConst DEF StageOK
  <2>. QED  BY <1>2, <1>5, <1>6, <2>1, <2>2, StageMoves
<1>10. CASE ~rebind
  <2>1. lsWeb' = lsWeb /\ lsHist'.webCrossed = lsHist.webCrossed
    BY <1>1, <1>5, <1>10
  <2>2. (WebAged /\ WebFresh /\ WebGoes /\ WebOne)'
    BY <1>5, <1>6, <2>1, WebStays
  <2>3. LSTypes'
    BY <1>1, <1>5, <1>6, <2>1 DEF LSInv, LSTypes
  <2>. QED  BY <1>6, <1>8, <1>9, <2>2, <2>3 DEF LSInv
<1>11. CASE rebind
  <2>1. j \in WebJob /\ j.old = lsWeb.cur /\ j.new = G /\ j.st = "stop" /\ lsWeb \in LSWebs
    BY <1>2 DEF LSInv, LSTypes, LSWebs, WebJob
  <2>2. J \in SUBSET WebJob
    BY <2>1 DEF LSInv, LSTypes, LSWebs
  <2>3. J = lsWeb.jobs \cup {j}
    OBVIOUS
  <2>. HIDE DEF j, J
  <2>4. lsWeb' \in LSWebs /\ lsWeb'.cur = G /\ lsWeb'.jobs = J /\ lsWeb'.open = lsWeb.open /\ lsWeb'.shut = lsWeb.shut
    BY <1>1, <1>2, <1>11, <2>1, <2>2 DEF LSWebs
  <2>5. LSTypes'
    BY <1>1, <1>5, <1>6, <2>4 DEF LSInv, LSTypes
  <2>6. WebAged'
    BY <1>2, <1>5, <2>1, <2>3, <2>4 DEF LSInv, WebAged
  <2>7. WebFresh'
    <3>1. \A d \in LSCallers : Active(d)' => d # c /\ lsOp[d].g # G
      BY <1>2, <1>6, <1>7 DEF LSInv, Places
    <3>. QED  BY <1>6, <2>1, <2>3, <2>4, <3>1 DEF LSInv, WebFresh
  <2>. PICK K : K = lsWeb.cur
    OBVIOUS
  <2>8. Closing(K)' /\ \A g : Closing(g) => Closing(g)'
    BY <2>1, <2>3, <2>4 DEF Closing
  <2>9. WebGoes'
    BY <2>1, <2>3, <2>4, <2>8 DEF LSInv, WebGoes
  <2>10. WebOne'
    <3>1. CASE lsWeb.jobs # {}
      <4>1. lsHist'.webCrossed
        BY <1>5, <1>11, <3>1 DEF x
      <4>. QED  BY <4>1 DEF WebOne
    <3>2. CASE lsWeb.jobs = {}
      <4>1. lsWeb'.jobs = {j}
        BY <2>3, <2>4, <3>2
      <4>2. lsWeb.open \subseteq {lsWeb.cur}
        BY <3>2 DEF LSInv, WebGoes, Closing
      <4>3. G # lsWeb.cur /\ G \notin lsWeb.shut
        BY <1>2 DEF LSInv, WebFresh
      <4>. QED  BY <2>1, <2>4, <4>1, <4>2, <4>3 DEF WebOne
    <3>. QED  BY <3>1, <3>2
  <2>. QED  BY <1>6, <1>8, <1>9, <2>5, <2>6, <2>7, <2>9, <2>10 DEF LSInv
<1>. QED  BY <1>10, <1>11

(* Steps that leave the callers and the sockets alone.                     *)
LEMMA CallersStay ==
  ASSUME LSInv, UNCHANGED <<lsOpen, lsReg, lsServers, lsHTTP, lsShut, lsOp, lsHist>>
  PROVE  (Places /\ HTTPAged /\ Stages)'
<1>1. Places'
  BY DEF LSInv, Places, Active
<1>2. HTTPAged'
  BY DEF LSInv, HTTPAged
<1>3. Stages'
  <2>1. Tracked' = Tracked
    BY DEF Tracked
  <2>2. \A i, g : (UpTo(i, g) <=> UpTo(i, g)') /\ (OnlyOf(g) <=> OnlyOf(g)')
    BY DEF UpTo, Up, OnlyOf
  <2>3. \A c \in LSCallers : StageOK(lsOp[c]) => StageOK(lsOp[c])'
    BY <2>1, <2>2 DEF StageOK
  <2>4. AtRest => AtRest'
    BY <2>1, <2>2 DEF AtRest
  <2>5. \A c \in LSCallers : Active(c)' <=> Active(c)
    BY DEF Active
  <2>. QED  BY <2>3, <2>4, <2>5 DEF LSInv, Stages, Resting
<1>. QED  BY <1>1, <1>2, <1>3

(* A serving goroutine starts, or the results channel moves.               *)
LEMMA LSServes ==
  ASSUME LSInv, (\E s \in lsOpen : ServeStarts(s)) \/ DoQEnds \/ DrainResults \/ UNCHANGED LSVars
  PROVE  LSInv'
<1>1. UNCHANGED <<lsOpen, lsReg, lsServers, lsHTTP, lsShut, lsOp, lsHist, lsWeb>>
  BY DEF ServeStarts, DoQEnds, DrainResults, LSVars
<1>2. lsServing' \in SUBSET LSock
  BY DEF ServeStarts, DoQEnds, DrainResults, LSVars, LSInv, LSTypes
<1>3. lsRes' \in 0..LSResults
  BY LSConst DEF ServeStarts, DoQEnds, DrainResults, LSVars, LSInv, LSTypes
<1>4. LSTypes'
  BY <1>1, <1>2, <1>3 DEF LSInv, LSTypes
<1>5. (Places /\ HTTPAged /\ Stages)'
  BY <1>1, CallersStay
<1>6. (WebAged /\ WebFresh /\ WebGoes /\ WebOne)'
  BY <1>1, WebStays DEF Active
<1>. QED  BY <1>4, <1>5, <1>6 DEF LSInv

(* A rebinding goroutine shuts the old web server down ...                 *)
LEMMA LSWebStops == ASSUME LSInv, NEW j \in lsWeb.jobs, WebStops(j) PROVE LSInv'
<1>. DEFINE k == [j EXCEPT !.st = "start"]
            J == (lsWeb.jobs \ {j}) \cup {k}
            S == lsWeb.shut \cup {j.old}
            O == lsWeb.open \ {j.old}
<1>1. /\ j.st = "stop" /\ UNCHANGED <<lsOpen, lsReg, lsServers, lsHTTP, lsServing, lsShut, lsOp, lsRes, lsHist>>
      /\ lsWeb' = [lsWeb EXCEPT !.jobs = J, !.shut = S, !.open = O]
  BY DEF WebStops
<1>2. j \in WebJob /\ lsWeb \in LSWebs
  BY DEF LSInv, LSTypes, LSWebs
<1>3. k \in WebJob /\ k.old = j.old /\ k.new = j.new /\ k.st = "start"
  BY <1>2 DEF WebJob
<1>. HIDE DEF k
<1>4. J \in SUBSET WebJob /\ S \in SUBSET LSGens /\ O \in SUBSET LSGens
  BY <1>2, <1>3 DEF LSWebs, WebJob
<1>5. J = (lsWeb.jobs \ {j}) \cup {k} /\ S = lsWeb.shut \cup {j.old} /\ O = lsWeb.open \ {j.old}
  OBVIOUS
<1>. HIDE DEF J, S, O
<1>6. lsWeb' \in LSWebs /\ lsWeb'.cur = lsWeb.cur /\ lsWeb'.jobs = J /\ lsWeb'.shut = S /\ lsWeb'.open = O
  <2>. DEFINE a == [lsWeb EXCEPT !.jobs = J]
              b == [a EXCEPT !.shut = S]
  <2>1. a \in LSWebs /\ a.cur = lsWeb.cur /\ a.jobs = J
    BY <1>2, <1>4 DEF LSWebs
  <2>2. lsWeb' = [b EXCEPT !.open = O]
    BY <1>1
  <2>. HIDE DEF a
  <2>3. b \in LSWebs /\ b.cur = lsWeb.cur /\ b.jobs = J /\ b.shut = S
    BY <1>4, <2>1 DEF LSWebs
  <2>. HIDE DEF b
  <2>. QED  BY <1>4, <2>2, <2>3 DEF LSWebs
<1>7. (Places /\ HTTPAged /\ Stages)'
  BY <1>1, CallersStay
<1>8. LSTypes'
  BY <1>1, <1>6 DEF LSInv, LSTypes
<1>9. WebAged'
  BY <1>1, <1>3, <1>5, <1>6 DEF LSInv, WebAged
<1>10. WebFresh'
  BY <1>1, <1>3, <1>5, <1>6 DEF LSInv, WebFresh, Active
<1>11. \A g : Closing(g) => g = j.old \/ Closing(g)'
  BY <1>5, <1>6 DEF Closing
<1>12. WebGoes'
  <2>1. \A g \in lsWeb'.open : g = lsWeb'.cur \/ Closing(g)'
    BY <1>5, <1>6, <1>11 DEF LSInv, WebGoes
  <2>2. \A i \in lsWeb.jobs : i.new = lsWeb'.cur \/ i.new \in lsWeb'.shut \/ Closing(i.new)'
    <3>. SUFFICES ASSUME NEW i \in lsWeb.jobs PROVE i.new = lsWeb'.cur \/ i.new \in lsWeb'.shut \/ Closing(i.new)'
      OBVIOUS
    <3>1. i.new = lsWeb.cur \/ i.new \in lsWeb.shut \/ Closing(i.new)
      BY DEF LSInv, WebGoes
    <3>. QED  BY <1>5, <1>6, <1>11, <3>1
  <2>3. \A i \in lsWeb'.jobs : i.new = lsWeb'.cur \/ i.new \in lsWeb'.shut \/ Closing(i.new)'
    BY <1>3, <1>5, <1>6, <2>2
  <2>. QED  BY <2>1, <2>3 DEF WebGoes
<1>13. WebOne'
  <2>. SUFFICES ASSUME ~lsHist.webCrossed PROVE WebOne'
    BY <1>1 DEF WebOne
  <2>1. /\ lsWeb.jobs = {j} /\ j.new = lsWeb.cur /\ j.old # j.new /\ j.new \notin lsWeb.shut
        /\ lsWeb.open \subseteq {j.old}
    BY <1>1 DEF LSInv, WebOne
  <2>2. lsWeb'.jobs = {k} /\ k.new = lsWeb'.cur /\ k.old # k.new /\ k.new \notin lsWeb'.shut /\ lsWeb'.open = {}
    BY <1>3, <1>5, <1>6, <2>1
  <2>. QED  BY <1>3, <2>2 DEF WebOne
<1>. QED  BY <1>7, <1>8, <1>9, <1>10, <1>12, <1>13 DEF LSInv

(* ... and starts the new one, unless it was shut down already.            *)
LEMMA LSWebStarts == ASSUME LSInv, NEW j \in lsWeb.jobs, NEW starts \in BOOLEAN, WebStarts(j, starts) PROVE LSInv'
<1>. DEFINE J == lsWeb.jobs \ {j}
            O == IF starts /\ lsWeb.open = {} /\ j.new \notin lsWeb.shut THEN {j.new} ELSE lsWeb.open
<1>1. /\ j.st = "start" /\ UNCHANGED <<lsOpen, lsReg, lsServers, lsHTTP, lsServing, lsShut, lsOp, lsRes, lsHist>>
      /\ lsWeb' = [lsWeb EXCEPT !.jobs = J, !.failed = ~starts, !.open = O]
  BY DEF WebStarts
<1>2. j \in WebJob /\ lsWeb \in LSWebs
  BY DEF LSInv, LSTypes, LSWebs
<1>4. J \in SUBSET WebJob /\ O \in SUBSET LSGens
  BY <1>2 DEF LSWebs, WebJob
<1>5. J = lsWeb.jobs \ {j} /\ O = IF starts /\ lsWeb.open = {} /\ j.new \notin lsWeb.shut THEN {j.new} ELSE lsWeb.open
  OBVIOUS
<1>. HIDE DEF J, O
<1>6. /\ lsWeb' \in LSWebs /\ lsWeb'.cur = lsWeb.cur /\ lsWeb'.jobs = J /\ lsWeb'.shut = lsWeb.shut /\ lsWeb'.open = O
      /\ lsWeb'.failed = ~starts
  <2>. DEFINE a == [lsWeb EXCEPT !.jobs = J, !.failed = ~starts]
  <2>1. a \in LSWebs /\ a.cur = lsWeb.cur /\ a.jobs = J /\ a.shut = lsWeb.shut /\ a.failed = ~starts
    BY <1>2, <1>4 DEF LSWebs
  <2>2. lsWeb' = [a EXCEPT !.open = O]
    BY <1>1
  <2>. HIDE DEF a
  <2>. QED  BY <1>4, <2>1, <2>2 DEF LSWebs
<1>7. (Places /\ HTTPAged /\ Stages)'
  BY <1>1, CallersStay
<1>8. LSTypes'
  BY <1>1, <1>6 DEF LSInv, LSTypes
<1>9. WebAged'
  BY <1>1, <1>5, <1>6 DEF LSInv, WebAged
<1>10. WebFresh'
  BY <1>1, <1>5, <1>6 DEF LSInv, WebFresh, Active
<1>11. \A g : Closing(g) => Closing(g)'
  BY <1>1, <1>5, <1>6 DEF Closing
<1>12. WebGoes'
  <2>1. \A i \in lsWeb.jobs : i.new = lsWeb.cur \/ i.new \in lsWeb.shut \/ Closing(i.new)'
    BY <1>11 DEF LSInv, WebGoes
  <2>2. \A g \in lsWeb.open : g = lsWeb.cur \/ Closing(g)'
    BY <1>11 DEF LSInv, WebGoes
  <2>3. \A g \in lsWeb'.open : g = lsWeb'.cur \/ Closing(g)'
    BY <1>5, <1>6, <2>1, <2>2
  <2>. QED  BY <1>5, <1>6, <2>1, <2>3 DEF WebGoes
<1>13. WebOne'
  <2>. SUFFICES ASSUME ~lsHist.webCrossed PROVE WebOne'
    BY <1>1 DEF WebOne
  <2>1. lsWeb.jobs = {j} /\ j.new = lsWeb.cur /\ j.new \notin lsWeb.shut /\ lsWeb.open = {}
    BY <1>1 DEF LSInv, WebOne
  <2>2. lsWeb'.jobs = {} /\ lsWeb'.open = IF lsWeb'.failed THEN {} ELSE {lsWeb'.cur}
    BY <1>5, <1>6, <2>1
  <2>. QED  BY <2>2 DEF WebOne
<1>. QED  BY <1>7, <1>8, <1>9, <1>10, <1>12, <1>13 DEF LSInv

\* Every step keeps the invariant.
LEMMA LSStep == LSInv /\ [LSNext]_LSVars => LSInv'
<1>. SUFFICES ASSUME LSInv, [LSNext]_LSVars PROVE LSInv'
  OBVIOUS
<1>1. ASSUME NEW c \in LSCallers, RestartStep(c) PROVE LSInv'
  BY <1>1, LSStops, LSClears, LSRegisters, LSTakes, LSBindsDoH, LSBinds, LSReports, LSRefuses, LSDone DEF RestartStep
<1>2. ASSUME NEW c \in LSCallers, RestartCalled(c) PROVE LSInv'
  BY <1>2, LSCalls
<1>3. ASSUME NEW j \in lsWeb.jobs, WebStops(j) PROVE LSInv'
  BY <1>3, LSWebStops
<1>5. ASSUME NEW j \in lsWeb.jobs, NEW starts \in BOOLEAN, WebStarts(j, starts) PROVE LSInv'
  BY <1>5, LSWebStarts
<1>4. CASE (\E s \in lsOpen : ServeStarts(s)) \/ DoQEnds \/ DrainResults \/ UNCHANGED LSVars
  BY <1>4, LSServes
<1>. QED  BY <1>1, <1>2, <1>3, <1>4, <1>5 DEF LSNext

\* The invariant gives what the component promises.
LEMMA LSImplies == LSInv => ListenersSound
<1>. SUFFICES ASSUME LSInv PROVE ListenersSound
  OBVIOUS
<1>1. LSTypeOK
  <2>1. LSock \subseteq {Sock(p, g) : p \in Protos, g \in 0..LSRestarts}
    <3>. SUFFICES ASSUME NEW s \in LSock PROVE \E p \in Protos, g \in 0..LSRestarts : s = Sock(p, g)
      OBVIOUS
    <3>1. s.p \in Protos /\ s.g \in 0..LSRestarts /\ s = [p |-> s.p, g |-> s.g]
      BY DEF LSock, LSGens
    <3>. QED  BY <3>1 DEF Sock
  <2>2. \A c \in LSCallers : lsOp[c].i \in 0..(Len(LSProtos) + 1)
    BY DEF LSInv, LSTypes, LSOps
  <2>. QED  BY <2>1, <2>2 DEF LSInv, LSTypes, LSTypeOK
<1>2. LSQuiet /\ ~lsHist.raced => AtRest
  BY LSConst DEF LSInv, LSQuiet, Stages, Resting, Active
<1>3. ListenersTracked
  BY <1>2 DEF ListenersTracked, AtRest, Tracked
<1>4. RestartOutcome
  <2>. SUFFICES ASSUME AtRest, lsHist.last.ok
                PROVE  /\ \A p \in Protos : Up(p, lsHist.last.g)
                       /\ \A s \in lsOpen : s.g = lsHist.last.g
    BY <1>2 DEF RestartOutcome, Up
  <2>1. UpTo(Len(LSProtos) + 1, lsHist.last.g) /\ OnlyOf(lsHist.last.g)
    BY DEF AtRest
  <2>2. \A k \in 1..Len(LSProtos) : k < Len(LSProtos) + 1
    BY LSConst
  <2>3. \A k \in 1..Len(LSProtos) : Up(LSProtos[k], lsHist.last.g)
    BY <2>1, <2>2 DEF UpTo
  <2>. QED  BY <2>1, <2>3, LSConst DEF OnlyOf
<1>5. WebServerBack
  BY DEF LSInv, WebOne, WebServerBack
<1>. QED  BY <1>1, <1>3, <1>4, <1>5 DEF ListenersSound

\* For any protocols and any number of Restarts at once: every open socket can
\* be stopped by the next Restart, one that met no other and succeeded left no
\* old socket open, and the web server is back unless its start failed (Start,
\* Restart, Shutdown).
THEOREM ListenersHold == LSSpec => []ListenersSound
<1>1. LSInit => LSInv
  BY LSInitial
<1>2. LSInv /\ [LSNext]_LSVars => LSInv'
  BY LSStep
<1>3. LSInv => ListenersSound
  BY LSImplies
<1>. QED  BY <1>1, <1>2, <1>3, PTL DEF LSSpec

-----------------------------------------------------------------------------
(* Geo data. A finished country's table is loaded from its files, and so   *)
(* is the live blocker once the tables are published, unless the process   *)
(* restarted since. No file is newer than what was downloaded last, and    *)
(* none is on disk before a first download (FilesBehind), which is what    *)
(* makes a country that is left out one without files.                     *)

GRTypes ==
  /\ grRemote \in Nat \ {0}
  /\ grDisk \in [GRCountries -> [Families -> -2..grRemote]]
  /\ grLast \in [GRCountries -> [Families -> 0..grRemote]]
  /\ grJob \in [GRCountries -> {"idle", "wait", "v4", "v6", "done"}]
  /\ grTables \in [GRCountries -> [Families -> -2..grRemote]]
  /\ grLive \in [GRCountries -> [Families -> -2..grRemote]]
  /\ grStatus \in [GRCountries -> {"none", "error", "loaded"}]
  /\ grHist \in [runs : Nat, crashed : BOOLEAN]
  /\ Fetching <= GRParallel

(* A refresh is of every country, or of none.                              *)
AllOrNone == (\E c \in GRCountries : grJob[c] = "idle") => grJob = NoRefresh

FilesBehind ==
  \A c \in GRCountries, f \in Families :
    /\ grDisk[c][f] <= grLast[c][f] /\ grDisk[c][f] # -1
    /\ grLast[c][f] = 0 => grDisk[c][f] = 0

(* What a country's files offered for its v4 list, and for both.           *)
Building ==
  \A c \in GRCountries :
    /\ grJob[c] = "v6" => grTables[c]["v4"] \in {grLast[c]["v4"], grDisk[c]["v4"]}
    /\ grJob[c] = "done" => LoadedFrom(grTables[c], grStatus[c], c)

LiveBehind == \A c \in GRCountries, f \in Families : grLive[c][f] <= grLast[c][f]

GRInv == GRTypes /\ AllOrNone /\ FilesBehind /\ Building /\ LiveBehind /\ LastKnownEnforced

\* The values that stand for no data, for no country and for a torn copy.
LEMMA Ranges == ASSUME GRTypes
  PROVE /\ grRemote \in Nat \ {0} /\ TornCopy = -2
        /\ NoCountry \in [Families -> -2..grRemote] /\ NoData \in [Families -> 0..grRemote]
        /\ NoData \in [Families -> -2..grRemote]
        /\ NoCountry["v4"] = -1 /\ NoCountry["v6"] = -1 /\ NoData["v4"] = 0 /\ NoData["v6"] = 0
        /\ NoCountry /= NoData
BY DEF GRTypes, NoCountry, NoData, Families, TornCopy

\* A country's data is never newer than what was downloaded for it last.
LEMMA LoadedBehind ==
  ASSUME GRTypes, FilesBehind, NEW c \in GRCountries, NEW f \in Families,
         NEW loaded \in [Families -> -2..grRemote], NEW s, LoadedFrom(loaded, s, c)
  PROVE  loaded[f] <= grLast[c][f]
<1>1. grLast[c][f] \in Nat /\ grDisk[c][f] \in Int /\ grDisk[c][f] <= grLast[c][f]
  BY DEF GRTypes, FilesBehind
<1>2. CASE loaded = NoCountry
  BY <1>1, <1>2, Ranges DEF Families
<1>3. CASE loaded /= NoCountry
  BY <1>1, <1>3 DEF LoadedFrom
<1>. QED  BY <1>2, <1>3

\* The countries being downloaded are finitely many.
LEMMA FetchingFinite ==
  /\ IsFiniteSet({c \in GRCountries : grJob[c] \in Families}) /\ Fetching \in Nat
  /\ IsFiniteSet({c \in GRCountries : grJob'[c] \in Families}) /\ Fetching' \in Nat
<1>1. {c \in GRCountries : grJob[c] \in Families} \subseteq GRCountries
  OBVIOUS
<1>2. {c \in GRCountries : grJob'[c] \in Families} \subseteq GRCountries
  OBVIOUS
<1>. QED  BY <1>1, <1>2, GRAssumption, FS_Subset, FS_CardinalityType DEF Fetching

\* A refresh that downloads nothing is within its limit.
LEMMA NoneFetching ==
  ASSUME \A c \in GRCountries : grJob'[c] \notin Families
  PROVE  Fetching' <= GRParallel
<1>1. {c \in GRCountries : grJob'[c] \in Families} = {}
  OBVIOUS
<1>. QED  BY <1>1, FS_EmptySet, GRAssumption DEF Fetching

\* The invariant holds in the initial states.
LEMMA GRInitial == GRInit => GRInv
<1>. SUFFICES ASSUME GRInit PROVE GRInv
  OBVIOUS
<1>1. {c \in GRCountries : grJob[c] \in Families} = {}
  BY DEF GRInit, NoRefresh, Families
<1>2. Fetching <= GRParallel
  BY <1>1, FS_EmptySet, GRAssumption DEF Fetching
<1>3. GRTypes
  BY <1>2 DEF GRInit, GRTypes, NoRefresh, NoCountry, NoData
<1>4. FilesBehind /\ LiveBehind
  BY DEF GRInit, FilesBehind, LiveBehind, NoCountry, NoData
<1>. QED  BY <1>3, <1>4 DEF GRInit, GRInv, AllOrNone, Building, LastKnownEnforced, NoRefresh

\* A function into a set is one into a larger set.
LEMMA Widen ==
  ASSUME NEW S, NEW T, S \subseteq T, NEW g \in [Families -> S]
  PROVE  g \in [Families -> T]
OBVIOUS

\* New versions are published upstream.
LEMMA GRPublished == GRInv /\ RemotePublishes => GRInv'
<1>. SUFFICES ASSUME GRInv, RemotePublishes PROVE GRInv'
  OBVIOUS
<1>1. grRemote' \in Nat \ {0} /\ 0..grRemote \subseteq 0..grRemote' /\ -2..grRemote \subseteq -2..grRemote'
  BY DEF GRInv, GRTypes, RemotePublishes
<1>2. grLast \in [GRCountries -> [Families -> 0..grRemote']]
  <2>1. ASSUME NEW c \in GRCountries PROVE grLast[c] \in [Families -> 0..grRemote']
    BY <1>1, Widen DEF GRInv, GRTypes
  <2>. QED  BY <2>1 DEF GRInv, GRTypes
<1>3. /\ grDisk \in [GRCountries -> [Families -> -2..grRemote']]
      /\ grTables \in [GRCountries -> [Families -> -2..grRemote']]
      /\ grLive \in [GRCountries -> [Families -> -2..grRemote']]
  <2>1. ASSUME NEW c \in GRCountries
        PROVE  /\ grDisk[c] \in [Families -> -2..grRemote'] /\ grTables[c] \in [Families -> -2..grRemote']
               /\ grLive[c] \in [Families -> -2..grRemote']
    <3>1. /\ grDisk[c] \in [Families -> -2..grRemote] /\ grTables[c] \in [Families -> -2..grRemote]
          /\ grLive[c] \in [Families -> -2..grRemote]
      BY DEF GRInv, GRTypes
    <3>. QED  BY <1>1, <3>1, Widen
  <2>. QED  BY <2>1 DEF GRInv, GRTypes
<1>4. Fetching' = Fetching
  BY DEF Fetching, RemotePublishes
<1>5. GRTypes'
  BY <1>1, <1>2, <1>3, <1>4 DEF GRInv, GRTypes, RemotePublishes
<1>. QED  BY <1>5 DEF GRInv, AllOrNone, FilesBehind, Building, LiveBehind, LastKnownEnforced, LoadedFrom, RemotePublishes

\* A refresh of every country begins.
LEMMA GRBegins == GRInv /\ GeoRefreshBegins => GRInv'
<1>. SUFFICES ASSUME GRInv, GeoRefreshBegins PROVE GRInv'
  OBVIOUS
<1>1. \A c \in GRCountries : grJob'[c] = "wait"
  BY DEF GeoRefreshBegins
<1>2. Fetching' <= GRParallel
  BY <1>1, NoneFetching DEF Families
<1>3. grHist' \in [runs : Nat, crashed : BOOLEAN]
  BY DEF GRInv, GRTypes, GeoRefreshBegins
<1>4. GRTypes'
  BY <1>2, <1>3, Ranges DEF GRInv, GRTypes, GeoRefreshBegins
<1>5. grJob' = NoRefresh => GRCountries = {}
  BY <1>1 DEF NoRefresh
<1>6. FilesBehind' /\ LiveBehind'
  BY DEF GRInv, FilesBehind, LiveBehind, GeoRefreshBegins
<1>. QED  BY <1>1, <1>4, <1>5, <1>6 DEF GRInv, AllOrNone, Building, LastKnownEnforced

\* A country's download starts, within the limit of those at once.
LEMMA GRStarts == ASSUME GRInv, NEW c \in GRCountries, CountryStarts(c) PROVE GRInv'
<1>1. grJob'[c] = "v4" /\ grJob[c] = "wait" /\ \A o \in GRCountries \ {c} : grJob'[o] = grJob[o]
  BY DEF GRInv, GRTypes, CountryStarts
<1>2. {o \in GRCountries : grJob'[o] \in Families} = {o \in GRCountries : grJob[o] \in Families} \cup {c}
  BY <1>1 DEF Families
<1>3. c \notin {o \in GRCountries : grJob[o] \in Families}
  BY <1>1 DEF Families
<1>4. Fetching' = Fetching + 1
  BY <1>2, <1>3, FetchingFinite, FS_AddElement DEF Fetching
<1>5. Fetching' <= GRParallel
  BY <1>4, FetchingFinite, GRAssumption DEF CountryStarts
<1>6. GRTypes'
  BY <1>5 DEF GRInv, GRTypes, CountryStarts
<1>7. AllOrNone' /\ LastKnownEnforced'
  BY <1>1 DEF GRInv, AllOrNone, LastKnownEnforced, NoRefresh
<1>8. Building'
  BY <1>1 DEF GRInv, Building, LoadedFrom, CountryStarts
<1>. QED  BY <1>6, <1>7, <1>8 DEF GRInv, FilesBehind, LiveBehind, CountryStarts

(* A country's files and table while it fetches the file of family f.      *)
LEMMA FileFetched ==
  ASSUME GRInv, NEW c \in GRCountries, NEW f \in Families, NEW ok \in BOOLEAN,
         NEW saved \in {"whole", "kept", "torn"}, FetchFile(c, f, ok, saved)
  PROVE  LET data == [grTables[c] EXCEPT ![f] = Fetched(c, f, ok)] IN
         /\ data \in [Families -> -2..grRemote]
         /\ data[f] \in {grLast'[c][f], grDisk'[c][f]} /\ data[f] /= -1
         /\ data[f] = 0 => grDisk'[c][f] = 0
         /\ \A g \in Families \ {f} : data[g] = grTables[c][g]
         /\ grDisk' \in [GRCountries -> [Families -> -2..grRemote]]
         /\ grLast' \in [GRCountries -> [Families -> 0..grRemote]]
         /\ \A o \in GRCountries, g \in Families :
              (o /= c \/ g /= f) => grDisk'[o][g] = grDisk[o][g] /\ grLast'[o][g] = grLast[o][g]
         /\ \A o \in GRCountries \ {c} : grDisk'[o] = grDisk[o] /\ grLast'[o] = grLast[o]
         /\ grLast[c][f] <= grLast'[c][f]
         /\ FilesBehind'
<1>. DEFINE data == [grTables[c] EXCEPT ![f] = Fetched(c, f, ok)]
<1>0. /\ grRemote \in Nat \ {0} /\ grDisk[c] \in [Families -> -2..grRemote] /\ grLast[c] \in [Families -> 0..grRemote]
      /\ grTables[c] \in [Families -> -2..grRemote]
      /\ grDisk[c][f] <= grLast[c][f] /\ grDisk[c][f] # -1 /\ (grLast[c][f] = 0 => grDisk[c][f] = 0)
  BY DEF GRInv, GRTypes, FilesBehind
<1>1. Fetched(c, f, ok) \in -2..grRemote /\ Fetched(c, f, ok) # -1
  BY <1>0 DEF Fetched
<1>2. data \in [Families -> -2..grRemote] /\ data[f] = Fetched(c, f, ok) /\ \A g \in Families \ {f} : data[g] = grTables[c][g]
  BY <1>0, <1>1
<1>3. CASE ok
  <2>. DEFINE p == Persisted(c, f, saved)
  <2>1. p \in -2..grRemote /\ p <= grRemote /\ p # -1
    BY <1>0, Ranges DEF Persisted, GRInv
  <2>2. grDisk' = [grDisk EXCEPT ![c][f] = p] /\ grLast' = [grLast EXCEPT ![c][f] = grRemote]
    BY <1>3 DEF FetchFile
  <2>. HIDE DEF p
  <2>3. /\ grDisk' = [grDisk EXCEPT ![c] = [grDisk[c] EXCEPT ![f] = p]]
        /\ grLast' = [grLast EXCEPT ![c] = [grLast[c] EXCEPT ![f] = grRemote]]
    BY <2>2
  <2>4. [grDisk[c] EXCEPT ![f] = p] \in [Families -> -2..grRemote] /\ [grLast[c] EXCEPT ![f] = grRemote] \in [Families -> 0..grRemote]
    BY <1>0, <2>1
  <2>5. grDisk' \in [GRCountries -> [Families -> -2..grRemote]] /\ grLast' \in [GRCountries -> [Families -> 0..grRemote]]
    BY <2>3, <2>4 DEF GRInv, GRTypes
  <2>6. /\ grDisk'[c] = [grDisk[c] EXCEPT ![f] = p] /\ grLast'[c] = [grLast[c] EXCEPT ![f] = grRemote]
        /\ \A o \in GRCountries \ {c} : grDisk'[o] = grDisk[o] /\ grLast'[o] = grLast[o]
    BY <2>3 DEF GRInv, GRTypes
  <2>7. grDisk'[c][f] = p /\ grLast'[c][f] = grRemote /\ Fetched(c, f, ok) = grRemote
    BY <1>0, <1>3, <2>6 DEF Fetched
  <2>8. \A g \in Families \ {f} : grDisk'[c][g] = grDisk[c][g] /\ grLast'[c][g] = grLast[c][g]
    BY <1>0, <2>6
  <2>9. FilesBehind'
    <3>. SUFFICES ASSUME NEW o \in GRCountries, NEW g \in Families
                  PROVE  /\ grDisk'[o][g] <= grLast'[o][g] /\ grDisk'[o][g] # -1
                         /\ grLast'[o][g] = 0 => grDisk'[o][g] = 0
      BY DEF FilesBehind
    <3>1. CASE o = c /\ g = f
      BY <1>0, <2>1, <2>7, <3>1
    <3>2. CASE ~(o = c /\ g = f)
      <4>1. grDisk'[o][g] = grDisk[o][g] /\ grLast'[o][g] = grLast[o][g]
        BY <2>6, <2>8, <3>2
      <4>2. grDisk[o][g] <= grLast[o][g] /\ grDisk[o][g] # -1 /\ (grLast[o][g] = 0 => grDisk[o][g] = 0)
        BY DEF GRInv, FilesBehind
      <4>. QED  BY <4>1, <4>2
    <3>. QED  BY <3>1, <3>2
  <2>10. \A o \in GRCountries, g \in Families :
           (o /= c \/ g /= f) => grDisk'[o][g] = grDisk[o][g] /\ grLast'[o][g] = grLast[o][g]
    BY <2>6, <2>8
  <2>11. grLast[c][f] <= grLast'[c][f] /\ grRemote # 0
    BY <1>0, <2>7
  <2>. QED  BY <1>1, <1>2, <2>5, <2>6, <2>7, <2>9, <2>10, <2>11
<1>4. CASE ~ok
  <2>1. grDisk' = grDisk /\ grLast' = grLast
    BY <1>4 DEF FetchFile
  <2>2. Fetched(c, f, ok) = grDisk'[c][f] /\ grLast[c][f] <= grLast'[c][f]
    BY <1>0, <1>4, <2>1 DEF Fetched
  <2>3. FilesBehind'
    BY <2>1 DEF GRInv, FilesBehind
  <2>. QED  BY <1>1, <1>2, <2>1, <2>2, <2>3 DEF GRInv, GRTypes
<1>. QED  BY <1>3, <1>4

\* A country is left out exactly if it has no data.
LEMMA LeftOut ==
  ASSUME GRTypes, NEW data \in [Families -> -2..grRemote], data["v4"] /= -1
  PROVE  /\ CountryLoaded(data) \in [Families -> -2..grRemote]
         /\ CountryLoaded(data) = NoCountry <=> data = NoData
         /\ CountryLoaded(data) /= NoCountry => CountryLoaded(data) = data
BY Ranges DEF CountryLoaded

\* One family's download ends, in a file, in its old file or in nothing.
LEMMA GRFetches ==
  ASSUME GRInv, NEW c \in GRCountries, NEW f \in Families, NEW ok \in BOOLEAN,
         NEW saved \in {"whole", "kept", "torn"}, FetchFile(c, f, ok, saved)
  PROVE  GRInv'
<1>. DEFINE data == [grTables[c] EXCEPT ![f] = Fetched(c, f, ok)]
            table == IF f = "v4" THEN data ELSE CountryLoaded(data)
            next == IF f = "v4" THEN "v6" ELSE "done"
<1>1. /\ data \in [Families -> -2..grRemote]
      /\ data[f] \in {grLast'[c][f], grDisk'[c][f]} /\ data[f] /= -1
      /\ data[f] = 0 => grDisk'[c][f] = 0
      /\ \A g \in Families \ {f} : data[g] = grTables[c][g]
      /\ grDisk' \in [GRCountries -> [Families -> -2..grRemote]]
      /\ grLast' \in [GRCountries -> [Families -> 0..grRemote]]
      /\ \A o \in GRCountries, g \in Families :
           (o /= c \/ g /= f) => grDisk'[o][g] = grDisk[o][g] /\ grLast'[o][g] = grLast[o][g]
      /\ \A o \in GRCountries \ {c} : grDisk'[o] = grDisk[o] /\ grLast'[o] = grLast[o]
      /\ grLast[c][f] <= grLast'[c][f]
      /\ FilesBehind'
  BY FileFetched
<1>2. /\ grJob[c] = f /\ grJob' = [grJob EXCEPT ![c] = next] /\ grTables' = [grTables EXCEPT ![c] = table]
      /\ grRemote' = grRemote /\ grLive' = grLive /\ grHist' = grHist
      /\ f = "v4" => grStatus' = grStatus
      /\ f = "v6" => grStatus' = [grStatus EXCEPT ![c] = IF CountryLoaded(data) = NoCountry THEN "error" ELSE "loaded"]
  BY DEF FetchFile, Families
<1>4. next \in {"v6", "done"} /\ (f = "v4" => next = "v6") /\ (f = "v6" => next = "done") /\ f \in {"v4", "v6"}
  BY DEF Families
<1>5. /\ grJob'[c] = next /\ \A o \in GRCountries \ {c} : grJob'[o] = grJob[o]
      /\ grTables'[c] = table /\ \A o \in GRCountries \ {c} : grTables'[o] = grTables[o]
      /\ \A o \in GRCountries \ {c} : grStatus'[o] = grStatus[o]
  BY <1>2, <1>4 DEF GRInv, GRTypes
<1>6. Fetching' <= GRParallel
  <2>1. {o \in GRCountries : grJob'[o] \in Families} \subseteq {o \in GRCountries : grJob[o] \in Families}
    BY <1>2, <1>5
  <2>2. Fetching' <= Fetching
    BY <2>1, FetchingFinite, FS_Subset DEF Fetching
  <2>. QED  BY <2>2, FetchingFinite, GRAssumption DEF GRInv, GRTypes
<1>7. data["v4"] /= -1
  <2>1. CASE f = "v4"
    BY <1>1, <2>1
  <2>2. CASE f = "v6"
    <3>1. data["v4"] = grTables[c]["v4"] /\ grTables[c]["v4"] \in {grLast[c]["v4"], grDisk[c]["v4"]}
      BY <1>1, <1>2, <2>2 DEF GRInv, Building, Families
    <3>2. grLast[c]["v4"] \in Nat /\ grDisk[c]["v4"] # -1
      BY DEF GRInv, GRTypes, FilesBehind, Families
    <3>. QED  BY <3>1, <3>2
  <2>. QED  BY <1>4, <2>1, <2>2
<1>8. /\ CountryLoaded(data) \in [Families -> -2..grRemote]
      /\ CountryLoaded(data) = NoCountry <=> data = NoData
      /\ CountryLoaded(data) /= NoCountry => CountryLoaded(data) = data
  BY <1>1, <1>7, LeftOut DEF GRInv
<1>9. GRTypes'
  <2>1. table \in [Families -> -2..grRemote]
    BY <1>1, <1>8
  <2>2. grStatus' \in [GRCountries -> {"none", "error", "loaded"}]
    BY <1>2, <1>4 DEF GRInv, GRTypes
  <2>. HIDE DEF table, next
  <2>3. grTables' \in [GRCountries -> [Families -> -2..grRemote]] /\ grJob' \in [GRCountries -> {"idle", "wait", "v4", "v6", "done"}]
    BY <1>2, <1>4, <2>1 DEF GRInv, GRTypes
  <2>. QED  BY <1>1, <1>2, <1>6, <2>2, <2>3 DEF GRInv, GRTypes
<1>10. AllOrNone' /\ LastKnownEnforced'
  BY <1>2, <1>4, <1>5 DEF GRInv, AllOrNone, LastKnownEnforced, NoRefresh
<1>11. LiveBehind'
  <2>. SUFFICES ASSUME NEW o \in GRCountries, NEW g \in Families PROVE grLive'[o][g] <= grLast'[o][g]
    BY DEF LiveBehind
  <2>1. grLive[o][g] <= grLast[o][g] /\ grLive[o][g] \in Int /\ grLast[o][g] \in Int /\ grLast'[o][g] \in Int
    BY <1>1 DEF GRInv, GRTypes, LiveBehind
  <2>2. grLast[o][g] <= grLast'[o][g]
    BY <1>1, <2>1
  <2>. QED  BY <1>2, <2>1, <2>2
<1>12. Building'
  <2>. SUFFICES ASSUME NEW o \in GRCountries
                PROVE  /\ grJob'[o] = "v6" => grTables'[o]["v4"] \in {grLast'[o]["v4"], grDisk'[o]["v4"]}
                       /\ grJob'[o] = "done" => LoadedFrom(grTables[o], grStatus[o], o)'
    BY DEF Building
  <2>1. CASE o /= c
    <3>1. /\ grJob'[o] = grJob[o] /\ grTables'[o] = grTables[o] /\ grStatus'[o] = grStatus[o]
          /\ grDisk'[o] = grDisk[o] /\ grLast'[o] = grLast[o]
      BY <1>1, <1>5, <2>1
    <3>2. /\ grJob[o] = "v6" => grTables[o]["v4"] \in {grLast[o]["v4"], grDisk[o]["v4"]}
          /\ grJob[o] = "done" => LoadedFrom(grTables[o], grStatus[o], o)
      BY DEF GRInv, Building
    <3>. QED  BY <3>1, <3>2 DEF LoadedFrom
  <2>2. CASE o = c /\ f = "v4"
    BY <1>1, <1>4, <1>5, <2>2
  <2>3. CASE o = c /\ f = "v6"
    <3>1. grTables'[c] = CountryLoaded(data) /\ grStatus'[c] = IF CountryLoaded(data) = NoCountry THEN "error" ELSE "loaded"
      BY <1>2, <1>5, <2>3 DEF GRInv, GRTypes
    <3>2. /\ data["v4"] = grTables[c]["v4"] /\ grTables[c]["v4"] \in {grLast[c]["v4"], grDisk[c]["v4"]}
          /\ grLast'[c]["v4"] = grLast[c]["v4"] /\ grDisk'[c]["v4"] = grDisk[c]["v4"]
      BY <1>1, <1>2, <2>3 DEF GRInv, Building, Families
    <3>3. data["v4"] = 0 => grDisk'[c]["v4"] = 0
      BY <3>2 DEF GRInv, FilesBehind, Families
    <3>4. data = NoData => grDisk'[c] = NoData
      <4>. SUFFICES ASSUME data = NoData PROVE grDisk'[c] = NoData
        OBVIOUS
      <4>1. data["v4"] = 0 /\ data["v6"] = 0
        BY Ranges DEF GRInv
      <4>2. grDisk'[c]["v4"] = 0 /\ grDisk'[c]["v6"] = 0
        BY <1>1, <2>3, <3>3, <4>1
      <4>. QED  BY <1>1, <4>2 DEF NoData, Families
    <3>5. \A g \in Families : data[g] \in {grLast'[c][g], grDisk'[c][g]}
      BY <1>1, <2>3, <3>2 DEF Families
    <3>. HIDE DEF data
    <3>6. LoadedFrom(grTables[c], grStatus[c], c)'
      BY <1>8, <3>1, <3>4, <3>5 DEF LoadedFrom
    <3>. QED  BY <1>4, <1>5, <2>3, <3>6
  <2>. QED  BY <1>4, <2>1, <2>2, <2>3
<1>. QED  BY <1>1, <1>9, <1>10, <1>11, <1>12 DEF GRInv

\* The finished tables become the live blocker.
LEMMA GRPublishes == GRInv /\ RefreshPublishes => GRInv'
<1>. SUFFICES ASSUME GRInv, RefreshPublishes PROVE GRInv'
  OBVIOUS
<1>1. \A c \in GRCountries : grJob'[c] = "idle" /\ grJob[c] = "done"
  BY DEF RefreshPublishes, NoRefresh
<1>2. Fetching' <= GRParallel
  BY <1>1, NoneFetching DEF Families
<1>3. grHist' \in [runs : Nat, crashed : BOOLEAN]
  BY DEF GRInv, GRTypes, RefreshPublishes
<1>4. GRTypes'
  BY <1>2, <1>3 DEF GRInv, GRTypes, RefreshPublishes, NoRefresh
<1>5. ASSUME NEW c \in GRCountries
      PROVE  LoadedFrom(grTables[c], grStatus[c], c) /\ \A f \in Families : grTables[c][f] <= grLast[c][f]
  <2>1. LoadedFrom(grTables[c], grStatus[c], c)
    BY <1>1 DEF GRInv, Building
  <2>. QED  BY <2>1, LoadedBehind DEF GRInv, GRTypes
<1>6. LiveBehind'
  BY <1>5 DEF LiveBehind, RefreshPublishes
<1>7. LastKnownEnforced'
  BY <1>5 DEF LastKnownEnforced, LoadedFrom, RefreshPublishes
<1>8. Building' /\ AllOrNone'
  BY <1>1 DEF Building, AllOrNone, RefreshPublishes
<1>. QED  BY <1>4, <1>6, <1>7, <1>8 DEF GRInv, FilesBehind, RefreshPublishes

\* A restart: the live blocker is lost, the files are kept, but those being
\* written.
LEMMA GRBoots == ASSUME GRInv, NEW cut \in SUBSET GRCountries, GRRestarts(cut) PROVE GRInv'
<1>1. \A c \in GRCountries : grJob'[c] = "idle" /\ grLive'[c] = NoCountry
  BY DEF GRRestarts, NoRefresh
<1>2. Fetching' <= GRParallel
  BY <1>1, NoneFetching DEF Families
<1>3. grHist' \in [runs : Nat, crashed : BOOLEAN] /\ grHist'.crashed
  BY DEF GRInv, GRTypes, GRRestarts
<1>4. ASSUME NEW c \in GRCountries, NEW f \in Families
      PROVE  \/ grDisk'[c][f] = grDisk[c][f] /\ grLast'[c][f] = grLast[c][f]
             \/ grDisk'[c][f] = -2 /\ grLast'[c][f] = grRemote
  BY Ranges DEF GRRestarts, GRInv
<1>5. /\ grDisk' \in [GRCountries -> [Families -> -2..grRemote]]
      /\ grLast' \in [GRCountries -> [Families -> 0..grRemote]]
  BY Ranges DEF GRRestarts, GRInv, GRTypes
<1>6. GRTypes'
  BY <1>2, <1>3, <1>5, Ranges DEF GRInv, GRTypes, GRRestarts, NoRefresh
<1>7. FilesBehind'
  <2>. SUFFICES ASSUME NEW c \in GRCountries, NEW f \in Families
                PROVE  /\ grDisk'[c][f] <= grLast'[c][f] /\ grDisk'[c][f] # -1
                       /\ grLast'[c][f] = 0 => grDisk'[c][f] = 0
    BY DEF FilesBehind
  <2>1. grRemote \in Nat \ {0}
    BY DEF GRInv, GRTypes
  <2>. QED  BY <1>4, <2>1 DEF GRInv, FilesBehind
<1>8. LiveBehind'
  BY <1>1, <1>5, Ranges DEF LiveBehind, NoCountry, GRInv, GRTypes
<1>9. Building' /\ LastKnownEnforced' /\ AllOrNone'
  BY <1>1, <1>3 DEF Building, LastKnownEnforced, AllOrNone, GRRestarts
<1>. QED  BY <1>6, <1>7, <1>8, <1>9 DEF GRInv

\* Every step keeps the invariant.
LEMMA GRStep == GRInv /\ [GRNext]_GRVars => GRInv'
<1>. SUFFICES ASSUME GRInv, [GRNext]_GRVars PROVE GRInv'
  OBVIOUS
<1>1. CASE UNCHANGED GRVars
  BY <1>1 DEF GRInv, GRTypes, AllOrNone, FilesBehind, Building, LiveBehind, LastKnownEnforced, LoadedFrom,
              Fetching, GRVars
<1>2. CASE RemotePublishes \/ GeoRefreshBegins \/ RefreshPublishes
  BY <1>2, GRPublished, GRBegins, GRPublishes
<1>3. ASSUME NEW cut \in SUBSET GRCountries, GRRestarts(cut) PROVE GRInv'
  BY <1>3, GRBoots
<1>4. ASSUME NEW c \in GRCountries, CountryStarts(c) PROVE GRInv'
  BY <1>4, GRStarts
<1>5. ASSUME NEW c \in GRCountries, NEW f \in Families, NEW ok \in BOOLEAN,
             NEW saved \in {"whole", "kept", "torn"}, FetchFile(c, f, ok, saved)
      PROVE  GRInv'
  BY <1>5, GRFetches
<1>. QED  BY <1>1, <1>2, <1>3, <1>4, <1>5 DEF GRNext

\* The invariant gives what the component promises.
LEMMA GeoKeptNow == GRInv => GeoKept
<1>. SUFFICES ASSUME GRInv PROVE GeoKept
  OBVIOUS
<1>1. grRemote \in Nat /\ TornCopy = -2
  BY Ranges DEF GRInv
<1>2. ASSUME NEW c \in GRCountries, NEW f \in Families
      PROVE  grDisk[c][f] \in (0..grRemote) \cup {TornCopy} /\ grLive[c][f] \in (-1..grRemote) \cup {TornCopy}
  <2>1. grDisk[c][f] \in -2..grRemote /\ grDisk[c][f] # -1 /\ grLive[c][f] \in -2..grRemote
    BY DEF GRInv, GRTypes, FilesBehind
  <2>. QED  BY <1>1, <2>1
<1>. QED  BY <1>2 DEF GRInv, GRTypes, GRTypeOK, GeoKept

\* For any number of countries, downloads at once, versions and restarts, with
\* downloads and cache writes that fail and crashes that cut a write: after a
\* refresh a country is left out only if it has no file, and is otherwise
\* enforced with what was last downloaded or, where the last write of a file
\* did not complete, with that file as it is (fetchCountries, buildGeo).
THEOREM GeoIsKept == GRSpec => []GeoKept
<1>1. GRInit => GRInv
  BY GRInitial
<1>2. GRInv /\ [GRNext]_GRVars => GRInv'
  BY GRStep
<1>3. GRInv => GeoKept
  BY GeoKeptNow
<1>. QED  BY <1>1, <1>2, <1>3, PTL DEF GRSpec

\* A refresh never takes a family's data out of the live blocker, and never
\* puts an older version there, if the last write of its file completed.
THEOREM GeoNeverForgets == GRSpec => NeverForgets
<1>. DEFINE StaysLive == ~grHist'.crashed
              => \A c \in GRCountries, f \in Families :
                   (grLive[c][f] > 0 /\ grDisk[c][f] = grLast[c][f]) => grLive'[c][f] >= grLive[c][f]
<1>1. ASSUME GRInv, [GRNext]_GRVars, ~grHist'.crashed, NEW c \in GRCountries, NEW f \in Families,
             grLive[c][f] > 0, grDisk[c][f] = grLast[c][f]
      PROVE  grLive'[c][f] >= grLive[c][f]
  <2>0. grLive[c][f] \in Int /\ grLast[c][f] \in Int /\ grLive[c][f] <= grLast[c][f]
    BY <1>1 DEF GRInv, GRTypes, LiveBehind
  <2>1. CASE RefreshPublishes
    <3>1. grJob[c] = "done" /\ grLive' = grTables
      BY <2>1 DEF RefreshPublishes
    <3>2. LoadedFrom(grTables[c], grStatus[c], c)
      BY <1>1, <3>1 DEF GRInv, Building
    <3>3. grDisk[c] /= NoData
      BY <1>1, <2>0 DEF NoData
    <3>4. grTables[c][f] = grLast[c][f]
      BY <1>1, <3>2, <3>3 DEF LoadedFrom
    <3>. QED  BY <2>0, <3>1, <3>4
  <2>2. ASSUME NEW cut \in SUBSET GRCountries, GRRestarts(cut) PROVE FALSE
    BY <1>1, <2>2 DEF GRRestarts
  <2>3. CASE grLive' = grLive
    BY <2>0, <2>3
  <2>. QED  BY <1>1, <2>1, <2>2, <2>3, ZenonT(60) DEF GRNext, RemotePublishes, GeoRefreshBegins, CountryStarts, FetchFile, GRVars
<1>2. GRInit => GRInv
  BY GRInitial
<1>3. GRInv /\ [GRNext]_GRVars => GRInv' /\ [StaysLive]_GRVars
  BY <1>1, GRStep
<1>. QED  BY <1>2, <1>3, PTL DEF GRSpec, NeverForgets

-----------------------------------------------------------------------------
(* Updates. RunningKept and AnnouncedIsInPlace need to know how far an     *)
(* install of "self" has come (SelfInstalls), SidecarNotAhead how far one  *)
(* of cloudflared has (SidecarClaim), and both that there is one at a      *)
(* time. UpdatesAreAtomic maps the files to the image that is in place, or *)
(* would be after the previous one is put back.                            *)

Downloading == {"download", "backup"}
UPCall == [pc : Downloading \cup {"swap", "record", "schedule", "done"}, want : Nat \ {0}, at : Nat]

UPTypes ==
  /\ UPTypeOK
  /\ upReq \in [UPCallers -> UPCall \cup {NoCall}]
  /\ \A r \in UPCallers : upReq[r] /= NoCall =>
       /\ upReq[r].want <= upLatest /\ upReq[r].at < UPInstalls
       /\ upReq[r].pc = "record" => upTool = "cf"
       /\ upReq[r].pc = "schedule" => upTool = "self"
       /\ upReq[r].pc = "done" => upTool = "dfly"
       /\ upTool /= "self" => upReq[r].at = 0
  /\ upHist \in [begun : 0..UPInstalls, crossed : BOOLEAN, unmoved : BOOLEAN, retried : BOOLEAN]
  /\ upSelf <= upHist.begun
  /\ upTool /= "self" => upRun = 0 /\ upPending = 0 /\ upSelf = 0

(* One install at a time, unless two of cloudflared crossed.               *)
OneInstall ==
  upTool /= "cf" \/ ~upHist.crossed =>
    \A r, o \in UPCallers : upReq[r] /= NoCall /\ upReq[o] /= NoCall => r = o

(* An install of "self" works on the image that runs, for a newer one.     *)
SelfInstalls ==
  upTool = "self" =>
    /\ RunningKept /\ AnnouncedIsInPlace
    /\ \A r \in UPCallers : upReq[r] /= NoCall =>
         LET q == upReq[r] IN
         /\ upRun /= 0 /\ upPending = 0 /\ q.want > upRun
         /\ ~upHist.retried => q.at = 0
         /\ q.pc \in Downloading => q.at = upSelf /\ upSelf < upHist.begun
         /\ q.pc = "swap" => q.at + 1 = upSelf /\ upDisk[q.at] = 0
         /\ q.pc = "schedule" => q.at + 1 = upSelf /\ upDisk[q.at] = q.want

(* What cloudflared.version claims is what was moved aside, if anything.   *)
SidecarClaim ==
  upTool = "cf" /\ ~upHist.crossed /\ ~upHist.unmoved =>
    /\ upDisk[0] /= 0 => upSide <= upDisk[0]
    /\ upDisk[0] = 0 /\ upDisk[1] /= 0 => upSide <= upDisk[1]
    /\ \A r \in UPCallers : upReq[r] /= NoCall =>
         /\ upReq[r].pc \in Downloading \cup {"swap"} => upReq[r].want >= upSide
         /\ upReq[r].pc = "swap" => upDisk[0] = 0
         /\ upReq[r].pc = "record" => upDisk[0] = upReq[r].want /\ upSide <= upReq[r].want

UPInv == UPTypes /\ OneInstall /\ SelfInstalls /\ SidecarClaim

\* What a call of Install remembers at each of its steps.
LEMMA CallFacts ==
  ASSUME UPTypes, NEW r \in UPCallers
  PROVE  /\ \A pc \in Downloading \cup {"swap", "record", "schedule", "done"} :
              At(r, pc) => upReq[r] \in UPCall /\ upReq[r] # NoCall /\ upReq[r].pc = pc
         /\ upReq[r] # NoCall => upReq[r] \in UPCall
         /\ NoCall \notin UPCall /\ NoCall.pc = "idle"
<1>1. NoCall.pc = "idle" /\ NoCall \notin UPCall
  BY DEF NoCall, UPCall, Downloading
<1>. QED  BY <1>1 DEF UPTypes, At, Downloading, UPCall

\* The invariant holds in the initial states.
LEMMA UPInitial == UPInit => UPInv
BY UPAssumption DEF UPInit, UPInv, UPTypes, UPTypeOK, OneInstall, SelfInstalls, SidecarClaim, RunningKept,
   AnnouncedIsInPlace, Names, NoCall

(* A request that ends leaves the others and the images alone.             *)
LEMMA RequestEnds ==
  ASSUME UPInv, NEW r \in UPCallers, upReq[r] # NoCall, Ends(r),
         UNCHANGED <<upTool, upLatest, upDisk, upSide, upSelf, upRun, upPending, upHist>>
  PROVE  UPInv'
<1>1. UPTypes'
  BY DEF UPInv, UPTypes, UPTypeOK, Ends
<1>2. OneInstall'
  BY DEF UPInv, UPTypes, OneInstall, Ends
<1>3. SelfInstalls'
  BY DEF UPInv, UPTypes, SelfInstalls, RunningKept, AnnouncedIsInPlace, Ends
<1>4. SidecarClaim'
  BY DEF UPInv, UPTypes, SidecarClaim, Ends
<1>. QED  BY <1>1, <1>2, <1>3, <1>4 DEF UPInv

\* A newer release is published.
LEMMA UPPublished == UPInv /\ ReleasePublished => UPInv'
<1>. SUFFICES ASSUME UPInv, ReleasePublished PROVE UPInv'
  OBVIOUS
<1>1. upLatest \in Nat /\ upLatest' = upLatest + 1 /\ upLatest' \in 1..UPReleases
  BY UPAssumption DEF UPInv, UPTypes, UPTypeOK, ReleasePublished
<1>2. UPTypeOK'
  BY <1>1 DEF UPInv, UPTypes, UPTypeOK, ReleasePublished
<1>3. UPTypes'
  BY <1>1, <1>2 DEF UPInv, UPTypes, UPCall, ReleasePublished
<1>. QED  BY <1>3 DEF UPInv, OneInstall, SelfInstalls, SidecarClaim, RunningKept, AnnouncedIsInPlace, ReleasePublished

\* Install begins, unless what is installed is new enough.
LEMMA UPBegins == ASSUME UPInv, NEW r \in UPCallers, InstallBegins(r) PROVE UPInv'
<1>. DEFINE q == [pc |-> "download", want |-> upLatest, at |-> IF upTool = "self" THEN upSelf ELSE 0]
<1>0. q \in UPCall /\ q # NoCall /\ q.want = upLatest /\ q.pc = "download" /\ upLatest \in Nat
  BY UPAssumption DEF UPInv, UPTypes, UPTypeOK, UPCall, Downloading, NoCall, Names
<1>1. upReq' = [upReq EXCEPT ![r] = q] /\ upReq[r] = NoCall
  BY DEF InstallBegins
<1>2. upHist' \in [begun : 0..UPInstalls, crossed : BOOLEAN, unmoved : BOOLEAN, retried : BOOLEAN]
      /\ upHist'.begun = upHist.begun + 1 /\ upHist'.crossed = (upHist.crossed \/ Busy)
      /\ upHist'.unmoved = upHist.unmoved /\ upHist'.retried = (upHist.retried \/ (upTool = "self" /\ upSelf # 0))
  <2>. DEFINE b == upHist.crossed \/ Busy
              d == upHist.retried \/ (upTool = "self" /\ upSelf # 0)
  <2>1. b \in BOOLEAN /\ d \in BOOLEAN
    BY DEF Busy, UPInv, UPTypes
  <2>2. upHist' = [upHist EXCEPT !.begun = upHist.begun + 1, !.crossed = b, !.retried = d]
    BY DEF InstallBegins
  <2>3. upHist.begun < UPInstalls
    BY DEF InstallBegins
  <2>. HIDE DEF b, d
  <2>4. /\ upHist' \in [begun : 0..UPInstalls, crossed : BOOLEAN, unmoved : BOOLEAN, retried : BOOLEAN]
        /\ upHist'.begun = upHist.begun + 1 /\ upHist'.crossed = b
        /\ upHist'.unmoved = upHist.unmoved /\ upHist'.retried = d
    <3>1. upHist \in [begun : 0..UPInstalls, crossed : BOOLEAN, unmoved : BOOLEAN, retried : BOOLEAN]
      BY DEF UPInv, UPTypes
    <3>2. upHist.begun + 1 \in 0..UPInstalls
      BY <2>3, <3>1, UPAssumption
    <3>. QED  BY <2>1, <2>2, <3>1, <3>2
  <2>. QED  BY <2>4 DEF b, d
<1>3. UPTypes'
  BY <1>0, <1>1, <1>2, UPAssumption DEF UPInv, UPTypes, UPTypeOK, InstallBegins, Names
<1>4. ~Busy \/ (upTool = "cf" /\ upHist'.crossed)
  BY <1>2 DEF InstallBegins, Admitted, UPInv, UPTypes, UPTypeOK
<1>5. OneInstall'
  BY <1>0, <1>1, <1>2, <1>4 DEF UPInv, UPTypes, OneInstall, Busy, InstallBegins
<1>6. SelfInstalls'
  <2>. SUFFICES ASSUME upTool = "self" PROVE SelfInstalls'
    BY DEF SelfInstalls, InstallBegins
  <2>1. ~Busy /\ upPending = 0 /\ upRun # 0 /\ upLatest > upRun /\ q.at = upSelf
    BY DEF InstallBegins, Admitted, CurrentVersion
  <2>2. RunningKept' /\ AnnouncedIsInPlace'
    BY <2>1 DEF UPInv, SelfInstalls, RunningKept, AnnouncedIsInPlace, InstallBegins
  <2>3. \A o \in UPCallers : upReq'[o] # NoCall => o = r /\ upReq'[o] = q
    BY <1>1, <2>1 DEF UPInv, UPTypes, Busy
  <2>4. upSelf < upHist'.begun /\ (~upHist'.retried => q.at = 0)
    BY <1>2, <2>1, UPAssumption DEF UPInv, UPTypes, UPTypeOK, Names
  <2>5. upRun' = upRun /\ upPending' = upPending /\ upSelf' = upSelf
    BY DEF InstallBegins
  <2>. HIDE DEF q
  <2>. QED  BY <1>0, <2>1, <2>2, <2>3, <2>4, <2>5 DEF SelfInstalls
<1>7. SidecarClaim'
  <2>. SUFFICES ASSUME upTool = "cf", ~upHist.crossed, ~Busy, ~upHist.unmoved PROVE SidecarClaim'
    BY <1>2 DEF SidecarClaim, InstallBegins
  <2>1. upLatest >= upSide
    BY DEF UPInv, UPTypes, UPTypeOK
  <2>2. \A o \in UPCallers : upReq'[o] # NoCall => o = r /\ upReq'[o] = q
    BY <1>1 DEF UPInv, UPTypes, Busy
  <2>. QED  BY <1>0, <2>1, <2>2 DEF SidecarClaim, InstallBegins, UPInv
<1>. QED  BY <1>3, <1>5, <1>6, <1>7 DEF UPInv

\* The release is downloaded and verified.
LEMMA UPDownload == ASSUME UPInv, NEW r \in UPCallers, Download(r) PROVE UPInv'
<1>0. upReq[r] \in UPCall /\ upReq[r] # NoCall /\ upReq[r].pc = "download"
  BY CallFacts DEF UPInv, Download, Downloading
<1>. DEFINE q == [upReq[r] EXCEPT !.pc = "backup"]
<1>1. q \in UPCall /\ q # NoCall /\ q.pc = "backup" /\ q.at = upReq[r].at /\ q.want = upReq[r].want
  BY <1>0 DEF UPCall, Downloading, NoCall
<1>2. upReq' = [upReq EXCEPT ![r] = q]
  BY DEF Download, Goes
<1>. HIDE DEF q
<1>3. UPTypes'
  BY <1>0, <1>1, <1>2 DEF UPInv, UPTypes, UPTypeOK, Download
<1>4. OneInstall'
  BY <1>0, <1>1, <1>2 DEF UPInv, UPTypes, OneInstall, Download
<1>5. SelfInstalls'
  BY <1>0, <1>1, <1>2 DEF UPInv, UPTypes, SelfInstalls, RunningKept, AnnouncedIsInPlace, Download, Downloading
<1>6. SidecarClaim'
  BY <1>0, <1>1, <1>2 DEF UPInv, UPTypes, SidecarClaim, Download, Downloading
<1>. QED  BY <1>3, <1>4, <1>5, <1>6 DEF UPInv

\* A download fails or does not verify, and nothing was touched.
LEMMA UPRefused == ASSUME UPInv, NEW r \in UPCallers, DownloadRefused(r) PROVE UPInv'
BY CallFacts, RequestEnds DEF UPInv, DownloadRefused, Downloading

\* An install ends.
LEMMA UPDone == ASSUME UPInv, NEW r \in UPCallers, Done(r) PROVE UPInv'
BY CallFacts, RequestEnds DEF UPInv, Done

\* The image in place is moved aside as a backup.
LEMMA UPKeeps == ASSUME UPInv, NEW r \in UPCallers, KeepPrevious(r) PROVE UPInv'
<1>0. upReq[r] \in UPCall /\ upReq[r] # NoCall /\ upReq[r].pc = "backup"
  BY CallFacts DEF UPInv, KeepPrevious, Downloading
<1>. DEFINE n == upReq[r].at
            q == [upReq[r] EXCEPT !.pc = "swap"]
<1>1. n \in 0..UPInstalls /\ n \in Names /\ n + 1 \in Names /\ n + 1 # n /\ n \in Nat /\ n < UPInstalls
  BY <1>0, UPAssumption DEF UPInv, UPTypes, UPCall, Names
<1>2. q \in UPCall /\ q # NoCall /\ q.pc = "swap" /\ q.at = n /\ q.want = upReq[r].want
  BY <1>0 DEF UPCall, NoCall
<1>3. upTool # "self" => n = 0
  BY <1>0 DEF UPInv, UPTypes
<1>4. upTool = "self" => n = upSelf /\ upSelf < upHist.begun /\ upRun # 0 /\ upDisk[n] = upRun
  BY <1>0 DEF UPInv, SelfInstalls, RunningKept, Downloading
<1>5. CASE /\ upDisk[n] # 0
           /\ upDisk' = [upDisk EXCEPT ![n + 1] = upDisk[n], ![n] = 0]
           /\ upSelf' = IF upTool = "self" THEN n + 1 ELSE upSelf
           /\ Goes(r, "swap")
           /\ UNCHANGED upHist
  <2>1. upReq' = [upReq EXCEPT ![r] = q]
    BY <1>5 DEF Goes
  <2>. HIDE DEF q
  <2>2. /\ upDisk' \in [Names -> 0..upLatest] /\ upDisk'[n] = 0 /\ upDisk'[n + 1] = upDisk[n]
        /\ \A m \in Names \ {n, n + 1} : upDisk'[m] = upDisk[m]
    BY <1>1, <1>5, UPAssumption DEF UPInv, UPTypes, UPTypeOK
  <2>3. UPTypes'
    <3>1. upSelf' \in Names /\ upSelf' <= upHist.begun
      BY <1>1, <1>4, <1>5, UPAssumption, SMTT(30) DEF UPInv, UPTypes, UPTypeOK, Names
    <3>. QED  BY <1>0, <1>2, <1>5, <2>1, <2>2, <3>1 DEF UPInv, UPTypes, UPTypeOK, KeepPrevious
  <2>4. OneInstall'
    BY <1>0, <1>2, <1>5, <2>1 DEF UPInv, UPTypes, OneInstall, KeepPrevious
  <2>5. SelfInstalls'
    <3>. SUFFICES ASSUME upTool = "self" PROVE SelfInstalls'
      BY DEF SelfInstalls, KeepPrevious
    <3>1. \A o \in UPCallers : upReq'[o] # NoCall => o = r /\ upReq'[o] = q
      BY <1>0, <2>1 DEF UPInv, UPTypes, OneInstall
    <3>2. upPending = 0 /\ q.want > upRun /\ (~upHist.retried => q.at = 0) /\ upSelf' = n + 1
      BY <1>0, <1>2, <1>5 DEF UPInv, SelfInstalls
    <3>3. RunningKept' /\ AnnouncedIsInPlace'
      BY <1>4, <2>2, <3>2 DEF RunningKept, AnnouncedIsInPlace, KeepPrevious
    <3>. QED  BY <1>2, <1>4, <1>5, <2>2, <3>1, <3>2, <3>3 DEF SelfInstalls, KeepPrevious, Downloading
  <2>6. SidecarClaim'
    <3>. SUFFICES ASSUME upTool = "cf", ~upHist.crossed, ~upHist.unmoved PROVE SidecarClaim'
      BY <1>5 DEF SidecarClaim, KeepPrevious
    <3>1. \A o \in UPCallers : upReq'[o] # NoCall => o = r /\ upReq'[o] = q
      BY <1>0, <2>1 DEF UPInv, UPTypes, OneInstall
    <3>2. upSide <= upDisk[0] /\ n = 0 /\ q.want >= upSide
      BY <1>0, <1>2, <1>3, <1>5 DEF UPInv, SidecarClaim, Downloading
    <3>. QED  BY <1>1, <1>2, <2>2, <3>1, <3>2 DEF SidecarClaim, KeepPrevious
  <2>. QED  BY <2>3, <2>4, <2>5, <2>6 DEF UPInv
<1>6. CASE /\ IF upTool = "self" THEN Ends(r) ELSE Goes(r, "swap")
           /\ upHist' = [upHist EXCEPT !.unmoved = @ \/ (upTool # "self" /\ upDisk[n] # 0)]
           /\ UNCHANGED <<upDisk, upSelf>>
  <2>1. CASE upTool = "self"
    <3>1. upHist' = upHist
      BY <1>6, <2>1 DEF UPInv, UPTypes
    <3>. QED  BY <1>0, <1>6, <2>1, <3>1, RequestEnds DEF KeepPrevious
  <2>2. CASE upTool # "self"
    <3>1. upReq' = [upReq EXCEPT ![r] = q]
      BY <1>6, <2>2 DEF Goes
    <3>2. /\ upHist' \in [begun : 0..UPInstalls, crossed : BOOLEAN, unmoved : BOOLEAN, retried : BOOLEAN]
          /\ upHist'.begun = upHist.begun /\ upHist'.crossed = upHist.crossed
          /\ ~upHist'.unmoved => ~upHist.unmoved /\ upDisk[0] = 0
      BY <1>3, <1>6, <2>2 DEF UPInv, UPTypes
    <3>. HIDE DEF q
    <3>3. UPTypes'
      BY <1>0, <1>2, <1>6, <3>1, <3>2 DEF UPInv, UPTypes, UPTypeOK, KeepPrevious
    <3>4. OneInstall'
      BY <1>0, <1>2, <3>1, <3>2 DEF UPInv, UPTypes, OneInstall, KeepPrevious
    <3>5. SelfInstalls'
      BY <2>2 DEF SelfInstalls, KeepPrevious
    <3>6. SidecarClaim'
      BY <1>0, <1>2, <1>6, <3>1, <3>2 DEF UPInv, UPTypes, SidecarClaim, KeepPrevious, Downloading
    <3>. QED  BY <3>3, <3>4, <3>5, <3>6 DEF UPInv
  <2>. QED  BY <2>1, <2>2
<1>. QED  BY <1>5, <1>6 DEF KeepPrevious

\* The download becomes the image in place.
LEMMA UPSwaps == ASSUME UPInv, NEW r \in UPCallers, Swap(r) PROVE UPInv'
<1>0. upReq[r] \in UPCall /\ upReq[r] # NoCall /\ upReq[r].pc = "swap"
  BY CallFacts DEF UPInv, Swap
<1>. DEFINE n == upReq[r].at
            next == CASE upTool = "self" -> "schedule" [] upTool = "cf" -> "record" [] upTool = "dfly" -> "done"
            q == [upReq[r] EXCEPT !.pc = next]
<1>1. n \in Names /\ n \in Nat /\ upReq[r].want \in 1..upLatest /\ upLatest \in Nat
  BY <1>0, UPAssumption DEF UPInv, UPTypes, UPTypeOK, UPCall, Names
<1>2. /\ upTool \in {"self", "cf", "dfly"}
      /\ upTool = "self" => next = "schedule"
      /\ upTool = "cf" => next = "record"
      /\ upTool = "dfly" => next = "done"
  BY DEF UPInv, UPTypes, UPTypeOK
<1>. HIDE DEF next
<1>3. q \in UPCall /\ q # NoCall /\ q.pc = next /\ q.at = n /\ q.want = upReq[r].want
  BY <1>0, <1>2 DEF UPCall, NoCall
<1>4. upReq' = [upReq EXCEPT ![r] = q] /\ upDisk' = [upDisk EXCEPT ![n] = upReq[r].want]
  BY DEF Swap, Goes, next
<1>. HIDE DEF q
<1>5. /\ upDisk' \in [Names -> 0..upLatest] /\ upDisk'[n] = upReq[r].want
      /\ \A m \in Names \ {n} : upDisk'[m] = upDisk[m]
  BY <1>1, <1>4 DEF UPInv, UPTypes, UPTypeOK
<1>6. UPTypes'
  BY <1>0, <1>2, <1>3, <1>4, <1>5 DEF UPInv, UPTypes, UPTypeOK, Swap
<1>7. OneInstall'
  BY <1>0, <1>3, <1>4 DEF UPInv, UPTypes, OneInstall, Swap
<1>8. SelfInstalls'
  <2>. SUFFICES ASSUME upTool = "self" PROVE SelfInstalls'
    BY DEF SelfInstalls, Swap
  <2>1. \A o \in UPCallers : upReq'[o] # NoCall => o = r /\ upReq'[o] = q
    BY <1>0, <1>4 DEF UPInv, UPTypes, OneInstall
  <2>2. /\ upPending = 0 /\ upRun # 0 /\ q.want > upRun /\ (~upHist.retried => q.at = 0) /\ n + 1 = upSelf
        /\ RunningKept
    BY <1>0, <1>3 DEF UPInv, SelfInstalls
  <2>3. upSelf # n /\ upSelf \in Names
    BY <1>1, <2>2 DEF UPInv, UPTypes, UPTypeOK
  <2>4. RunningKept' /\ AnnouncedIsInPlace'
    BY <1>5, <2>2, <2>3 DEF RunningKept, AnnouncedIsInPlace, Swap
  <2>. QED  BY <1>2, <1>3, <1>5, <2>1, <2>2, <2>4 DEF SelfInstalls, Swap, Downloading
<1>9. SidecarClaim'
  <2>. SUFFICES ASSUME upTool = "cf", ~upHist.crossed, ~upHist.unmoved PROVE SidecarClaim'
    BY DEF SidecarClaim, Swap
  <2>1. \A o \in UPCallers : upReq'[o] # NoCall => o = r /\ upReq'[o] = q
    BY <1>0, <1>4 DEF UPInv, UPTypes, OneInstall
  <2>2. n = 0 /\ q.want >= upSide /\ q.pc = "record" /\ upDisk'[0] = q.want /\ upDisk'[0] # 0
    BY <1>0, <1>1, <1>2, <1>3, <1>5 DEF UPInv, UPTypes, SidecarClaim
  <2>. QED  BY <2>1, <2>2 DEF SidecarClaim, Swap, Downloading
<1>. QED  BY <1>6, <1>7, <1>8, <1>9 DEF UPInv

\* The download cannot be moved into place; the backup is put back, if that
\* works.
LEMMA UPSwapFails == ASSUME UPInv, NEW r \in UPCallers, SwapFails(r) PROVE UPInv'
<1>0. upReq[r] \in UPCall /\ upReq[r] # NoCall /\ upReq[r].pc = "swap"
  BY CallFacts DEF UPInv, SwapFails
<1>. DEFINE n == upReq[r].at
<1>1. n \in Names /\ n \in Nat /\ n + 1 \in Names /\ n + 1 # n
  BY <1>0, UPAssumption, SMTT(30) DEF UPInv, UPTypes, UPTypeOK, UPCall, Names
<1>2. CASE UNCHANGED <<upDisk, upSelf>>
  BY <1>0, <1>2, RequestEnds DEF SwapFails
<1>3. CASE /\ upDisk[n + 1] # 0
           /\ upDisk' = [upDisk EXCEPT ![n] = upDisk[n + 1], ![n + 1] = 0]
           /\ upSelf' = IF upTool = "self" THEN n ELSE upSelf
  <2>1. /\ upDisk' \in [Names -> 0..upLatest] /\ upDisk'[n] = upDisk[n + 1] /\ upDisk'[n + 1] = 0
        /\ \A m \in Names \ {n, n + 1} : upDisk'[m] = upDisk[m]
    BY <1>1, <1>3 DEF UPInv, UPTypes, UPTypeOK
  <2>2. upReq' = [upReq EXCEPT ![r] = NoCall]
    BY DEF SwapFails, Ends
  <2>3. upTool = "self" => n + 1 = upSelf /\ RunningKept /\ upPending = 0
    BY <1>0 DEF UPInv, SelfInstalls
  <2>4. UPTypes'
    <3>1. upSelf' \in Names /\ upSelf' <= upHist.begun
      BY <1>1, <1>3, <2>3, UPAssumption DEF UPInv, UPTypes, UPTypeOK, Names
    <3>. QED  BY <1>3, <2>1, <2>2, <3>1 DEF UPInv, UPTypes, UPTypeOK, SwapFails
  <2>5. OneInstall'
    BY <2>2 DEF UPInv, UPTypes, OneInstall, SwapFails
  <2>6. SelfInstalls'
    <3>. SUFFICES ASSUME upTool = "self" PROVE SelfInstalls'
      BY DEF SelfInstalls, SwapFails
    <3>1. \A o \in UPCallers : upReq'[o] = NoCall
      BY <1>0, <2>2 DEF UPInv, UPTypes, OneInstall
    <3>2. RunningKept' /\ AnnouncedIsInPlace'
      BY <1>3, <2>1, <2>3 DEF RunningKept, AnnouncedIsInPlace, SwapFails
    <3>. QED  BY <3>1, <3>2 DEF SelfInstalls
  <2>7. SidecarClaim'
    <3>. SUFFICES ASSUME upTool = "cf", ~upHist.crossed, ~upHist.unmoved PROVE SidecarClaim'
      BY DEF SidecarClaim, SwapFails
    <3>1. \A o \in UPCallers : upReq'[o] = NoCall
      BY <1>0, <2>2 DEF UPInv, UPTypes, OneInstall
    <3>2. n = 0 /\ upDisk[0] = 0 /\ upSide <= upDisk[1]
      BY <1>0, <1>3 DEF UPInv, UPTypes, SidecarClaim
    <3>. QED  BY <1>3, <2>1, <3>1, <3>2 DEF SidecarClaim, SwapFails
  <2>. QED  BY <2>4, <2>5, <2>6, <2>7 DEF UPInv
<1>. QED  BY <1>2, <1>3 DEF SwapFails

\* cloudflared.version records the release in place.
LEMMA UPRecords == ASSUME UPInv, NEW r \in UPCallers, Record(r) PROVE UPInv'
<1>0. upReq[r] \in UPCall /\ upReq[r] # NoCall /\ upReq[r].pc = "record" /\ upTool = "cf"
  BY CallFacts DEF UPInv, UPTypes, Record
<1>1. upReq' = [upReq EXCEPT ![r] = NoCall] /\ upSide' \in {upReq[r].want, 0, upSide} /\ upSide' \in 0..upLatest
  BY <1>0 DEF Record, Ends, UPInv, UPTypes, UPTypeOK, UPCall
<1>2. UPTypes'
  BY <1>1 DEF UPInv, UPTypes, UPTypeOK, Record
<1>3. OneInstall'
  BY <1>1 DEF UPInv, UPTypes, OneInstall, Record
<1>4. SelfInstalls'
  BY <1>0 DEF SelfInstalls, Record
<1>5. SidecarClaim'
  <2>. SUFFICES ASSUME ~upHist.crossed, ~upHist.unmoved PROVE SidecarClaim'
    BY DEF SidecarClaim, Record
  <2>1. \A o \in UPCallers : upReq'[o] = NoCall
    BY <1>0, <1>1 DEF UPInv, UPTypes, OneInstall
  <2>2. upDisk[0] = upReq[r].want /\ upReq[r].want >= upSide' /\ upDisk[0] # 0
    BY <1>0, <1>1 DEF UPInv, UPTypes, UPTypeOK, UPCall, SidecarClaim
  <2>. QED  BY <2>1, <2>2 DEF SidecarClaim, Record
<1>. QED  BY <1>2, <1>3, <1>4, <1>5 DEF UPInv

\* The restart into the new image is announced.
LEMMA UPSchedules == ASSUME UPInv, NEW r \in UPCallers, Schedule(r) PROVE UPInv'
<1>0. upReq[r] \in UPCall /\ upReq[r] # NoCall /\ upReq[r].pc = "schedule" /\ upTool = "self"
  BY CallFacts DEF UPInv, UPTypes, Schedule
<1>1. upReq' = [upReq EXCEPT ![r] = NoCall] /\ upPending' \in {0, upReq[r].want} /\ upPending' \in 0..upLatest
  BY <1>0 DEF Schedule, Ends, UPInv, UPTypes, UPTypeOK, UPCall
<1>2. UPTypes'
  BY <1>0, <1>1 DEF UPInv, UPTypes, UPTypeOK, Schedule
<1>3. OneInstall'
  BY <1>1 DEF UPInv, UPTypes, OneInstall, Schedule
<1>4. SelfInstalls'
  <2>1. \A o \in UPCallers : upReq'[o] = NoCall
    BY <1>0, <1>1 DEF UPInv, UPTypes, OneInstall
  <2>2. upDisk[upReq[r].at] = upReq[r].want /\ (~upHist.retried => upReq[r].at = 0) /\ RunningKept
    BY <1>0 DEF UPInv, SelfInstalls
  <2>3. RunningKept' /\ AnnouncedIsInPlace'
    BY <1>1, <2>2 DEF RunningKept, AnnouncedIsInPlace, Schedule
  <2>. QED  BY <2>1, <2>3 DEF SelfInstalls
<1>5. SidecarClaim'
  BY <1>0 DEF SidecarClaim, Schedule
<1>. QED  BY <1>2, <1>3, <1>4, <1>5 DEF UPInv

\* A restart, or a crash: every call under way is lost.
LEMMA UPRestarts == UPInv /\ Restart => UPInv'
<1>. SUFFICES ASSUME UPInv, Restart PROVE UPInv'
  OBVIOUS
<1>1. /\ \A r \in UPCallers : upReq'[r] = NoCall
      /\ upReq' \in [UPCallers -> UPCall \cup {NoCall}]
      /\ upSide' \in {0, upSide}
  BY DEF Restart
<1>2. /\ upHist' \in [begun : 0..UPInstalls, crossed : BOOLEAN, unmoved : BOOLEAN, retried : BOOLEAN]
      /\ upHist'.crossed = upHist.crossed /\ upHist'.unmoved = upHist.unmoved
  <2>1. upHist \in [begun : 0..UPInstalls, crossed : BOOLEAN, unmoved : BOOLEAN, retried : BOOLEAN]
    BY DEF UPInv, UPTypes
  <2>2. upHist.begun + 1 \in 0..UPInstalls
    BY <2>1, UPAssumption DEF Restart
  <2>. QED  BY <2>1, <2>2 DEF Restart
<1>3. 0 \in Names /\ 1 \in Names
  BY UPAssumption DEF Names
<1>4. UPTypes'
  BY <1>1, <1>2, <1>3 DEF UPInv, UPTypes, UPTypeOK, Restart
<1>5. SelfInstalls'
  BY <1>1 DEF SelfInstalls, RunningKept, AnnouncedIsInPlace, Restart
<1>6. SidecarClaim'
  BY <1>1, <1>2, <1>3 DEF UPInv, UPTypes, UPTypeOK, SidecarClaim, Restart
<1>. QED  BY <1>1, <1>4, <1>5, <1>6 DEF UPInv, OneInstall

\* The operator puts the backup back.
LEMMA UPRestored == UPInv /\ OperatorRestores => UPInv'
<1>. SUFFICES ASSUME UPInv, OperatorRestores PROVE UPInv'
  OBVIOUS
<1>1. 0 \in Names /\ 1 \in Names /\ ~Busy /\ upReq' = upReq
  BY UPAssumption DEF Names, OperatorRestores
<1>2. \A r \in UPCallers : upReq[r] = NoCall
  BY <1>1 DEF Busy
<1>3. /\ upDisk' \in [Names -> 0..upLatest] /\ upDisk'[0] = upDisk[1] /\ upDisk'[1] = 0
      /\ \A m \in Names \ {0, 1} : upDisk'[m] = upDisk[m]
  BY <1>1 DEF UPInv, UPTypes, UPTypeOK, OperatorRestores
<1>4. UPTypes'
  BY <1>1, <1>3, UPAssumption DEF UPInv, UPTypes, UPTypeOK, OperatorRestores
<1>5. SelfInstalls'
  <2>. SUFFICES ASSUME upTool = "self" PROVE SelfInstalls'
    BY DEF SelfInstalls, OperatorRestores
  <2>1. RunningKept' /\ AnnouncedIsInPlace'
    BY <1>1, <1>3 DEF UPInv, UPTypes, UPTypeOK, SelfInstalls, RunningKept, AnnouncedIsInPlace, OperatorRestores
  <2>. QED  BY <1>1, <1>2, <2>1 DEF SelfInstalls
<1>6. SidecarClaim'
  BY <1>1, <1>2, <1>3 DEF UPInv, SidecarClaim, OperatorRestores
<1>. QED  BY <1>1, <1>2, <1>4, <1>5, <1>6 DEF UPInv, OneInstall

\* Every step keeps the invariant.
LEMMA UPStep == UPInv /\ [UPNext]_UPVars => UPInv'
<1>. SUFFICES ASSUME UPInv, [UPNext]_UPVars PROVE UPInv'
  OBVIOUS
<1>1. CASE UNCHANGED UPVars
  BY <1>1 DEF UPInv, UPTypes, UPTypeOK, OneInstall, SelfInstalls, SidecarClaim, RunningKept, AnnouncedIsInPlace, UPVars
<1>2. CASE ReleasePublished \/ Restart \/ OperatorRestores
  BY <1>2, UPPublished, UPRestarts, UPRestored
<1>3. ASSUME NEW r \in UPCallers,
             \/ InstallBegins(r) \/ Download(r) \/ DownloadRefused(r) \/ KeepPrevious(r) \/ Swap(r)
             \/ SwapFails(r) \/ Record(r) \/ Schedule(r) \/ Done(r)
      PROVE  UPInv'
  BY <1>3, UPBegins, UPDownload, UPRefused, UPKeeps, UPSwaps, UPSwapFails, UPRecords, UPSchedules, UPDone
<1>. QED  BY <1>1, <1>2, <1>3 DEF UPNext

\* The invariant gives what the component promises.
LEMMA UPSoundNow == UPInv => UpdatesSound
BY DEF UPInv, UPTypes, SelfInstalls, SidecarClaim, UpdatesSound, SidecarNotAhead, RunningKept, AnnouncedIsInPlace

-----------------------------------------------------------------------------
First(d) == IF \A n \in Names : d[n] = 0 THEN 0
            ELSE d[CHOOSE n \in Names : d[n] # 0 /\ \A m \in 0..(n - 1) : d[m] = 0]

(* The image in place is the one under the lowest name that has one.       *)
LEMMA FirstIs ==
  ASSUME NEW d, NEW n \in Names, d[n] # 0, \A m \in 0..(n - 1) : d[m] = 0
  PROVE  First(d) = d[n]
<1>. DEFINE P(k) == d[k] # 0 /\ \A m \in 0..(k - 1) : d[m] = 0
<1>1. ASSUME NEW k \in Names, P(k) PROVE k = n
  <2>1. k \in Nat /\ n \in Nat
    BY UPAssumption DEF Names
  <2>2. ~(k < n) /\ ~(n < k)
    BY <1>1, <2>1
  <2>. QED  BY <2>1, <2>2
<1>2. (CHOOSE k \in Names : P(k)) = n
  BY <1>1
<1>. QED  BY <1>2 DEF First

\* One of the names that are images is the first of them.
LEMMA FirstExists ==
  ASSUME NEW d, NEW k \in Names, d[k] # 0
  PROVE  \E n \in Names : n <= k /\ d[n] # 0 /\ \A m \in 0..(n - 1) : d[m] = 0
<1>. DEFINE S == {n \in Names : d[n] # 0}
<1>1. S # {} /\ S \subseteq Nat /\ Names = 0..(UPInstalls + 1)
  BY UPAssumption DEF Names
<1>2. PICK n \in S : \A m \in S : ~(<<m, n>> \in OpToRel(<, Nat))
  BY <1>1, WFMin, NatLessThanWellFounded
<1>3. \A m \in S : ~(m < n)
  BY <1>1, <1>2 DEF OpToRel
<1>4. \A m \in 0..(n - 1) : m \in Names /\ m < n
  BY <1>1, UPAssumption
<1>. QED  BY <1>1, <1>3, <1>4

(* What a step that publishes nothing may do to the image in place.        *)
ImageKept(old, new) == new = old \/ (new \in 1..upLatest /\ (upTool = "self" => new >= old))

\* The image in place or to be restored is the first of those on disk.
LEMMA InPlaceIs == InPlace = First(upDisk) /\ InPlace' = First(upDisk')
BY DEF InPlace, First

(* An image that moves one name up, or down onto a free one, is found      *)
(* again; so is any that lies lower.                                       *)
LEMMA MovedUp ==
  ASSUME NEW d, NEW e, NEW n \in 0..UPInstalls, d[n] # 0, e[n] = 0, e[n + 1] = d[n],
         \A m \in Names \ {n, n + 1} : e[m] = d[m]
  PROVE  First(e) = First(d)
<1>0. n \in Names /\ n + 1 \in Names /\ Names \subseteq Nat
  BY UPAssumption DEF Names
<1>1. PICK k \in Names : k <= n /\ d[k] # 0 /\ \A m \in 0..(k - 1) : d[m] = 0
  BY <1>0, FirstExists
<1>2. First(d) = d[k]
  BY <1>1, FirstIs
<1>3. \A m \in 0..(k - 1) : m \in Names \ {n, n + 1}
  BY <1>0, <1>1, UPAssumption DEF Names
<1>4. CASE k = n
  <2>1. \A m \in 0..((n + 1) - 1) : m = n \/ m \in 0..(k - 1)
    BY <1>0, <1>4
  <2>2. \A m \in 0..((n + 1) - 1) : e[m] = 0
    BY <1>1, <1>3, <2>1
  <2>3. First(e) = e[n + 1]
    BY <1>0, <1>1, <1>4, <2>2, FirstIs
  <2>. QED  BY <1>2, <1>4, <2>3
<1>5. CASE k # n
  <2>1. k \in Names \ {n, n + 1}
    BY <1>0, <1>1, <1>5
  <2>2. First(e) = e[k]
    BY <1>1, <1>3, <2>1, FirstIs
  <2>. QED  BY <1>2, <2>1, <2>2
<1>. QED  BY <1>4, <1>5

\* Moving an image to a free name next to its own changes no first image.
LEMMA MovedDown ==
  ASSUME NEW d, NEW e, NEW n \in 0..UPInstalls, d[n] = 0, d[n + 1] # 0, e[n] = d[n + 1], e[n + 1] = 0,
         \A m \in Names \ {n, n + 1} : e[m] = d[m]
  PROVE  First(e) = First(d)
<1>0. n \in Names /\ n + 1 \in Names /\ Names \subseteq Nat
  BY UPAssumption DEF Names
<1>1. PICK k \in Names : k <= n + 1 /\ d[k] # 0 /\ \A m \in 0..(k - 1) : d[m] = 0
  BY <1>0, FirstExists
<1>2. First(d) = d[k] /\ k # n
  BY <1>1, FirstIs
<1>4. CASE k = n + 1
  <2>1. \A m \in 0..(n - 1) : m \in Names \ {n, n + 1} /\ m \in 0..(k - 1)
    BY <1>0, <1>4, UPAssumption DEF Names
  <2>2. First(e) = e[n]
    BY <1>0, <1>1, <2>1, FirstIs
  <2>. QED  BY <1>2, <1>4, <2>2
<1>5. CASE k # n + 1
  <2>1. k \in Names \ {n, n + 1} /\ \A m \in 0..(k - 1) : m \in Names \ {n, n + 1}
    BY <1>0, <1>1, <1>2, <1>5, UPAssumption DEF Names
  <2>2. First(e) = e[k]
    BY <1>1, <2>1, FirstIs
  <2>. QED  BY <1>2, <2>1, <2>2
<1>. QED  BY <1>4, <1>5

\* Moving the image aside leaves it the one to restore.
LEMMA ImageOnKeep == ASSUME UPInv, NEW r \in UPCallers, KeepPrevious(r) PROVE ImageKept(InPlace, InPlace')
<1>0. upReq[r] \in UPCall /\ upReq[r] # NoCall
  BY CallFacts DEF UPInv, KeepPrevious, Downloading
<1>. DEFINE n == upReq[r].at
<1>1. n \in 0..UPInstalls /\ n \in Names /\ n + 1 \in Names /\ n + 1 # n
  BY <1>0, UPAssumption DEF UPInv, UPTypes, UPCall, Names
<1>2. CASE upDisk[n] # 0 /\ upDisk' = [upDisk EXCEPT ![n + 1] = upDisk[n], ![n] = 0]
  <2>1. /\ upDisk'[n] = 0 /\ upDisk'[n + 1] = upDisk[n]
        /\ \A m \in Names \ {n, n + 1} : upDisk'[m] = upDisk[m]
    BY <1>1, <1>2 DEF UPInv, UPTypes, UPTypeOK
  <2>2. First(upDisk') = First(upDisk)
    BY <1>1, <1>2, <2>1, MovedUp, ZenonT(60)
  <2>. QED  BY <2>2, InPlaceIs DEF ImageKept
<1>3. CASE upDisk' = upDisk
  BY <1>3, InPlaceIs DEF ImageKept
<1>. QED  BY <1>2, <1>3 DEF KeepPrevious

\* The swap puts a release in place, a newer one for "self".
LEMMA ImageOnSwap == ASSUME UPInv, NEW r \in UPCallers, Swap(r) PROVE ImageKept(InPlace, InPlace')
<1>0. upReq[r] \in UPCall /\ upReq[r] # NoCall /\ upReq[r].pc = "swap"
  BY CallFacts DEF UPInv, Swap
<1>. DEFINE n == upReq[r].at
            v == upReq[r].want
<1>1. n \in 0..UPInstalls /\ n \in Names /\ n + 1 \in Names /\ v \in 1..upLatest /\ upLatest \in Nat
  BY <1>0, UPAssumption, SMTT(30) DEF UPInv, UPTypes, UPTypeOK, UPCall, Names
<1>2. upDisk'[n] = v /\ \A m \in Names \ {n} : upDisk'[m] = upDisk[m]
  BY <1>1 DEF UPInv, UPTypes, UPTypeOK, Swap
<1>3. CASE upTool = "self"
  <2>1. n + 1 = upSelf /\ upDisk[n] = 0 /\ upRun # 0 /\ upDisk[n + 1] = upRun /\ v > upRun
    BY <1>0, <1>3 DEF UPInv, SelfInstalls, RunningKept
  <2>2. PICK k \in Names : k <= n + 1 /\ upDisk[k] # 0 /\ \A m \in 0..(k - 1) : upDisk[m] = 0
    BY <1>1, <2>1, FirstExists
  <2>3. First(upDisk) = upDisk[k] /\ k # n /\ k \in Nat
    BY <2>1, <2>2, FirstIs, UPAssumption DEF Names
  <2>4. CASE k = n + 1
    <3>1. \A m \in 0..(n - 1) : m \in Names \ {n} /\ m \in 0..(k - 1)
      BY <1>1, <2>4, UPAssumption DEF Names
    <3>2. First(upDisk') = upDisk'[n]
      BY <1>1, <1>2, <2>2, <3>1, FirstIs
    <3>. QED  BY <1>1, <1>2, <2>1, <2>3, <2>4, <3>2, InPlaceIs DEF ImageKept, UPInv, UPTypes, UPTypeOK
  <2>5. CASE k # n + 1
    <3>1. k \in Names \ {n} /\ \A m \in 0..(k - 1) : m \in Names \ {n}
      BY <1>1, <2>2, <2>3, <2>5, UPAssumption DEF Names
    <3>2. First(upDisk') = upDisk'[k]
      BY <1>2, <2>2, <3>1, FirstIs
    <3>. QED  BY <1>2, <2>3, <3>1, <3>2, InPlaceIs DEF ImageKept
  <2>. QED  BY <2>4, <2>5
<1>4. CASE upTool # "self"
  <2>1. n = 0
    BY <1>0, <1>4 DEF UPInv, UPTypes
  <2>2. First(upDisk') = v
    BY <1>1, <1>2, <2>1, FirstIs
  <2>. QED  BY <1>1, <1>4, <2>2, InPlaceIs DEF ImageKept
<1>. QED  BY <1>3, <1>4

\* A failed swap leaves the image it found.
LEMMA ImageOnFailure == ASSUME UPInv, NEW r \in UPCallers, SwapFails(r) PROVE ImageKept(InPlace, InPlace')
<1>0. upReq[r] \in UPCall /\ upReq[r] # NoCall /\ upReq[r].pc = "swap"
  BY CallFacts DEF UPInv, SwapFails
<1>. DEFINE n == upReq[r].at
<1>1. n \in 0..UPInstalls /\ n \in Names /\ n + 1 \in Names /\ n + 1 # n
  BY <1>0, UPAssumption, SMTT(30) DEF UPInv, UPTypes, UPTypeOK, UPCall, Names
<1>2. CASE upDisk' = upDisk
  BY <1>2, InPlaceIs DEF ImageKept
<1>3. CASE upDisk[n + 1] # 0 /\ upDisk' = [upDisk EXCEPT ![n] = upDisk[n + 1], ![n + 1] = 0]
  <2>1. /\ upDisk'[n] = upDisk[n + 1] /\ upDisk'[n + 1] = 0 /\ upDisk[n + 1] \in 1..upLatest
        /\ \A m \in Names \ {n, n + 1} : upDisk'[m] = upDisk[m]
    BY <1>1, <1>3 DEF UPInv, UPTypes, UPTypeOK
  <2>2. CASE upTool = "self"
    <3>1. upDisk[n] = 0
      BY <1>0, <2>2 DEF UPInv, SelfInstalls
    <3>2. First(upDisk') = First(upDisk)
      BY <1>1, <1>3, <2>1, <3>1, MovedDown
    <3>. QED  BY <3>2, InPlaceIs DEF ImageKept
  <2>3. CASE upTool # "self"
    <3>1. n = 0
      BY <1>0, <2>3 DEF UPInv, UPTypes
    <3>2. First(upDisk') = upDisk[1]
      BY <1>1, <2>1, <3>1, FirstIs
    <3>. QED  BY <2>1, <2>3, <3>1, <3>2, InPlaceIs DEF ImageKept
  <2>. QED  BY <2>2, <2>3
<1>. QED  BY <1>2, <1>3 DEF SwapFails

\* Putting the backup back changes no image.
LEMMA ImageOnRestore == ASSUME UPInv, OperatorRestores PROVE ImageKept(InPlace, InPlace')
<1>1. 0 \in Names /\ 1 \in Names /\ 0 \in 0..UPInstalls
  BY UPAssumption DEF Names
<1>2. /\ upDisk[0] = 0 /\ upDisk[1] # 0 /\ upDisk'[0] = upDisk[1] /\ upDisk'[1] = 0
      /\ \A m \in Names \ {0, 1} : upDisk'[m] = upDisk[m]
  BY <1>1 DEF UPInv, UPTypes, UPTypeOK, OperatorRestores
<1>3. First(upDisk') = First(upDisk)
  BY <1>1, <1>2, MovedDown
<1>. QED  BY <1>3, InPlaceIs DEF ImageKept

\* A step that leaves the files alone leaves the image.
LEMMA ImageElsewhere ==
  ASSUME upDisk' = upDisk
  PROVE  ImageKept(InPlace, InPlace')
BY InPlaceIs DEF ImageKept

(* Every step is one of the atomic installer's, or none.                   *)
LEMMA StepMaps == UPInv /\ [UPNext]_UPVars => [Abstract!Publish \/ Abstract!Replace]_(Abstract!AIVars)
<1>. SUFFICES ASSUME UPInv, [UPNext]_UPVars PROVE [Abstract!Publish \/ Abstract!Replace]_(Abstract!AIVars)
  OBVIOUS
<1>1. CASE ReleasePublished
  <2>1. InPlace' = InPlace /\ upLatest' = upLatest + 1 /\ upTool' = upTool
    BY <1>1, InPlaceIs DEF ReleasePublished
  <2>. QED  BY <2>1 DEF Abstract!Publish
<1>2. CASE ~ReleasePublished
  <2>1. ImageKept(InPlace, InPlace') /\ upLatest' = upLatest /\ upTool' = upTool
    <3>1. CASE UNCHANGED UPVars
      BY <3>1, ImageElsewhere DEF UPVars
    <3>2. CASE Restart \/ OperatorRestores
      BY <3>2, ImageElsewhere, ImageOnRestore DEF Restart, OperatorRestores
    <3>3. ASSUME NEW r \in UPCallers,
                 \/ InstallBegins(r) \/ Download(r) \/ DownloadRefused(r) \/ KeepPrevious(r) \/ Swap(r)
                 \/ SwapFails(r) \/ Record(r) \/ Schedule(r) \/ Done(r)
          PROVE  ImageKept(InPlace, InPlace') /\ upLatest' = upLatest /\ upTool' = upTool
      BY <3>3, ImageElsewhere, ImageOnKeep, ImageOnSwap, ImageOnFailure
         DEF InstallBegins, Download, DownloadRefused, KeepPrevious, Swap, SwapFails, Record, Schedule, Done
    <3>. QED  BY <1>2, <3>1, <3>2, <3>3 DEF UPNext
  <2>2. CASE InPlace' = InPlace
    BY <2>1, <2>2 DEF Abstract!AIVars
  <2>3. CASE InPlace' \in 1..upLatest /\ (upTool = "self" => InPlace' >= InPlace)
    BY <2>1, <2>3 DEF Abstract!Replace
  <2>. QED  BY <2>1, <2>2, <2>3 DEF ImageKept
<1>. QED  BY <1>1, <1>2

\* An installed tool is where the atomic install starts.
LEMMA InitMaps == UPInit => Abstract!AIInit
<1>. SUFFICES ASSUME UPInit PROVE Abstract!AIInit
  OBVIOUS
<1>1. InPlace \in 0..1
  <2>1. 0 \in Names /\ upDisk[0] \in {0, 1} /\ \A m \in Names \ {0} : upDisk[m] = 0
    BY UPAssumption DEF UPInit, Names
  <2>2. CASE upDisk[0] = 0
    <3>1. First(upDisk) = 0
      BY <2>1, <2>2 DEF First
    <3>. QED  BY <3>1, InPlaceIs
  <2>3. CASE upDisk[0] # 0
    <3>1. First(upDisk) = upDisk[0]
      BY <2>1, <2>3, FirstIs
    <3>. QED  BY <2>1, <3>1, InPlaceIs
  <2>. QED  BY <2>2, <2>3
<1>. QED  BY <1>1 DEF UPInit, Abstract!AIInit

\* For any releases, callers and installs, cut off anywhere: the sidecar claims
\* no more than is installed, the running image stays on disk, and an announced
\* restart starts what was announced (Install, installUpdate).
THEOREM UpdatesHold == UPSpec => []UpdatesSound
<1>1. UPInit => UPInv
  BY UPInitial
<1>2. UPInv /\ [UPNext]_UPVars => UPInv'
  BY UPStep
<1>3. UPInv => UpdatesSound
  BY UPSoundNow
<1>. QED  BY <1>1, <1>2, <1>3, PTL DEF UPSpec

\* Every install, crash and failure included, implements an atomic one: each
\* step changes the image in place to a release, or not at all.
THEOREM UpdatesAreAtomic == UPSpec => InstallsAtomically
<1>1. UPInit => UPInv /\ Abstract!AIInit
  BY UPInitial, InitMaps
<1>2. UPInv /\ [UPNext]_UPVars => UPInv'
  BY UPStep
<1>3. UPInv /\ [UPNext]_UPVars => [Abstract!Publish \/ Abstract!Replace]_(Abstract!AIVars)
  BY StepMaps
<1>. QED  BY <1>1, <1>2, <1>3, PTL DEF UPSpec, InstallsAtomically, Abstract!AISpec
=============================================================================
