# Irongrid DNS: a TLA+ model

Irongrid DNS is a filtering DNS forwarder and recursive resolver written in Go,
with a two-layer response cache, a DHCP server, a dashboard API and helpers for
tunnels, VPN routing, certificates and updates. This directory models the parts
of it that are concurrent and stateful, checks them with TLC on small instances
and proves the most important properties with TLAPS for all instances.

- `X.tla` models a component; `MCX.tla` and `MCX*.cfg` instantiate it for TLC;
  `XProofs.tla` holds its theorems. `MCCache`, `MCNetwork`, `MCReload`, `MCQueryPath`,
  `MCServices` and `MCControl` instantiate several components each (section 3), and
  `DataProofs`, `FilesProofs`, `GuardsProofs` and `ServiceProofs` hold the theorems of
  several. Runs of one component without an instance of its own give its module a cfg
  directly.
- `PROJECT.json` maps every definition to the lines it models, and lists the
  components, runs, mutants, findings, hazards and theorems.
- Paths below are relative to `src/internal/` unless they start with `src/`.

To check one module: `tlc -config MCCache.cfg MCCache`; to check the proofs:
`tlapm L1ShardProofs.tla`.

## 1. The system

### The life of a query

A listener (UDP, TCP, DoT, DoH, DoH3, DoQ) hands a message to `Handler.serve`
on a goroutine of its own. `serve` reads one atomic snapshot of the settings and

1. asks the abuse guards (rate limiter, NXDOMAIN guard, repeat-query guard), the
   IP banner, geo blocking, the honeypot and the access list, any of which may
   refuse or drop the query;
2. answers locally what it can (rewrites, DHCP host names, block lists);
3. looks the question up in the response cache: a fresh entry is the answer and
   may start a background refresh; a stale one is kept as a fallback (RFC 8767);
4. forwards the question on a goroutine of its own, coalesced with identical
   questions (`singleflight`), to one upstream, to several in order, or to
   several at once; an upstream whose circuit is open is skipped;
5. if a stale entry is there and the resolution takes longer than `staleGrace`,
   answers with it and lets the resolution finish in the background;
6. in `finishResolve` validates, filters and writes the answer, and stores it in
   the cache from a background goroutine bounded by `cacheWriteSlots`.

### Components

| Component | State | Operations | Hard behaviour | What makes it correct |
|---|---|---|---|---|
| L1 cache shard (`cache/l1.go`) | map, eviction queue, per-entry referenced bit | get, set, del, flush, evictToCap, compact | get touches an entry after it gave the lock up; eviction while bits are being set | the cap holds; every live key can be evicted; eviction ends |
| L2 write-behind (`cache/cache.go`) | bounded channel, batch, `wclosed`, `wdone` | enqueueL2, runWriter, writeBatchL2, Close | enqueue against Close; full queue; pipelines that fail half way | no write vanishes; Close commits and returns |
| Response cache (`cache/cache.go`) | L1, L2 (Dragonfly), entries' lifetimes | Lookup, Get, Set, SetNegative, FlushAll | state read before a network round trip and used after it | no answer is served as fresh too long |
| Query path (`dnsserver/handler.go`) | flights, pending queries, write slots, refresh markers | serve, resolveUpstreams, finishResolve, resolveAndCache | timer against answer; shared flights with different deadlines; writes in any order | one reply each; stale beats failure; everybody is answered |
| Upstream (`upstream/`) | connection pool, QUIC connection, circuit breaker | Query, markResult, Available, putConn, Close | two atomics changed one after the other; retries; late puts and drops | a connection has one user; no socket is forgotten; the circuit re-arms |
| Abuse guards (`dnsserver/ratelimit.go`, `nxguard.go`, `repeatguard.go`) | bounded maps of buckets, counts, streaks and blocks | Allow, NoteNX, NoteQuery, ForceBlock, Unblock | clock read before the lock; eviction at the cap; calls of one query interleaved with another's | admission, memory and floods are bounded; blocks stay |
| DHCP lease table (`dhcp/`) | two lease maps, holds, cursor, name indexes, lease file | DISCOVER/SOLICIT, REQUEST/RENEW, RELEASE, DECLINE, reload, persist | a packet is checked under one lock and committed under another; expiry; an old file merged into a live table | an address has one holder; the maps agree; a declined address is withheld |
| Forwarding strategies (`dnsserver/handler.go`) | attempts of a sequence; goroutines and channel of a race | sequential, race | a slow failure eats the time of the next; a goroutine panics; losers outlive the winner | a failure only if all failed; a fair share of the time each; the collector is never left waiting |
| Handler settings (`dnsserver/handler.go`) | published snapshot, client-ASN memo | about thirty Set* methods, ClientASN | copy, change and swap are three steps | no change is lost; nothing in use is closed |
| Client identity (`dnsserver/doh.go`, `servers.go`, `doq_server.go`, `clients.go`, `acl.go`, `policy.go`) | proxy settings, access list, group table, policy cache | clientAddr, Allowed, policyFor | headers the client may have written; a cache whose count is reset apart from it | the client is who the trusted peer saw; the first group wins; the cache is bounded |
| Connection limiter (`dnsserver/connlimit.go`, `doh.go`) | counts per address and limiter | Accept, Close, HTTPConnState, SetConnLimits | hijacks, late callbacks, limiters replaced under open connections | a slot is given back once, where it was taken |
| UDP server (`dnsserver/udp_server.go`) | read batch, buffer pool, job queue, workers, batch writer | Serve, Shutdown, handle, write | shutdown of a pipeline of goroutines; partial sends | shutdown ends; datagrams are accounted for; a buffer has one owner |
| Listeners (`dnsserver/servers.go`, `doh.go`, `doq_server.go`, `src/cmd/irongrid/main.go`) | sockets, registries, results channel, web server | Start, Restart, Shutdown, rebind | a start that fails half way; two restarts at once | every socket can be stopped; a restart returns |
| Filter engine and blocklists (`filter/`) | rule set published by pointer, list entries, files | Reset, LoadList, Compile, FetchOne, ReloadAll, SetSpecs | a reload in several steps beside lock-free readers, edits and downloads | published rules are the configured ones |
| Query log (`querylog/`) | queue, writer, stream, rolling aggregate, statistics cache | Record, flush, Clear, Close, Query, Stats | batches flushed and folded apart; pages read while the stream is trimmed | the aggregate is the stream's; pages are exact; Close drains |
| Geo blocking (`geoip/`) | range tables, cached lists, live blocker | mergeRanges, Contains, cidrs, refresh | arithmetic at the top of the address space; failed downloads | a table is exact; known data stays enforced |
| IP banner, host firewall (`geoip/banner.go`, `firewall/`) | block entries, their file, drop set | Block, Unblock, rebuild, Apply | a snapshot persisted after the unlock; a rebuild beside a block | file, rules and table agree; blocks survive |
| Configuration (`config/`) | the file and its document | Load, validate, Save | rules that rewrite what they accept; migrations | a restart changes nothing; no plaintext is written |
| Configuration writes, reload, boot, backup (`api/handlers_config.go`, `backup.go`, `src/cmd/irongrid/main.go`) | configuration in memory and on disk, what runs | PUT, restore, reload, rebuild | resolved before the lock, applied under it; a save that fails; a crash in a write | what runs is what is configured; revoked stays revoked |
| Dashboard logins, API limiter (`api/server.go`, `loginguard.go`, `apiratelimit.go`) | sessions, lockouts, buckets | authorize, login, Allow | password check between two lock sections; clocks read before the lock | lockouts hold; old sessions end; the budget holds |
| Self-update, cloudflared and Dragonfly updates (`update/`, `cfupdate/`, `dflyupdate/`) | image, previous image, version sidecar | check, download, install, restart | a failure or crash between two renames | an install is atomic; there is something to roll back to |
| DNSSEC, trust anchors, root hints (`dnssec/`, `recursive/`) | anchors, zone cache | validate, Refresh | refreshes that overlap; chain walks | never a worse anchor over a better one; bounded walks |
| Recursive resolver (`recursive/`) | walks, nameserver addresses, shared lookups, delegation cache, connection pool | resolve, resolveNameservers, resolveNSAddr, chaseCNAME | CNAME and nameserver lookups that recurse into each other and are shared under different deadlines | walks are bounded; nobody waits for himself or for nobody |
| ACME, certificates, tunnel, VPN (`acme/`, `cert/`, `tunnel/`, `vpn/`) | files, subprocesses, routes | issue, renew, Start, Stop, Reconcile | stop during start; work queued for something torn down | a usable file after a crash; stopped means stopped |
| Cache warmer (`dnsserver/warmer.go`) | pass, configuration | pass, WarmNow, SetConfig | reconfiguration during a pass | one pass at a time |

`PROJECT.json` lists all 49 parts, down to the installer and the web interface,
with the reason for each one that is left out.

### Interaction

`serve` calls the guards, the cache and the upstreams. The cache calls back into
the handler (`Refresh`) to re-resolve hot entries, and that refresh takes part
in the same flights as live queries. The health check queries the upstreams
beside the clients' queries and moves the same circuit breakers. The DHCP table
is read by `serve` (host and reverse names) and changed by packets, the API and
configuration reloads. All long-lived parts are replaced at run time: the
settings swap publishes the new part and closes the old one while queries that
still hold the old snapshot are under way.

## 2. Modules

Every module has its state as VARIABLES, `Init`, one action per operation or per
section of an operation between two points where other goroutines get in, and
`Next`. A section that the code runs under one lock, and a single atomic
operation, is one step. Definitions named "Mutant" are deliberately wrong
variants of the definition below them; no specification uses them.

### `L1Shard`: one shard of the L1 cache

`m`, `queue` and `lock` are the fields of `l1Shard`; `call` is what each goroutine
is doing; `scan` is the part of the queue that `compact` has yet to read. An
entry has an identity, so a referenced bit that a late `get` sets on an entry
that has left the map is lost, as with the pointer in the code. `get` is cut
into the locked lookup (`GetLookup`), the store of the bit and the comparison
with the clock (`GetMark`), and the lazy delete (`GetDel`). `set` is
`SetInPlace`, or `SetInsert` followed, under the lock, by one `EvictStep` per
round of `evictToCap` and one `CompactStep` per slot of `compact`. `Del` and
`Flush` are the other two operations.

### `L2Writer`: the write-behind queue

`ch`, `batch`, `wclosed`, `wdone` are the code's; `pc` and `pending` are the
callers inside `enqueueL2`; `applied`, `failed`, `owed` and `crossing` are history. A caller
loads `wclosed` (`CheckClosed`), then sends without blocking (`Send`), or finds
the queue full (`SendFull`) and writes synchronously (`SetSync`). The writer's
select is `Take`, `TickFlush` and `SeeDone`; its drain loop is `Take` and `Exit`.
`Close` is `CloseCAS`, `CloseSignal`, `CloseClient`. Dragonfly is external: a SET
or a pipeline may fail, a pipeline after any prefix. One shard of the writer
pool is modelled, since shards share only `wclosed` and `wdone`; `Close` is
called by one goroutine (the reload, `src/cmd/irongrid/main.go:1151`).
A write in the channel of a writer that has exited is lost (`Accounted`). That happens
to a caller which Close finds between the check and the send (`crossing`), and to no
other: `NoWriteVanishes` excepts exactly these, and the run `l2_close_race` shows the
loss against what the comments promise.

### `ResponseCache`: both layers

Entries are compared by the number of the Set that made them; `due` is the time
at which the lifetime an entry was stored with ends, and `late` the time its L2 write
was under way; no code reads them, the properties do. `Lookup` is cut at its two L1 probes (`ProbePos`, `ProbeNeg`), the
round trip (`MGet`) and the L1 stores after it (`WarmPos`, `DelPos`, `WarmNeg`);
`Get` at `GetL1`, `GetL2`, `WarmGet`; `Set` at the L1 store and the enqueue;
`FlushAll` between the layers. The L1 is that of `L1Shard` reduced to a map from
which any entry may go (`Evict`), and the write-behind queue that of `L2Writer`
reduced to a set of writes that land or fail (`Land`, `Drop`), in any order and after
any time: a write may wait behind a full batch, a slow flush (`writeFlushTimeout`) or the
network while ticks pass, and its TTL starts to count in Dragonfly when it lands. So a
copy there may outlive the answer's own lifetime by the delay, and the bound that is
checked and proved adds it (`OverstayBounded`).

### `QueryPath`: serve, singleflight, serve-stale, refresh

One question. `pos` and `neg` are its cache entries with their age (fresh, stale,
absent) and content; `query` is each goroutine in `serve`; `flight` is the
singleflight entry; `refresh` is the prefetch goroutine and its marker; `writer`
is each query's background cache write. A query is plain, meta (never cached) or
private (RD=0 or CD=1, never coalesced). An upstream gives an answer, one the
live path would reject (`"bad"`), NXDOMAIN, SERVFAIL, an error, or nothing at
all; the deadline of a context is an action of its own. `Refuse` is what the guards do to a
query, dropped on UDP and answered elsewhere.

### `Upstream`: one forwarder

`fails` and `cooldown` are the breaker's two atomics and change in separate steps
(`MarkFails`, `MarkCooldown`). A connection is also its socket: `open` is the set
of sockets not closed, `live` those the peer still serves. Queries walk through
`First`, `Get`, `PooledOk`/`PooledFails`, `DialOk`/`DialFails`,
`FreshOk`/`FreshFails`, `Put`, `Shut` for UDP, TCP and DoT, `Request` for DoH,
`QuicReuse`/`QuicDial`, `Stream`, `QuicDrop` for DoQ. `Close` drains the pool and
then closes QUIC while queries are under way. The upstream is well or not
(`Flip`); a probe is a query that does not ask the breaker.

### `Guards`: rate limiter, NXDOMAIN guard, repeat guard

Three bounded maps and the order in which `serve` asks them: `Arrive` and `Allow*`
of the limiter, `AllowNX`, `AllowRepeat`, `NoteQuery` and its block (`RepeatBlock`,
`ForceRepeat`, `Mirror`), the banner's refusal (`Banned`), the honeypot (`Trap`),
the resolution (`Proceed`) and what is noted afterwards (`AnswerNX`,
`AnswerOther`), and the dashboard's `Unblock`. A call reads the clock before it
takes the lock, so it works with any time between the query's previous step and
the present. One shard of each map; all three guards are installed (their hot
swap belongs to the settings); a tick is the time in which one token is earned;
time 0 is Go's zero time. `allowance` is history: what an ideal bucket would hold.

### `DHCPLeases`: allocation, packets, expiry, reload

`leases`, `byIP`, `reserved`, `cursor`, `ptr`, `dirty` are the server's fields,
`disk` the lease file, `held` what the clients believe. The allocator's steps
(`AllocStatic`, `AllocOwn`, `AllocAgain`, `AllocRequested`, `AllocNext`) are those
of `allocV4`/`allocV6`, lazy reclamation of expired leases (`LookAt`) included.
A REQUEST is cut where it gives the lock up: `Request`/`RequestV4`, `Check`,
`ReadStatic`, `Commit`. Times are remaining ticks. `Persist`, `Load`, `SetConfig`
and `Restart` are what persistence and reloads do to the table.
Clients are honest: one declines only the address it was granted.

### `ConnLimits`: connection caps

Per-address counts in every limiter ever made, and the limiter each listener
captured when it started. `AcceptTCP`/`CloseTCP` are the wrapped listener and
connection; `HTTPNew`, `HTTPClosed`, `HTTPHijacked`, `HijackedEnds` are the states
of `HTTPConnState`. `SetConnLimits` makes new limiters that only the next
`ListenerStarts` uses, so connections counted by an old one outlive it.

### `HandlerSettings`: copy, change, swap

A setter copies the published snapshot, changes its field, and swaps under `setMu`;
the swap closes what it replaced and clears the client-ASN memo. A field's value is
the number of the call that made it. Setters overlap freely. `hsUndone` is history: the
fields a swap put back as its caller had copied them, because another setter published
them in between; a plain field leaves it when it is set again, an upstream field does
not, as what was closed stays closed. `hsRaced` are the clients whose ASN lookup stored,
since the last swap, what it had loaded before it.

### `ClientIdentity`: whose query it is

The peer, the forwarded headers and the proxy settings give an address
(`clientAddr`), the access list admits it, the group table and the bounded policy
cache give its policy. Clients may write headers themselves.

### `Forward`: several upstreams

`queryUpstreams` with more than one upstream. `Attempt` is a round of
`sequentialUpstreams`: the next upstream gets `Share`, its even part of the time left,
and an attempt that uses it up has failed. `RaceReply` is a goroutine of
`raceUpstreams` with its one send, the deferred one after a panic included, `RaceTake`
a round of the collector. What an upstream returns is arbitrary; whether it is
available is `Upstream`'s circuit, here any subset.

### `Recursive`: walks that need walks

A walk is a client's `resolve` or the one behind a nameserver's address, identified by
host and nesting depth as `nsFlight`'s key is. `AskReferral` names nameservers, those
without glue are looked up (`Lookup`): from `nsAddrs`, by joining the flight of that
key, or by starting it. A flight's end tells everybody who joined (`Told`, external:
singleflight); a walk whose context ends gives up waiting (`GivesUpWaiting`) and no
server answers it any more. Which names the servers return, whether a question is
still minimised and whether a zone was visited before is left open, so the walks of
the model include those of every zone tree, misconfigured and circular ones too.

### `UDPServer`

The read loop fills a batch of pooled buffers and dispatches without blocking
(`ReadBatch`, `DispatchOne`), workers handle and wait for the batch writer's result
(`WorkerTake`, `WorkerWrite`, `WorkerResult`), the writer collects and sends,
possibly only a prefix (`WriterCollect`, `WriterSend`). `Serve*` is the winding down,
`Shutdown*` the bounded wait for it. Garbled datagrams, panics and send errors
included.

### `Listeners`

`Restart` by the configuration reload and by the certificate reload: stop, clear
the registry, bind each protocol in order (`Bind`, `Register`, `BindRefused`,
`BindDoH`, `TakeHTTPSlot`), start serving (`ServeStarts`), report on a bounded
channel (`DrainResults`). A bind may fail, as when another process holds the address.
The dashboard's
web server is rebound by a goroutine of its own (`WebStops`, `WebStarts`), and may fail
to start, which is only logged.

### `QueryLog` and `QueryLogWalk`

The first is the writer's side: a queue that drops, batches flushed to a Dragonfly
stream that trims itself, folding into hour slots, `Clear` in its two steps, `Close`,
crashes and re-seeding. The second is the readers' side: the paged walk, newest first for
`Query` and upward from `since` for the statistics, whose pages share their boundary
message (`Messages`, `Fresh`, `WalkPage`); the filter and page of `Query`; the statistics'
TTL cache; and `topN`'s one pass over a map in any order with its bounded heap (`Keeps`,
`KeptAfter`, `TopN`). The stream is external.

### `GeoTables` and `GeoRefresh`

`GeoTables` computes with addresses of `GTBits` bits and the machine's wrap-around:
`MergeOne` is a round of `mergeRanges4`, `TableContains` the binary search,
`SplitOne` a round of `cidrs4`. The reference definitions are the plain sets of
addresses. `GeoRefresh` is the download of each country's two lists with the cached
copy as the fallback, a bounded number at a time, and the publication of the result. The
cache is written with `os.WriteFile`, which truncates first: a write is whole, fails
before the file is opened, or leaves it torn, and a crash may tear any write under way.
A torn file is loaded like any other.

### `ControlPlane` and `ConfigRules`

`ControlPlane` follows the configuration from a request to the running parts. A PUT
resolves accounts and session secret before it takes `cfgMu` (`PutRequest`,
`RestoreRequest`) and applies under it (`ApplyRefused`, `ApplySaved`,
`ApplyUnsaved`); geo rebuilds run in goroutines of their own; `ReloadOK` and
`ReloadFails` are SIGHUP; `Crash` may tear the file. `ConfigRules` is the document
itself: what validate accepts and rewrites, what Save hashes, what Load migrates and
generates. A behaviour of it follows one section's document, since validate's rules
work section by section.

### `FilterLists`

List specifications, downloaded content, files, the engine's working rules and the
published ones. Refreshers and the API run `ReloadAll` concurrently, each lock section
a step, except that Reset and Compile are two: the address gate `hasIPRules` is stored
before the rule set, and readers take no lock (`ReloadReset`/`ResetPublishes`,
`Compile`/`CompilePublishes`). Deleting or disabling a list, a late download, failed or
torn persists and a crash are actions. `Intended` is what the configured lists say of a
name.

### `Updates` and `AtomicInstall`

`AtomicInstall` is the abstract specification: one image, replaced in one step by a
published release, and by a newer one if the installer is orderly. `Updates` is the
three installers (`upTool`), cut at each file operation, with failing renames and
crashes. `InstallsAtomically` is the refinement, under the mapping that takes the
image at the path or, when a crash left none there, the `.prev` image to be restored
by hand.

### `DashboardAuth`, `APILimiter`, `IPBanner`

`DashboardAuth`: a login checks the lock, compares the password outside the lock, and
records the outcome with a clock it read before the lock; cookies are signed with the
secret of the request's snapshot; the account changes meanwhile. `APILimiter`: the token
bucket in units of a fraction of a token, idle eviction from a full shard, calls that
apply older clocks. `IPBanner`: block and unblock in memory, then in the file, then in
the firewall; the quick block in memory, then in the saved configuration; the rebuild
that loads, publishes and applies, one at a time; writes, saves and firewall commands
that fail, files a crash cuts, and restarts. History says what is owed to whom: `owed`
the blocks acknowledged, `lifted` the unblocks, `behind` and `undropped` the addresses a
failure left out of file and drop set. `clean` is whether the operations since the last
start followed each other; a restart starts afresh with what file and saved
configuration hold.

## 3. Runs

Each passing run has one mutant per property: a plausible slip in the code (a
dropped guard, a missing reset, a swapped order) under which TLC finds the
property violated, so none of them holds by the shape of the model.

A run checks few definitions; a name ending in `Sound`, `Hold(s)` or `End(s)` is a
conjunction of the named parts in parentheses, the type invariant included.

| Run | Instance | Shows |
|---|---|---|
| `cache` | shard: cap 1, 2 keys, 2 goroutines, 4 sets, 1 tick | `ShardSound` (`CapacityBound`: the cap holds whenever the lock is free; `LiveKeysQueued`: no live key loses its queue slot, which would make it unevictable). `EvictionTerminates`: the loop ends although late gets set bits during it |
| | writer: 2 callers, 3 writes, queue 1, batch 2 | `WriterSound` (`NoWriteVanishes`, `CloseCommitsQueue`, `ClientOutlivesWriter`), `WriterProgress` (`CloseReturns`, `QueuedCommitted`), through full queues, failing pipelines and a Close at any moment |
| `query_path` | 2 identical queries, 1 refresh, 1 write slot, panics | `RepliesSound` (`AtMostOneReply`, `StaleBeatsFailure`, `WritesBounded`), `QueriesEnd` (`EveryoneAnswered`, `RefreshEnds`) |
| | 3 connections of 2 addresses, cap 2, 1 change of limits | `ConnCapsHold` (`SlotsExact`: a slot is neither leaked nor given back twice), `RefusedOnlyAtCap` |
| | 3 setter calls, 1 client | `SettingsSound` (`SettingsKept`: a swap loses, leaks or revives nothing but fields its copy was too old for; `ClosedWasReplaced`; `MemoFollowsTables`: but for lookups a swap overtook, until the next swap) |
| | 4 clients, 1 proxy, 3 groups, 5 queries, cache of 1 | `IdentitySound` (`ClientIsReal`, `FirstGroupWins`, `PolicyCacheBounded`) |
| | 3 upstreams, both modes, a deadline of 6 ticks | `ForwardSound` (`FailureMeansAllFailed`; `FairShare`: however slowly the others fail, each upstream of a sequence gets its part of the budget), `RaceGoesOn`: the collector never waits for a send that will not come |
| | 2 clients, 1 nameserver without glue, nesting depth 2, 2 hops, 1 CNAME | `RecursionSound` (`WaitersHaveFlights`, `NoCircularWait`): whoever waits for a nameserver's address waits for a walk under way, and never for itself |
| `addresses` | leases: DHCPv4, 3 clients on a pool of 2, one reservation outside it, packets one at a time | `NoSharedAddress`, `LeaseTableSound` (`LeaseIndexed`), `DeclinedWithheld` through offers, expiry, reclamation, releases and declines |
| | geo refresh: 2 countries, 1 at a time, 2 versions, 3 refreshes or restarts | `GeoKept` (`LastKnownEnforced`), `NeverForgets`, through failed downloads and failed or cut writes |
| `dhcp_race` | DHCPv4, 2 clients, pool of 1, 2 packets at once | violation, see section 6 |
| `reload` | leases: DHCPv6 with rapid commit, 2 clients, pool of 1, a reservation that comes and goes, reloads and restarts | `PtrFollowsTable`: the reverse names always follow the table |
| | filter: 2 lists, 1 refresher and the API, 2 edits, 1 download | `RulesSound` (`RulesCurrent`, `IPGateSound`) |
| | log walk: 4 stream entries, pages of 1, scans of 3, page sizes 1 and 2, offsets 0 and 1, 2 walks or clears | `WalkSound` (`WalkExact`, `QueryPageExact`, `TopIsStrongest`, `ClearedNotServed`) |
| | logins: 2 of 2 clients, lockout after 2 failures, guard of 1 entry, clock to 2; or 1 account change | `AuthSound` (`LockoutKept`, `OldSessionsEnd`) |
| | 2 API calls of 2 clients, half a token a tick, shard of 1, clock to 5 | `APISound` (`APIBudget`) |
| `upstream` | a query and a probe, 3 connections, pool of 1, circuit opens after 2 failures, every transport | `ConnsSound` (`ConnExclusive`, `SocketsAccounted`, `CurrentQuicOpen`), `CircuitRearms` |
| `guards` | DNS: 2 clients of one prefix, 2 queries at a time, maps of 1 entry, clock to 3 | `LimitsHold` (`AdmissionBounded`, `MapsBounded`), `FloodContained`, `BlockKept` |
| `services` | UDP: 2 workers, queue and batches of 2, 3 datagrams | `UDPSound` (`DatagramsAccounted`, `BufferExclusive`, `WaitersServed`, `DrainBeforeClose`), `ServicesEnd` (`ServeEnds`) |
| | listeners: 2 callers, 2 restarts, TCP, DoH and DoQ, results channel of 1 | `ListenersSound` (`ListenersTracked`, `RestartOutcome`, `WebServerBack`), `ServicesEnd` (`RestartReturns`) |
| | query log: queue 1, batch 2, stream 2, window of 2 hours, 3 records, 1 clear or crash | `LogSound` (`TotalsAreSlotSums`, `AggregateIsStream`, `ClosedMeansDrained`), `ServicesEnd` (`LogCloseReturns`) |
| `control` | 2 requests, 2 accounts, 2 writes, 1 reload, rebuild or crash | `ControlSound` (`SecretOnDisk`, `LiveMatchesConfig`, `OperatorTold`, `GeoFollowsConfig`), `RevokedStayRevoked` |
| | every section's documents, 2 boots | `ConfigSound` (`RestartIsIdentity`, `NoPlaintextWritten`) |
| | 3 binaries, 2 callers, 3 releases, 4 installs or restarts | `UpdatesSound` (`SidecarNotAhead`, `RunningKept`, `AnnouncedIsInPlace`), `InstallsAtomically` (the refinement of `AtomicInstall`) |
| | 3 addresses, 2 threads, 3 operations | `BannerSound` (`BlocksSurvive`, `UnblockIsComplete`, `DropIsList`) |
| | geo tables: 3 bits, up to 3 ranges | `GeoTablesExact` (`TableExact`, `SplitExact`), up to the top address |
| | answers: 1 question (2 keys), 2 goroutines, 2 sets, clock to 2, TTLs 0 and 2 against a configured 1, L2 writes held up for any time | `LifetimesSound` (`OverstayBounded`: copying between layers never adds more than one configured lifetime to what the write's delay adds) |
| `filter_user_lists` | 1 list, 1 refresher, pattern entries | violation, see section 6 |
| `l2_close_race` | 2 callers, 3 writes, queue 1 | violation, see section 6 |
| `settings_overlap` | 3 setter calls, 1 client | violation, see section 6 |

In `cache`, `addresses`, `reload`, `query_path`, `services` and `control` a behaviour
follows one component, chosen by `focus` in the initial state, while the others keep
theirs: the components do not share state in the model, so their instances add up instead
of multiplying.
Three components come in two slices each, of which every behaviour stays in one.
Configuration writes change the settings (`settings`) or the accounts (`accounts`);
logins meet a running clock (`lockout`) or a changing account (`session`); the
resolver serves one client whose nameserver lookups nest (`nested`), or two that share
lookups which find glue (`shared`). What would need both slices at once is not checked:
a settings change crossing an account change, a lockout crossing an account change, a
shared lookup that itself nests.

Several properties have an exception for a race the code really has, tracked by a
history variable and named in the property's comment: outside the race the property
must hold, and section 6 lists the race.

### Bounds

Bounds are CONSTANTS whose names start with `Max`, or sets. They are chosen so
that every limit is met: the second key of the shard in `cache` overflows the cap, deletes
and two more sets fill the queue past twice the cap so that compaction runs, and two
goroutines put a get inside another's eviction. In its writer one write is
queued, one batched and one falls back to a synchronous SET. The lifetimes of the
answers in `control` lie on both sides of the configured one, and the clock runs on while
both writes are queued, so a delayed copy is read back after its answer is due. In `query_path` the two queries and the
refresh are enough for a leader, a follower and a caller with another deadline.
Three clients on two addresses exhaust the pool in `addresses` while a
declined or offered address is withheld. Three connections let each of two
queries hold one while a third is pooled or has been replaced.
`MaxPerShard` 1 in `guards` makes every second client an eviction. `dhcp_race`,
the leases of `addresses` and `reload`, the queries of `query_path` and `upstream` have no bound on time
or on the number of steps.

Three upstreams leave a middle one between a slow first and a last, and 6 ticks
divide by 2 and by 3 (`FWAssumption` asks for a tick per upstream: with less there is no
fair share to speak of). One host looked up at two depths is enough for a walk to need
its own host, and its key without the depth is the mutant that makes it wait for
itself.

In `services` the queue of two fills with two of three datagrams while both workers
wait for the writer, and a batch of two can be sent in part. Two restarts are enough to
overlap, and a third protocol lets one fail after two have bound. A stream of two
entries trims with the third record. In `addresses` one country's files can be torn while
the other's are whole, and three refreshes or restarts let a torn file be loaded and be
repaired; in `reload` two lists let an edit of one cross the download of the other. In `control` three
bits hold every relative position of two ranges and both ends of the address space; two
requests cross between
resolving and applying, and two accounts let one be withdrawn while the other stays;
three releases and four installs let a backup be overwritten twice. `ALPause` and
`DAPause` bound how many ticks a goroutine may take from reading the clock to taking
the lock, which the Go scheduler does not bound: `ALAssumption` says how much slack
the ten-minute idle eviction leaves for it. A tick of `DashboardAuth` is a window, so a
pause of one tick is far beyond what a login takes.

Between them the passing runs fire every action. Deadlock is checked in `query_path`,
`upstream`, `dhcp_race` and for the leases of `addresses`. In the others the system may stop: after Close or
Shutdown nothing has to happen, and the clock, edits, restarts and installs are bounded.
Symmetry is used where only safety is checked.

### Fairness

- `L1Shard!FairSpec`: a goroutine inside the eviction loop runs on; nothing in
  the loop blocks and it holds the lock. Other goroutines are not owed anything.
- `L2Writer!FairSpec`: the writer goroutine and a Close that has begun run on:
  each of their blocking calls is bounded (`writeFlushTimeout`) or waits for the
  writer. Callers are not fair, and Close need not be called.
- `QueryPath!LiveSpec`: goroutines that can run do, and the contexts' deadlines
  pass (`context.WithTimeout`). Upstreams owe nobody an answer: the end of a
  flight is not fair.
- `Upstream!FairSpec`: time passes and queries under way go on (every exchange
  has a deadline). `CircuitRearms` assumes a server that is well from some point
  on; it assumes no further traffic, since the breaker re-arms by time alone.
- `UDPServer`, within `MCServices!MCFairness`: the read loop once its socket is
  closed (ReadMsg returns at once), dispatch, workers, writer and Serve run on: none of
  their blocking calls waits for the network except the send, which returns an error
  or a count. Datagrams are not owed.
- `Listeners`: a Restart that has begun runs on, and somebody drains the results
  (main.go's goroutine). Binding may fail at any time.
- `QueryLog`: the writer runs on, its flush bounded by a timeout. Close is not owed,
  and neither is a successful flush.

## 4. Proofs

The theorems hold for every value of the constants: any number of goroutines,
clients, keys and connections, any cap, pool, threshold and duration that
satisfies the modules' named ASSUMEs: sizes are naturals, zero only where the
code allows it; sets are finite where something is counted; there is a worker where
datagrams are handled and a thread where queries are; the placeholder values differ
from what they stand in for, a group's name from no name (`CIGroupsNamed`) and a lease
from its absence. TLC evaluates the ASSUMEs in the runs.

Every proof has the same shape. An invariant is strengthened until it is inductive, TLC
checks the stronger one on the run's instance first, and then there is one lemma for the
initial states, one per action (`...Keeps`, `...OK` or the component's prefix and the
action), one for the step, and the theorem. The invariants that need the most beyond
the property are explained in the table and where their part of a module begins.

| Module | Theorems | Inductive invariant and why it is needed |
|---|---|---|
| `L1ShardProofs` | `TypeCorrect`, `CapacityHolds`, `EveryLiveKeyQueued`; together `ShardHolds` | The cap is reached only if the loop can find what to evict: a queue run empty must mean an empty map, which is `LiveKeysQueued`; that in turn holds because only the owner of the lock is inside the write section (`LockOwner`) and compact's unread slots count as slots (`Compacting`) |
| `DataProofs` | `NoSilentLoss`, `CloseCommits`, `ClientClosedLast`; with `TypeOK`, `WriterHolds` | `Holding`: a caller holds a write exactly while inside `enqueueL2`. `Shutdown`: what the phases of Close and of the writer imply about each other, where an owed write can be, and that a caller about to send after Close took effect is one of those Close found there (`crossing`) |
| | `LogHolds` | `QLInv`. `LogCounts`: an entry is in one place, so queue, batch, stream and fold together never hold more than was recorded. `LogAgrees`: the totals are the sums of the slots, and the entries flushed but not yet folded are the end of the stream, so that each slot holds as many entries of its hour as the rest of the stream. `LogDrains`: what the queue holds after the writer's exit was sent while Close ran. Totals and slots are sums by recursion over hours and over a stream; every fold, expiry and seed is shown to move a sum by what it moves its slot |
| | `TablesHold` | `GTInv`. `Merging`: the table built so far is in order unless `WrapsOver`, and once it reaches the top address all that is left does too, so a wrapped `end+1` loses nothing; in an ordered table the binary search finds the first range that does not end before the address (`SearchIs`). `Splitting`: the blocks so far tile what is before the next start, and their sizes have only grown or are shrinking (`Growing`, `Shrinking`), which bounds their number by the width |
| | `WalkHolds` | `QWInv`. `QWGoing`: a walk under way has shown everything that was in the stream all along and that it is past, and is past whatever it has shown; the boundary message is the only one two pages share, so none is shown twice and none skipped, though it may have been trimmed in between. `QWNewest`: what an undisturbed query holds is the newest part of the stream, so that the rank of its k-th match among all matches is k (`RankOf`). `QWCleared`: what was cleared is in no walk that no Clear crossed. The heap of `topN` is shown to hold the strongest of the names met so far after every step of the pass (`Strongest`, `KeepStep`, `KeptFacts`), and the ranks of a finite strict order exist (`RankedFacts`) |
| `ResponseCacheProofs` | `TypeCorrect`, `OverstayHolds`; together `LifetimesHold` | What a Lookup stores was read some time before: `Fetched` says that at the clock reading the call began with it was not past its due time by more than its write had been under way; it rests on `L2Live`, that Dragonfly keeps no entry longer than that, and so on `Landing`, that a write carries the whole lifetime its Set gave it, however late it lands |
| `QueryPathProofs` | `TypeCorrect`, `AtMostOneReplyHolds`, `StaleBeatsFailureHolds`, `WritesBoundedHolds`; together `RepliesHold` | `ToldClient` ties what a query has written to its step: before the end only the stale race may have written, and then the stale entry |
| | `IdentityHolds` | `Chosen`: a cached policy, and one on its way into the cache, is that of the scan. `Counts` bounds the cache by its own count plus a cache's worth per query that is between clearing the map and resetting the count; it needs the two sides' products, hence `Distribute` and `AtLeastOnce` |
| | `ForwardHolds`, `RaceAlwaysGoesOn` | In a sequence the time left is at least the even share times the upstreams left (`EvenShare` is what makes an integer division keep that); in a race every upstream asked still runs, has its result in the channel or has failed, and their number adds up |
| | `RecursionHolds` | Waiting goes from a depth to the next (`RCLooking`), so a set of walks each of which waits for one in the set has no walk of least depth, and is empty (`NoRing`, by the well-foundedness of the naturals) |
| `FilesProofs` | `LeaseIndexedHolds`, with `TypeOK` `LeaseTableHolds`; `NoSharedAddressHolds`, `DeclinedWithheldHolds`; `PtrFollowsTableHolds` | Without reloads `LeaseIndexed` is inductive with the types, for any number of packets at once. The other two need packets one at a time and reservations outside the range (both fail otherwise): what a client believes is backed by the index (`HeldIndexed`), an offered or declined address is leased to nobody else (`HoldsClear`), and what a handler found out before it gave up the lock is still so when it commits (`CallsClear`). The names follow the table with and without reloads, from the types of the table alone |
| | `ConfigHolds` | `Restartable`: once the program has saved and runs, the file holds what is in memory, and that document is `Steady`: Load migrates nothing in it and adds no secret, and validate accepts it and rewrites nothing, but for doubled dots. It rests on validate's normalisation being idempotent, section by section, on the documents it accepts (`DomainAgain` and the lemmas after it) |
| `UpstreamProofs` | `TypeCorrect`, `Exclusive`, `Accounted`, `QuicOpen`; together `ConnsHold` | `Fits` says at which steps a query has a connection in hand; `Kinds` keeps pool and QUIC connection to their transports |
| `GuardsProofs` | `TypeCorrect`, `Admission`, `Bounded`, together `LimitsStand`; `BlocksStay`, `Containment` | A bucket's `lastSeen` may go back but is never in the future (`Seen`), and a bucket without a block never holds more than the ideal one held at `lastSeen` (`Earned`), so refilling twice from an older reading gains nothing |
| | `AuthHolds` | `EntryOK` ties an entry's lock to its failures and its last one, which expiry and eviction go by; `Together` pairs a password with its own secret in the account, in every snapshot and in every cookie; `LockStands` keeps a lockout in the entry it began in |
| | `BannerHolds` | The three properties speak of moments when nothing is under way. `Promised`: what was acknowledged can be read off file and saved config; `Follows`: and off the banner. `AtRest`: the banner is the one a rebuild would make now, but for what a failed write left `behind`, and the drop set agrees with it but where it was `undropped`. `Blocking`, `Unblocking` and `Quickly` say the same of a call under way, but for its own address; `Rebuilding` how far a rebuild has come. A restart needs `Promised` only, which is why it ends the exemption of operations that met |
| | `ControlHolds`, `WithdrawnForGood` | `AllMade`: every secret and password in use was issued, so a new one is new; `NoneRevoked`: neither memory, file nor a request that is not stale holds a withdrawn one; `GeoUnderWay`: the last geo build is of the configuration in memory |
| | `RulesHold`, for manual entries without patterns (with one, `RulesCurrent` fails: section 6) | `Clean`: the working sets hold nothing but what the enabled lists and the manual entries say, and whoever may still be loading, what the lists that no loop has to do say is there already (`Has`), so a second ReloadAll's Reset takes the place of the first's; `Rests`: with nobody between a Reset and the end of a Compile, what is published is what was compiled; `Gated`: a published address rule has the gate up unless a Reset is between its two stores. The blocks the whitelist strips decide no query differently |
| `ServiceProofs` | `ConnLimitsTyped`, `ConnSlotsExact`, together `ConnCapsStand`; `ConnRefusedOnlyAtCap`; `SettingsTyped`, `SettingsAreKept`, `SettingsClosedWasReplaced`, `SettingsMemo`, together `SettingsStand`; `APITyped`, `APIWithinBudget`, together `APIStands` | `CLInv`: `CLHeld`, that an open connection is counted by the limiter it was accepted under, makes the counts cardinalities of sets of connections. `HSInv`: a call in hand changes its own field only, of a copy whose numbers were all given out (`HSCallOK`); what is published of an upstream field was made (`HSMadeOK`), and the configuration's next one is newer than any before (`HSNewest`). `ALInv`: a bucket set back by an older clock owes no more than the time it was set back by, and what a client got through is covered up to its bucket's clock, or up to now if its bucket was evicted (`BucketOK`); eviction is covered because an idle bucket would be full again, `ALAssumption` |
| | `UDPHolds` | `Held` counts the buffers where they can be (the reader's slots, queued, in a worker's hands, free) against those made; `SlotsApart`, `JobsApart`, `WorkApart`: no two owners have the same one; `Owed`: a waiting worker's reply is in exactly one place; `Winding`: the order in which reader, workers, writer and Serve end |
| | `ListenersHold` | `StageOK`: what is open at each stage of a Restart that met no other; `Places`: its generation is its own. `WebAged`, `WebFresh`, `WebGoes`, `WebOne`: every generation of the web server that is open is the current one or has a job that closes it |
| | `GeoIsKept`, `GeoNeverForgets` | `Building`: a table under construction holds, for each file it has read, what was last downloaded or what the file holds; `FilesBehind`: the two differ only where a write did not complete, and a file exists once something was downloaded; `LiveBehind`: the live blocker is never ahead of what was downloaded |
| | `UpdatesHold`, `UpdatesAreAtomic` | `SelfInstalls` and `SidecarClaim`: which image is under which name at each step of an install; `OneInstall` while none crossed. The refinement maps the files to the image in place, or the one to be restored: moving the first image to the free name next to it maps to a stutter (`MovedDown`), the swap to the atomic install |

Only model-checked:

- the liveness properties `EvictionTerminates`, `WriterProgress`, `QueriesEnd`,
  `CircuitRearms`, `ServicesEnd`: fairness and ENABLED are out of the prover's reach;
- the stronger invariants of `DHCPLeases` under reloads (`LeaseIndexed` and
  `NoSharedAddress` do fail there, section 6);
- the violations.

The library's induction theorems take an operator as a parameter, which the provers cannot
instantiate. Where a component is defined by recursion over its data (hours, a stream, a
table, powers of two, the pass over a map), `DataProofs` inducts over sets instead: a set of naturals that holds
0 and is closed under successor holds them all (`Induct`, from `NatLessThanWellFounded`), and
from it a function that satisfies a primitive recursive equation exists (`PrimRec`), so that
the one the module chooses satisfies it too. `NoRing`, `LeastPooled`, `FirstExists` and
`FirstGroup` take a least element of a set of naturals in the same way. RECURSIVE operators
are not used.

## 5. What is not modelled

Of the modelled parts: wording and layout of replies, EDNS, logging and
statistics; parsing of specifications and URLs; the sizes chosen from the
machine; forward host names (the reverse index stands for both); DHCP listeners
and options; cryptography. In `QueryPath` a resolution is one step whose outcome
`Forward` and `Recursive` detail. The resolver's delegation cache and connection pool
are left out: the first only shortens a walk, and the second is the pool of `Upstream`
again, with a bound on its keys. IPv6 geo tables work like the IPv4 ones. In `Guards`
the honeypot's call of the IP banner for trusted transports is left out.

Of the other parts see `PROJECT.json`, which gives a reason for each. Stateful and
left for later: the VPN manager's profiles and routes, the tunnel's subprocess, the
cache warmer, root trust anchors, ACME and certificate files, the lease file under
crashes. DNSSEC validation would be an oracle for its signatures, and what is left is a
bounded walk. Left out for good are the parts that keep no state of their own or only
move bytes: catalog, hashing, tuning, service notification, VPN relay and vendors'
APIs, diagnostics tools, installer, web interface, benchmarks.

## 6. Findings

Four runs show the code doing something its comments deny.

- `dhcp_race` / `NoSharedAddress`: two REQUESTs for one free address both pass
  `inUse` before either commits (`dhcp/handler_v4.go:123`), and both clients are
  acknowledged; `dhcp.go:157-158` says the server is safe for concurrent use.
- `filter_user_lists` / `UserListsUntouched`: `Engine.Reset` (`filter/engine.go:181`)
  empties the compiled patterns of the manual lists, and no caller of `ReloadAll`
  sets them again, so a manual `/pattern/` entry works until the next reload, which
  the boot itself does (`src/cmd/irongrid/main.go:200, 211`). `filter/lists.go:116-117`
  says the user lists are untouched.
- `l2_close_race` / `NoEntryLost`: `enqueueL2` loads `wclosed` and sends in two steps
  (cache.go:239), so a caller may send after the writer has drained its channel and gone,
  and the entry is lost; 335-338 says such a caller falls back to a synchronous SET, and
  231-232 that batching must never lose an entry.
- `settings_overlap` / `SettingNotLost`: a setter copies the snapshot before
  `swapSettings` takes the lock (dnsserver/handler.go:338), so of two that overlap the
  second undoes the first one's field and may publish upstreams again that the first one
  closed; 335-337 says that two concurrent reloads cannot interleave. Reloads hold
  `cfgMu`, but the rebuilds of geo data and client groups and the OnChange hook do not.

Further divergences between code and comments met while modelling, without a
run of their own (each property that one of them would break excludes it by a history
variable, or is stated weaker, and says so):

- Response cache: `Lookup` re-caches what it read from L2 with the configured TTL
  (cache.go:810, 819), not with what is left of the entry's own, as `Get` does and
  613-615 and 1066-1069 require; `OverstayBounded` bounds what that adds. A write that was
  held up gives its copy in Dragonfly the whole TTL from the moment it lands, so Dragonfly
  does not expire "its copies at the same TTL" (l1.go:32-33) but later by the delay.
- Query path: whether something is stale is read at lookup; a SERVFAIL cached later hides
  an answer that has gone stale meanwhile (handler.go:1385; 1375-1378 says it must never).
- L1: `compact` keeps duplicate slots of live keys, so delete/set churn grows the
  queue past the bound l1.go:186-188 states. The referenced bit is stored
  after RUnlock (l1.go:156), not under the lock as l1.go:212, 217-218 say. The lazy
  delete acts on a key, so it may drop a fresh entry stored since the lookup (163).
- L2: with a full queue the newer write of a key is SET at once and the older,
  still queued, lands last (cache.go:246; ordering promised at 91-92).
- Response cache: a Lookup that has read L2, or a queued write, re-creates an entry
  after FlushAll, which "clears every cached entry" (cache.go:1086).
- Query path: `resolveAndCache` stores answers without the DNSSEC, IP and CNAME
  checks (handler.go:2348), although 1328-1329 says a stale answer was validated
  when cached. An expired cached SERVFAIL is itself taken as the stale answer
  (1147). A panic in a single-upstream or sequential resolution is on a goroutine
  that recovers nothing (1203), although 649-655 says it costs one query.
- DHCP: `inUse` changes the maps under the read lock (handler_v4.go:281). A
  reservation outside the range is offered and then refused (handler_v4.go:123;
  src/README.md:608-615 configures one). Reserved addresses inside the range are
  leased to others (pool.go:139; config.go:130). A client that moves leaves an
  index entry behind, through which a decline or reclamation of the old address
  deletes its new lease (pool.go:350). A reload keeps the static lease of a removed
  reservation (dhcp.go:410) and merges an older file into the live table
  (dhcp.go:206), bringing back released leases. Expired leases keep their names
  until somebody else wants the address (dhcp.go:500; 515 says otherwise).
- Upstream: a query under way when Close drains the pool puts its connection back
  afterwards (upstream.go:581; 621-624). A QUIC connection that died by itself is
  replaced without closing its socket (doq.go:97-98; 79-82). CooldownUntil can be
  set while the circuit is closed (758-760).
- Guards: NoteNX clears a running block once the window is over, though
  nxguard.go:130-132 speaks of an expired one; a burst after the cooldown but inside
  the window does not trip the guard again (112-115). A query in flight for another
  name clears the repeat guard's own block (repeatguard.go:112-114); the limiter's
  copy of the block is what holds (`BlockKept`). The dashboard's unblock leaves the
  repeat guard's block in place (handler.go:614; ratelimit.go:274-276).
- Forwarding: in a race the first reply wins whatever its rcode, so a fast SERVFAIL beats a
  slower answer; `FailureMeansAllFailed` asks more of a sequence only. A single upstream
  that returns neither reply nor error is passed on as an answer without a message
  (handler.go:2148-2153).
- Recursive resolver: NS records are looked at before the answer (resolver.go:226), so a
  complete answer with an authority section in a zone already visited is returned without
  chasing its CNAME (235). A lookup shared through nsFlight runs under the context of
  whoever came first, and ends with it for all. poolKeyCount is read and added to in two
  steps, and Close does not reset it.
- Settings: an ASN computed from the old tables may be stored in the memo after the swap
  that cleared it, and stays until the next swap, though handler.go:464-466 says that any
  swap clears the memo, so it never goes stale.
  A replaced client router's upstreams are never closed. A reload closes the old cache
  while queries of the old snapshot still use it.
- Listeners: Restart stops every listener before it binds, so a failed bind leaves nothing
  of that protocol (servers.go:439; `src/cmd/irongrid/main.go:976-978` says a bad config
  leaves the running server untouched), and the upstreams built for it stay open. UDP, TCP
  and DoT failures only reach the results channel. startDoH takes the shared slot before it
  binds, so two restarts at once may orphan a listener. Web server rebinds in goroutines of
  their own may finish out of order; one that fails to start is logged and not retried.
- UDP server: an error of sendmmsg on the first message fails the whole batch
  (udp_server.go:496; 460-467 says otherwise), and `finished` is closed before the socket.
- Query log: a Clear between a flush and its fold, or a flush that failed after it landed,
  leaves the aggregate different from the stream, which writeBatch says it always equals.
  A statistics walk during Clear caches the old numbers. seedAggregate walks the stream
  upward (querylog.go:364), so what it skips at its scan bound is the newest entries, not
  the oldest as 353-354 says.
- Geo: `end+1` wraps when ranges are merged, so a range up to the top address with a
  shorter one inside it is lost to lookups (`TableExact` excludes that case,
  `WrapsOver`), and splitting a range that ends at the top address does not terminate
  (geoip/table.go); `SplitExact` speaks of splits that end. The cached lists are written
  in place (geoip.go:412): a write that fails or that a crash cuts leaves a torn file,
  and if the next download fails, a refresh or a restart enforces what is left of it,
  although 226-228 says the last known data stays enforced. `LastKnownEnforced` and
  `NeverForgets` speak of the files whose last write completed.
- Configuration writes: accounts and session secret are read before cfgMu is taken, so a
  slow PUT may bring a revoked session back (handlers_config.go:950). A failed save keeps
  the edited accounts with the old secret. configPayload omits `server.allow_from`,
  logging, `upstream_health`, `dnssec.validate_locally` and the web tokens, which a save
  from the dashboard drops. Geo rebuilds run unordered. Save overwrites the file in place.
  A backup with a legacy password brings its old session secret back (backup.go:196-205).
- Configuration rules: `allow_from` and duplicate static leases are not validated;
  normalizeDomain strips one trailing dot only, so a saved ".." is refused by the next
  Load. config.go:736 says plaintext passwords are hashed on load; only Save does it. Load
  without a file returns no session secret.
- Filter: a deleted whitelist entry acts until the next ReloadAll; concurrent ReloadAlls
  are not serialised and an empty rule set is published meanwhile. One of them that took
  its snapshot of the specs before a list was disabled still loads that list, and if it
  does so after the edit's own Reset the disabled list stays in force: the only overlap
  `RulesCurrent` exempts. Reset lowers the address gate before it withdraws the rules
  (engine.go:189-190), so for a moment published address rules are not applied; `IPGateSound` allows
  no other. One failed list of FetchAll skips the reload.
- Logins: loginguard.go says a success never cuts a lockout short, but an attempt that
  passed the check before it does; a failure that read its clock earlier may shorten one.
  The API limiter's buckets may go below zero for the same reason; `APIBudget` holds.
- IP banner: snapshots are persisted after the unlock, possibly out of order; a block on a
  banner that is being replaced is lost; unblocking a configured address removes it from
  the firewall only; a failed persist skips the firewall. blocked-ips.txt is written in
  place (banner.go:413), so a failed or cut write may lose other addresses' blocks too. A
  quick block whose save fails (handlers_abuse.go:158) stays in memory, neither saved nor
  enforced, and trying again is answered "already" (141-143) without saving.
- Updates: a crash between the two renames leaves no binary at its path, though the
  comments say "atomically". cfupdate and dflyupdate ignore a failed backup rename, so a
  failing swap may restore an older image, and cfupdate takes no lock against the boot
  check. A second self-update before the restart installs beside the `.prev` name
  (os.Executable), though handlers_update.go calls the swap safe to retry.
- Read, not modelled: WarmNow during a pass is buffered, not ignored; a tunnel Stop during
  Start is lost; VPN profiles fail with EEXIST after a crash, and Reconcile after Close
  brings tunnels up again.

## 7. Plan

Done: every module of section 2 is model-checked, and every safety property the passing
runs check is proved. What is left to the runs is the liveness properties (section 4).

Proofs to add, most useful first:

1. That the L1 and the write queue of `ResponseCache` are implemented by `L1Shard` and
   `L2Writer` (refinement mappings).
2. Type correctness of `DHCPLeases` with reloads, and what survives of `LeaseIndexed`.
3. That what `QueryLogWalk` reads is the stream `QueryLog` writes: the two share its
   append, trim and clear, but not a variable.

Modules to add: `Anchors` (tiers and overlapping refreshes), `Lifecycle` (tunnel and VPN
managers, stop during start), `DHCPPersist` (the lease file under crashes and failing
writes), the resolver's connection pool, the cache warmer.
