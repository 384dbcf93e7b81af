# Verification of sov-explorer

TLA+ models of the explorer in `src/`, the TLC runs that check them on small
instances, and TLAPS proofs of what holds for every instance.  The explorer
follows one or more Sovereign networks through a pool of relays, keeps a
bounded index of the newest blocks in memory and, optionally, all blocks in an
SQLite archive, and serves both over REST, GraphQL and a WebSocket feed.

## 1. Inventory

Everything runs in one Node process on one event loop (per role), so code
between two `await`s is atomic and concurrency is the interleaving of the
continuations: the tick of each network's indexer, each HTTP request, each
socket event, each timer.  The relays, the browsers, the file system and the
process manager act at any moment in between.

| Part | State | Operations | Meets |
|---|---|---|---|
| Indexer (`src/src/indexer.js`) | the tick in progress, `_archiveRestored`, `_lastStatsAt` | `init`, `syncOnce`, `chainWasReset`, `indexRange`, `backfillArchive`, `refreshFinality`, `refreshChainStats`, `backfillExecutionStatuses`, tick loop | relay pool, store, archive, hub (callbacks) |
| Hot store (`store.js`) | blocks by height and hash, transactions, account and proposer indexes, byte and signature counters, chain statistics, sync status | `addBlock`, `_evict`, `reset`, `setSyncStatus`, readers | indexer, REST, GraphQL |
| Durable archive (`archive.js`) | SQLite: blocks, transactions, accounts, objects, events, meta | `ensureIdentity`, `putBlocks`, `clearChainData`, `updateTransactionReceipt`, rebuilds on open, readers | indexer, REST, serve replica |
| Relay pool (`rpc.js`) | per relay: enabled, verified, healthy, height; pinned identity; cached probe; cursor | `verifyRelays`, `probe`, `call` with failover, `blockWithDigest` | relays, indexer, REST |
| REST (`rest.js`) | page cache | every GET; on-demand reads that write the archive | store, archive, pool |
| WebSocket hub (`ws.js`) | clients, count per address, shared count | upgrade, drop, heartbeat, broadcast, stop | server, indexer callbacks, sockets |
| API access (`api-access.js`) and key manager (`scripts/api-key.mjs`) | key records, per-key quota; the key file | authorize, reload; create, revoke, rotate | server, SIGHUP, each other through the file |
| Rate gate (`limits.js`) | fixed windows | `allow` | server |
| Server (`server.js`) | the wiring of the parts, per network; roles all / ingest / serve | routing, serve refresh, shutdown, SIGHUP | all |
| GraphQL (`graphql.js`), metrics (`metrics.js`) | none; counters | query, render | store |
| Web client (`web/*.js`) | the page, the feed, the poll | render, reconcile | REST, hub |

What is hard to get right, and must hold:

* the relays may reorganise, lag, go down, disagree or be wiped between any two
  awaits of a tick: the index must stay one chain, never mix branches, never
  wipe a live chain, and come back to the head when they settle;
* a batch, a wipe, or `init()` may fail half way, and the process may die at
  any await: what is on disk must remain a prefix-closed piece of one chain;
* browsers hold what the feed announced: they must be told when it is dead;
* requests write to the archive too, at any moment;
* capacity counters, eviction, caches and windows must be exact at their limits.

`PROJECT.json` lists each hazard at its line.

## 2. Modules

Each component has one module, named after it; `MC...` modules give the constants
of an instance, `...Proofs` modules hold theorems.

| Module | Subject | Built from |
|---|---|---|
| `IndexerSync` | the tick of the indexer with the slices of pool, store and archive it drives | |
| `IndexerRest` | the same archive written by requests at the same time | extends `IndexerSync` |
| `Receipts` | execution statuses and finality flags | |
| `RelayPool` | the calls inside verification, probes and block reads | |
| `WsHub`, abstract `Capacity` | the feed's hubs; they implement `Capacity` | `WsHub` instantiates `Capacity` |
| `ObjectIndex` | the object tables of the archive | |
| `HotStore` | the tables in memory, with eviction | |
| `ServeReplica` | a serve-only process that refills a store from the archive | extends `HotStore` |
| `ChainStats`, `ApiReads`, `GraphQLRoots`, `GraphQL` | what is read from the store; its caches; the fields of a query; its parser | each extends the one before, `ChainStats` extends `HotStore`; `GraphQLRoots` also `Sums` |
| `RateGate`, `Metrics`, `Gateway` | admission, counters, and the requests and process that use them | `Gateway` extends both, each extends `Sums` (the sum of a function as a cardinality) |
| `ApiKeys` | the key file between its manager and the server | |
| `WebClient` | one open page | |

One run per composition checks its safety and liveness together; a violation run
shows one disagreement of code and comment.  Two abstract specifications are
stated: `Capacity`, which `WsHub` implements (checked and proved), and, as
invariants, what each cache or derived table must equal (`StoreSound`,
`ListsSound`, `StatsFresh`, `CatalogSound`).

## 3. IndexerSync

A step is a maximal run of the code between two awaits.  `pc` names the await a
tick stands at:

| `pc` | the tick waits for | next step |
|---|---|---|
| `idle` | the timer | `InitVerify` (chainId unset) or `ReadHead` |
| `bootGenesis`, `resetGenesis` | the genesis digest in `init()` | `InitGenesis`, `InitFails` |
| `head` | `rpc.height()` | `ReadHead` |
| `checkGenesis`, `checkTip` | the digests of `chainWasReset` | `CheckGenesis`, `CheckTip` |
| `resetVerify` | `verifyRelays()` after a wipe | `InitVerify` |
| `fetch` | blocks of an `indexRange` batch | `FetchBlock`, `FetchFails`, `CommitBatch`, `CommitFails`, `RejectBatch` |
| `backfill` | blocks of a `backfillArchive` batch | `FetchBlock`, `FetchFails`, `BackfillCommit` |

State: the chain each relay serves and whether it answers; `trust` and `pinned`
(verified, quarantined, `expectedGenesisHash`); the store (`known` is a set
chainId, `genesis`, `hot` by height, `tip`, `phase`); the archive (`archive` by
height, `archiveId`); and `feed`, what a browser connected since the process
started has been told since the last reset.  A block stands for its record, its
identity is its hash and `Prev` its prev_hash.  History variables: `owed` (a
wipe not yet announced) and `spliced` (a first sync ran over an archive that
`init()` had not restored); no guard reads them.

The environment moves a relay to any chain (reorganisation, rollback, lag,
catching up), takes it down and up, fails an archive statement, and kills the
process at any await.

Abstracted: the probe is one step (its cache and its inner awaits belong to
`RelayPool`, section 6); a block request is one answer of some active relay; `live` stands
for `live` and `degraded`; `verifying` lasts no await and is skipped; receipts,
finality flags and chain statistics change none of this state; eviction by bytes,
which like eviction by count removes the lowest blocks and spares the tip, is
left to `HotStore`; `cleared` with a tip in `init()` cannot happen, as `init()` runs
over an empty store, and `_archiveRestored` is therefore always false where it
is read.  REST writes to the archive are added by
`IndexerRest`, receipts and flags are in `Receipts`.
Without a configured genesis the pool pins the first one it sees and quarantines
the relay after a regenesis, so on such a network only a restart rebuilds the
index; the model has this, and no property asks otherwise.

### What the runs check

`MCIndexerSync` has two branches that fork above height 1, of length up to
four.  MaxBlocks 2, batches of 2, a backfill window of 2 and a live threshold of
1 make eviction, several batches per pass, silent and announced passes, and at
least one backfill batch happen.

| Run | Shows |
|---|---|
| `sync` | two relays, three faults, one restart.  `IndexSound`: types, the tip is held, store and archive are one chain.  `FeedSound`: what browsers were told agrees with the index and is linked, unless a reset is owed.  `ReadyMeansCaughtUp`; `NoSilentRewrite`: no archived block is replaced without a wipe.  Liveness: `Settles`, `ArchiveFills` |
| `sync_lagging` | the code does not keep `WipedOnlyWhenDead`, see below |

Three faults are enough for a relay to reorganise around a failed archive
statement and an outage; the proofs remove the bound for the safety properties.

Fairness: `WF_vars(Tick)`.  Every call has a timeout (`_callRelay`), every
outcome of an await ends in a step, and `tick` schedules itself in every case,
so the loop never stops while the process lives.  Nothing is assumed of the
relays; the liveness properties ask that they eventually serve one branch and
stay (`<>[]OneBranch`).

### Where the code and its words part

1. **Lagging relay** (run `sync_lagging`).  When the best relay is unreachable
   the head is the lagging relay's.  If it is below the tip the index *and the
   archive* are wiped, though "our tip can't exist on the live chain" is false.
2. **Unannounced wipe.**  If `init()` fails after `store.reset()`, the next tick
   neither repeats it nor calls `onReset`: browsers keep the dead view.  The
   properties of the feed except it (`owed`).
3. **Spliced archive.**  `chainId` is set before the rest of `init()`.  If the
   rest fails at boot it is never run again: the archive is neither checked nor
   restored, the first sync starts from an empty store, and after a
   reorganisation the archive can hold two branches and report `complete`.  The
   properties of the archive except it (`spliced`).

## 4. IndexerRest and Receipts

`IndexerRest` adds to `IndexerSync` the requests that fetch a block which the
store and the archive do not know, and archive it, in `/api/block` and `/api/tx`.
What is known is asked by the reference itself (`Known`): a height by height, a
hash and a transaction by their own.  So a request for a block of another branch
is fetched although its height is held, and put over what the height holds.  The
steps are those between awaits: `Request`, for a transaction `ReceiptArrives` (its
height), `Answer` (the pair of a height or of a hash), and `BlockArrives`,
`TxArrives` or `NotFound`; the indexer, a reorganisation or a crash may come
between any two.  `/api/block` keeps its answer for 15 s per reference (`memo`; the
genesis hash in the key is the same on all chains here), `CacheMax` of them; which
entry is the oldest is left open, and that a block is missing is cached too, which
changes nothing and is left out.  One request is under way at a time (bound).
History variables: `byRest` (heights a request put), `seam` (the indexer wrote
beside its own blocks without comparing them, `Uncompared`) and `mixed` (the hot
store was restored over a request's blocks, `Restored`).

| Run | Shows |
|---|---|
| `indexer_rest` | `SharedArchiveSound`: what the indexer itself writes joins, whatever requests left next to it, wherever it compares; `FillsAnyway`, `SettlesAnyway`: holes are filled and the index comes back to ready at its relay's head, on its branch unless it was restored over a request's blocks |

One relay over two branches of equal length that fork at genesis, one fault and
one restart, a store of two blocks, a backfill of one, batches of one, one cached
answer, and requests for every height, hash and transaction: a block can be asked
for before a wipe and archived after it, above the tip, or over a held height, and
be restored.  The relay starts on the first branch; they differ in name only.

`FillsAnyway` excepts an archive that holds a block off the relays' branch, and
`SettlesAnyway` lets dead blocks stay in an index that was restored over a
request's blocks, because the code does not recover from either:

* a request for a hash or a transaction of the other branch, also one that was
  answered before the relay moved, is archived over a held height.  A restart then
  restores a mixture: genesis and tip match, nothing is wiped, and the index is
  ready with a dead block below its tip until that block is evicted or a wipe
  comes.  The same happens when a request for a height is answered after the
  relay moved and the pass has filled that height meanwhile;
* a dead block that a request archived right below the archive's run, after a
  wipe, makes `backfillArchive` throw "does not join" on every later tick;
* a cached answer archives a dead block again for up to 15 s after a wipe;
* a put above the indexed tip leaves a dead top;
* such a put makes `contiguousFromHeight` start up there, so that `backfillArchive`
  (`indexer.js:346-374`) fills from it down to the indexer's blocks and compares
  with the block above only: after a reorganisation two branches meet below.
  `archive.test.js:107` asserts that "an on-demand historical island cannot
  redirect contiguous genesis backfill"; an island above the tip does.

Fairness: the loop as in `IndexerSync`, and `Forget`, the expiry of a cached
answer.

`Receipts` is one network without forks: `attachReceipts` leaves a status open
when a receipt does not come, `backfillExecutionStatuses` asks for the newest
open ones (`Limit` per tick, answers in any order), requests archive blocks
without receipts over records that had one, and `refreshFinality` flags the
blocks of the window.  One transaction per block stands for all of them.

| Run | Shows |
|---|---|
| `receipts` | `FlagsSound`: a flag is never early, and after a pass no deep block of the window lacks it; `StatusesFilled`: once relays answer receipts, every archived transaction gets its status |

Five heights, a store and window of two, one receipt per tick: the indexer falls
behind its window, blocks leave the store unflagged, and a receipt that does not
come holds back the older ones, which is why `StatusesFilled` asks that all
receipts are served in the end.  `updateTransactionReceipt` fills the
transactions table only, not the record of the block; and a block that leaves the
window unflagged stays so in the store (the API derives finality when it is read).
Fairness: `WF_vars(Tick)`, as above.

## 5. WsHub

All hubs of the process with their shared capacity.  Every handler is
synchronous, so each is one action; what makes the accounting hard is that one
connection meets several of them: `end`, `error` and `close` events, a close or
bad frame, the heartbeat, a broadcast, `stop`.

`wire` is the socket as the runtime sees it: `half` after the peer's end (HTTP
sockets are half-open), `ending` after our `end()`, `destroyed` until the close
event.  `buffer` keeps of `writableLength` what the two guards tell apart: room
for a frame, no room for a frame, over the limit.  `hub[s]` stands for
membership in `clients`, `perIp` is 0 where the map has no entry, and `Drop(S)`
is `_drop` called for each socket of `S` in one handler.  A closed socket's name
is used again for a later connection.  `hub[s] # None` also stands for
`sovSharedCapacity`, which is set and cleared together with membership; a
`write` that throws has the effect of an unwritable socket.  Header checks and
the origin check refuse without a trace and are left out.

| Run | Shows |
|---|---|
| `ws_hubs` | `HubSound` (the counts are exact, no hub holds a closed socket, every limit holds); `KeepsCapacity`: the hubs implement `Capacity`, where a connection takes one place of the process, the network and the address or none; `SilentReaped`: a client that never answers goes |

Two hubs with two places between them and three connections from one address:
the last place is competed for across hubs and, since the limits of the network
and of the address are two as well, also within one.  The proofs cover all
addresses and limits.
Fairness: the heartbeat of each hub (`setInterval`, cleared only by `stop`).

A connection whose peer has ended, or that sent a close frame, is in no hub any
more; nothing in the code destroys it, so no property promises that it closes.

## 6. RelayPool

`verifyRelays`, `probe` with its two rounds of calls, `call` with failover, and
`blockWithDigest`, whose two calls run in parallel.  A chain is a sequence of
blocks; a call ends with what its relay serves at that moment.  `probe` and
`read` are the activity under way: which relays have not answered, what was
heard.  The step that takes the last answer is followed at once by the
continuation (`Settling`).  The order of candidates, which depends on heights and
a cursor, is any order.  `still`, `alone`, `moved` are history variables.

| Run | Shows |
|---|---|
| `relay_pool` | `PoolSound`: only relays of the pinned identity are candidates; `Paired`: a block keeps its own digest through failover; `ResultHonest`: a result that is not degraded was cross-checked, and a fork is noticed; `Recovers`: relays that answer again are used again |

Two relays that agree, lag, fork or are of two networks, two moves, no configured
genesis: so that the pin is taken from the first that answers and the other may
be refused.  Fairness: calls end (they have timeouts) and callers come again.

`Paired` excepts a relay that reorganises between the two answers, `ForkNoticed`
also requests that end during the probe: `call` marks a relay unhealthy or
healthy while a probe is under way, and the digest of a relay that was unhealthy
for a moment is not compared.  Two relays that disagree are then reported
`degraded` with unknown consistency instead of divergent, against the words of
`rpc.js:289`, "Two healthy relays that disagree are a fail-closed condition".
Without a configured genesis a regenesis quarantines every relay for the life of
the process.

## 7. ObjectIndex

The tables behind the catalog: `blocks`, `transactions`, `chain_objects` and
`object_activity`, with the foreign keys that connect them.  `PutBlock` is
`_insertBlock`, which runs inside one SQLite transaction: it deletes what is at
the height, lets the cascades run, moves a transaction stored elsewhere
(`INSERT OR REPLACE`) and upserts the object its action names.  `Clear` is
`clearChainData`, which forgets the index version, and `Rebuild` the rebuild at
the next opening of such an archive.  Blocks are put in any order, because the
indexer puts upward, the backfill downward, and a REST request any block again.

A block carries at most one transaction about an object, so a batch is a
sequence of puts; `RebuiltRow` states what the fold over the ordered
transactions computes, as every indexed action sets a status.  Owner, label and
contract events are left out.  `ordered`, `replaced` and `moved` are history
variables.

| Run | Shows |
|---|---|
| `objects_tables` | `CatalogSound`: every row has an archived creator and no object is lost; `CurrentWhenOrdered`: upward puts keep every row exact |

Three branches of up to four blocks, where the claim has another height on the
second and the lock on the third, make a replaced block, a moved transaction and
a creator that falls with its block happen.

What the code does not keep, which the properties except:

1. **Backfill order.**  The block put last decides the status.  An HTLC locked
   below the first window and claimed inside it ends as `locked` when the
   backfill reaches the lock; putting the lock's block again has the same effect.
2. **Failed transactions.**  The execution status is not read: a failed claim or
   refund sets the status of the object.
3. **Moved transactions.**  After a reorganisation a request may archive a block
   whose transaction stands in a dead block below.  `INSERT OR REPLACE` moves it
   up and its object's row falls and is written anew, so a lock that has moved
   above a dead claim is the row's creator though not the first transaction
   about the object (`moved`).

## 8. HotStore and ServeReplica

`HotStore` models `addBlock`, `_evict` and `reset` with the tables they keep:
blocks, hashes, transactions, transactions per account, blocks per proposer,
bytes, signatures, the latest transaction, `tipHeight` and `minHeight`.  A map
entry that is absent is `None`, an empty sequence or a zero count.  `ids[a]` is
`entry.ids` from `entry.start` on, so the compaction of the dead prefix does not
show.  `signed` stands for the signature counters.  A block carries at most one
transaction.  `_evict` is a loop without an await; each round is a step, and
`evicting` keeps every other action out until `EvictDone`.  `Commit` adds what
the indexer adds: blocks above the tip, or a held block again (the finality
refresh).

`ServeReplica` is the other user of the store: `refresh` in `server.js`, which
adds the newest archived records whose heights are not held, in ascending order,
also below blocks it already has.  The archive is what another process makes of
it: `Ingest` extends it at either end, `clearChainData` wipes it.  `records` are
those that the page, read at once, still holds, so that both may come between
two additions.

| Run | Shows |
|---|---|
| `replica_follows` | `ReplicaSound`: the tables stay exact, bounded and keep the newest block also where blocks are added below others; `FollowsTip` |
| `store_reads` | the store under the indexer, below |

Fairness: `WF_vars(Serve)`, as `setInterval` fires as long as the process lives
and no round waits for anything but itself.  `replica_follows` has no
transactions, because of the second of what the code does not keep:

1. **Dead blocks.**  `refresh` looks only for missing heights, so after a wipe by
   the ingest process the replica serves the dead branch next to the new one.
2. **Growth.**  When the newest `maxBlocks` records exceed the byte budget, each
   refresh adds again what the last one evicted.  The ids are appended behind
   live ones, where `_cleanAccountIndex` never drops them, so account pages list
   a transaction many times and the index grows; the latest transaction becomes
   `null`.  The same happens after a wipe.

## 9. ChainStats, ApiReads, GraphQLRoots and GraphQL

`ChainStats` holds what is computed from the store: pages of blocks, recent and
account transactions, search, and the statistics of a window (miners, block
times, version bits), each written as the walk the code makes.  `ApiReads` adds
the caches: the statistics memo (`touchStats`, `stats`) and the pages of blocks
in `rest.js`, whose rows come from the store or one by one from the node, while
the indexer adds, evicts, wipes and the node changes branch; one page is under
way at a time, a batch is one height, and there is no archive (bounds).
`GraphQLRoots` is the execution of the root fields within the budget of the
result and `GraphQL` the parser with its limits; values and tokens are abstract.

| Run | Shows |
|---|---|
| `store_reads` | `StoreSound`: types, both limits, newest block kept; `ListsSound`: every table is that of the blocks held, pages join, all lists show the same blocks and transactions in the same order; `WindowsHonest`: statistics agree with a definition over the set of blocks, a complete window misses no height and its intervals come to the time elapsed, or to more where a header ran backwards; `StatsFresh`, `PageRight`: a cache gives what the store and node would; `ParsesExactly`, `FailureIsolated`: GraphQL takes exactly the queries within its limits and a failing field changes no other |

A store of three blocks with gaps, a block larger than the byte budget, two
branches, empty blocks, a clock that runs backwards once and a block without the
recorded signal word: eviction by count, by bytes and down to the last block, odd
and even medians, and incomplete windows all happen.  The parser's property is
evaluated in the initial state only, as the parser reads no state: over all token
strings up to six tokens (`Inputs`), and over queries as trees beside and beyond
each limit (`Queries`, nested up to `Levels`), each written with every head.  What
a query is and how it is written (`Fields`, `Reading`) is defined without the
parser; its loop is a recursive function on where it stands (`Spots`: position,
depth, fields seen), its limits are those of the code.  The limits of `lex` on
characters and tokens are left out.  Execution is evaluated with the store as it
is.

`PageRight` excepts pages during whose life the node's branch changed: the cache
key holds the tip's height, not its hash, so after a reorganisation that ends at
the same height a dead page is served for up to 15 s.

The comment at `store.js:659-660` says that `complete` is true only with "no holes,
no non-monotonic headers dropped".  The code below it counts a dropped header as
decided (`deltas.length + nonMonotonic`), and `store.test.js:338` expects that.
`WindowsHonest` states what the code means: `complete` exactly when no height is
missing and some interval was measured.  Its second part says what the dropped
header costs a reader of such a window: the intervals come to more than the time
that passed, so the mean is too high.  That the words differ needs no run of its
own.

## 10. RateGate, Metrics and Gateway

`RateGate` is `allow` and `_cleanup` over a wall clock that may be set back once
(bound); `Metrics` the two bounded request maps with their overflow series.
`Gateway` composes them with the life of a request (gate, key, network, body,
work, answer, client leaving) and of the process (start-up, signals, shutdown,
the exit timer).  The statuses are two classes, routes three.

| Run | Shows |
|---|---|
| `gateway` | `GateSound`: what is admitted is what both limits allow, stale keys go; `RefusalsAreFree`: refused requests cost the others nothing; `ReportsSound`: a process that reports success answered what it had accepted, and the counters count every response once within their bounds; `Answered`; `StopsInTime` |

Two clients against limits of one, three requests on two connections, two
windows after the first.  `ClockApart` (a state constraint) keeps the clock at
its beginning while responses are counted or the process starts or stops: the
clock meets neither, and the product of the two would only be larger.
Fairness: `TimerFires`, the timer `shutdown` sets, and per connection the server's
own progress: handlers end and `requestTimeout` closes what waits for a body.
Nothing is assumed of a client.

With the clock set back both counts of a class restart, so the properties of the
gate except it.  Also in the model, as the code has it: a failed start-up calls
`shutdown` and the process ends with code 0 when the server closes; a second
`shutdown` throws when the archive is already closed (exit 1), or without an
archive exits with 0 at once; the quota of a paid key is used up before the
request is found to be a 404, 405 or 503.

## 11. ApiKeys

The key file between runs of `api-key.mjs` (read, change, write a temporary file,
rename; each may fail after the write) and the server, which reads it at a SIGHUP
and installs what it read later.  Two runs and two reloads may overlap.  A secret
is a number and its digest itself; the plan, the expiry and `list` are left out.
`valid`, `retired`, `dead`, `served`, `lost` and `swapped` are history.

| Run | Shows |
|---|---|
| `api_keys` | `FileSound`: the file holds what the operators were told; `RetiredRefused`: a secret that an installed reload has read as rotated or revoked is refused for good; `QuotaHeld`: no key gets more than its quota in a minute through rotations and reloads |

Two keys, two runs, two reloads, three secrets, one request per minute: enough
for a rotation to overlap a revocation and a reload to be overtaken.  Keys and
runs are symmetric.

What the code does not keep: a run that renames over a change it has not read
loses it (`lost`), and of two overlapping reloads the older may be installed last
(`swapped`), which brings a revoked key back until the next SIGHUP.  Every
property excepts both, so the constraint `Unspoilt` stops exploring there; the
inductive invariant was also checked without the constraint.

## 12. WebClient

One open page: the socket, the status poll, the calls of its views in flight,
navigation and network switches.  A view is the overview, the latest blocks, or
`other` for everything that is not live.  A call carries the network and route it
was made for; answers and landings are separate steps, so that calls overtake
each other.  At the server a network has what is indexed, the head its indexer
read last (`nodeHeight`), and `ready`, which every tick takes back while it
verifies and indexes (`ReadHead`, `NotReady`, `Index`, `Ready`) and which stays
false when the tick fails or halts.  A status poll compares tips only when it finds the server
ready, and reloads any live view when the server has become so.  Bounds: two calls
in flight, one navigation or switch, heights up to 2 on the network that mines;
the page opens at any view of either network.  Failing calls and the reload after
a reset are left out.

| Run | Shows |
|---|---|
| `web_client` | `PageSound`: a list is a page of the selected network and its tip is the row on top, up to the exception below; `CountedOnce`: no block turns the rotor twice over feed and lists; `CatchesUp`: the latest-blocks page reaches the tip without the feed, as long as polls find the server ready again and again |

Fairness: the poll timer, and per kind of call that one is answered and lands,
as the server answers every request in the end (`Answered`).  The feed and the
indexer owe nothing: that polls find the server ready again and again is a premise
of `CatchesUp` (`PolledReady`), not fairness.

Where the page is weaker than its comments say:

* `app.js:2818-2819` says the view is reloaded "when indexing has just finished, or
  when the stream is down / has fallen behind", but the comparison asks that the
  server be ready: with the feed down and the server halted or offline, the page
  stays behind what is indexed.  Without the premise `PolledReady` TLC finds
  `CatchesUp` violated so;
* `patchHtml` compares with what it last patched, not with the table that
  `livePrepend` changed since: the same list again is skipped and leaves the
  feed's row with a lower tip (`TopIsTop` states this exception);
* the status poll and the ticker apply answers of the network that was left;
* `TURNSTILE.seenHeight` is not reset by a network switch, so blocks of a lower
  network are not counted; and a block that the feed missed is not counted once a
  higher one was, though `app.js:2783` says the state "stays exact across
  navigation" (`CountedOnce` asks only that none is counted twice);
* a refresh that was answered before the feed's block overwrites its row until
  the next poll;
* a page that missed a reset keeps its dead blocks while its top is above the
  new tip.

## 13. Proofs

`IndexerSyncProofs` proves, for every set of relays and chains and every bound
(assumptions: `BoundsAssumption`, the counts are natural and the batch sizes
positive; `ChainsAssumption`, what relays serve are chains of blocks):

`TypeCorrect`, `TipCorrect`, `OneChainCorrect`, together `IndexCorrect` (the run's
`IndexSound`), `FeedCorrect` (`FeedSound`), `ReadyCorrect` and the action property
`SilentRewriteFree`.

`TypeOK` is inductive.  The rest is not by itself: a commit is safe because the
batch starts right above the tip, and a backfill commit because its range ends
right below the lowest archived block, facts decided several awaits earlier.
`Control` states what a tick may rely on at each await, and
`IInv == TypeOK /\ TipHeld /\ Control /\ OneChain /\ FeedMatchesIndex /\
FeedLinked /\ ReadyMeansCaughtUp` is inductive.  The argument:

* heights are finite, so a non-empty index has a highest and a lowest block
  (`HighestExists`, from the well-foundedness of strict inclusion);
* eviction keeps an upper part that contains the tip (`RetainKeeps`,
  `RetainTip`, `RetainChain`);
* a linked run put on top of a chain, or right below it, gives a chain
  (`PutAbove`, `PutBelow`);
* `IndexStep`, `ControlStep`: one case per action.

`WsHubProofs` proves `HubTypes`, `CountsCorrect`, `CapacityRespected`,
`GhostFree`, together `HubCorrect` (`HubSound`), and the refinement
`HubImplementsCapacity`, for any networks, connections, addresses and limits
(`HubAssumption`: finitely many connections, natural limits).  `CountsExact` is not inductive alone: the name of a new
connection must not be held by a hub, which is `NoGhosts`.  All ways out of a
hub are one lemma, `DropStep`; `StopDrops` shows that clearing `perIp` in `stop`
changes nothing beyond it; `OnePlaceEach` counts connections as places of
`Capacity`.

`SharedArchiveCorrect` (`SharedArchiveSound`) is of `IndexerRest`, where the archive
has a second writer and `OneChain` and `Control` do not hold.  Its invariant
`RestInv` keeps less of a tick, only that the batch starts right above the tip
(`NextToFetch`), and says of the archive that blocks which no request put join
(`OwnSound`); a pass looks at the block below its batch and a backfill at the one
above its range, and where a block of the indexer lies on the other side the step
is `Uncompared`.  A request may put any block at any height, also a held one; the
proof needs only that its height is then a request's (`byRest`).

`ObjectIndexProofs` proves `IndexTypes`, `OrphanFree`, `NoObjectLost`,
`CatalogCorrect` (`CatalogSound`) and `CurrentCorrect` (`CurrentWhenOrdered`) for
any blocks, transactions and objects (`ObjectAssumption`: the maps are functions
and `None` is no value).  `ObjectsListed` rests on `NoOrphans`: a row falls only
when the block of its creator is put again, and that creator speaks of the same
object, so the put writes the row anew.  `CurrentWhenOrdered` is inductive with
these: archived transactions have heights of their own (`HeightsApart`), so first
and last are unique, and a put above all others brings the last.  The attempt to
prove it without `moved` is what showed the third case of section 7.

`HotStoreProofs` proves, for any blocks, sizes and limits (`StoreAssumption`:
positive limits, the maps are functions):

* of `HotStore`: `StoreTypes`, `StoreBounded`, `NewestSpared`, `StoreCorrect`
  (`StoreSound`).  `TypeOK` needs `NewestKept`: only because the block at
  `minHeight` lies below the tip does `minHeight + 1` stay a height
  (`LowBelowTip`, which counts the held heights);
* of `ServeReplica`: `ReplicaCorrect` (`ReplicaSound`).  The byte counter is the
  number of pairs of a retained block and one of its bytes (`Total`), so that
  adding or taking a block is a fact about cardinalities (`TotalAdd`); it needs
  that a block is held at its own height (`Placed`);
* of `ApiReads`, over all branches of the node (`ReadsAssumption`: a branch has
  one block per height and no transaction twice): `TablesCorrect` (`StoreSound`
  with `TablesExact`, `AccountsExact` and `LatestIsNewest`), where `OneChain` is
  what keeps a transaction from standing in two retained blocks; `MemoFresh`
  (`StatsFresh`); `PagesRight` (`PageRight`), where `Laid` says which heights of a
  page are left and `Honest` that the rows so far are those of the heights
  passed; and `ReadersImplementStore`, that every step of the whole is a step of
  `HotStore` or leaves its tables alone (the node's blocks being blocks, by
  the same invariant), so that what is proved of the store alone holds there;
* of `ChainStats` under the same readers: `ListsCorrect` (`ListsSound`) and
  `WindowsCorrect` (`WindowsHonest`), for any limit, window, timestamps and holes.
  They follow from the tables above and from what the operators compute.  The
  prover has no induction over data, so a walk is replaced by its closed form: the
  form is shown to satisfy the walk's equation, and another solution would differ
  first at some least height (`LeastNat`), where the equation makes them equal.
  Lists: what is selected keeps its order (`Selected`), a list that falls along a
  key is known by its members, so pages that join and an account's ids read
  backward are the lists over the blocks.  Windows: a walk has counted, at each
  height, the members of a set up to it (`Below`); the intervals are the gaps of
  the pairs in their order (`Nth`), the median splits that set by counting, and
  the sum of all gaps telescopes when no pair is missing, so that the sum of those
  that are not negative is the time elapsed or more (`GapsAddUp`).
  `StatsAssumption`: times are natural, `Window` positive, and a height, a hash or
  an account name asked of `search` is told apart by its form;
* of `GraphQLRoots`: `FailuresCorrect` (`FailureIsolated`), for queries of any
  length over any aliases and any budget (`RootsAssumption`: what is encoded is
  never empty).  The query and the query without the refused field run in step:
  they have sent as much, agree on every other alias (`Agree`), and are one error
  apart, so each later field fits in both or in neither (`Lockstep`).  The sum of
  the answers stays within what was counted (`SumsUp`), also when two fields share
  an alias;
* of `GraphQL`: `ParserCorrect` (`ParsesExactly`), for any queries, strings of
  tokens and limits (`ParserAssumption`: natural limits, at least one level, and
  `Levels` at least as many).  That the recursive functions satisfy their equations
  is shown as for the walks above (`ArgsExist`, `LoopExists`, `ReadingExists`):
  the loop only looks ahead (`LoopAdvances`), so a solution from some position on
  extends by one.  Arguments: `parseArgs` ends behind the first bracket that closes
  threes of name, colon and value (`ArgsExact`), so a field's words are known from
  where it ends, and where it ends from its words (`FieldRead`, `FieldFound`).
  Complete (`ReadsTaken`): by levels and, on a level, by length (`LevelInduction`),
  where a list's text stands the loop answers that list, unless its levels or fields
  exceed what is left, `depth` and `selectionsSeen` included (`Takes`).  Sound
  (`CameAll`): from the last position backward, what the loop answered was written
  there, within what was left (`Came`).

`RelayPoolProofs` proves `PoolCorrect` (`PoolSound`), `PairedCorrect` (`Paired`)
and `ResultCorrect` (`ResultHonest`) for any finite set of relays, any chains
and any number of moves (`PoolAssumption`).  The properties speak of the moment
a result or a pair is complete; what makes them true was heard several steps
earlier.  The invariant therefore says, at each stage, that what has been heard is
what the relays serve while they stand still (`HeardTrue`, `HalfRead`), and
`Shape` what the two records hold at that stage.

`ServerProofs` proves of `ApiKeys` `FileCorrect` (`FileSound`), `RetiredCorrect`
(`RetiredRefused`) and `QuotaCorrect` (`QuotaHeld`) for any keys, any number of
overlapping runs and reloads, and any quota (`KeysAssumption`).  The invariant
needs that a run's document differs from the file in its own key only
(`RunsHonest`), that a secret belongs to one key, one run or the retired
(`Apart`), and that reloads that read later know of more retired secrets and of
no fewer identifiers (`ReloadsGrow`): the last is why a quota that is dropped
with its key is never one that still counts.

Of `Gateway` it proves `GateCorrect` (`GateSound`), `RefusalsCorrect`
(`RefusalsAreFree`) and `ReportsCorrect` (`ReportsSound`), for any clients, limits,
clock, routes, statuses, bounds of the maps and signals (`GateAssumption`,
`MetricsAssumption`, `GatewayAssumption`).  A sum is the number of units below a
function (`Sums`), which grows by one with one entry (`SumRaised`).  `Fair` relates
what a window counts for each client, for everyone, and what was granted;
`Recent` says that no entry is of a window to come, so that a new window starts
from nothing.  `Tallies` says that a series missing from a bounded map was never
counted or found the map full, which is why one that has a place has its whole
count.  `ProcessInv`: a process that closes was asked to, so an exit with 0 at a
second `shutdown` is not a clean one.

`ReceiptsProofs` proves `FlagsCorrect` (`FlagsSound`) for any window, depth and
limits (`ReceiptsAssumption`); `Stage` says what a tick holds at each await, and
that its head is not above the node's height.

`WebClientProofs` proves `PageCorrect` (`PageSound`) and `CountedCorrect`
(`CountedOnce`) for any networks, page size, heights and numbers of calls and
navigations (`WebAssumption`).  `CallsOfRoute` says that a call which may still
commit is of the selected network; `FeedUpward` that the feed delivers each block
once and upward; and `RowsOfNet` that where `patchHtml` may skip a list, the feed
still owes only blocks above the newest row, without which the tip could fall
below a row twice.  `CountedSeen` bounds what was counted by the last height seen.

Only model-checked is liveness, which rests on fairness: `Settles`,
`ArchiveFills`, `SilentReaped`, `FollowsTip`, `FillsAnyway`, `SettlesAnyway`,
`StatusesFilled`, `Recovers`, `Answered`, `StopsInTime`, `CatchesUp`.

## 14. Not modelled

* REST endpoints that read one table or pass one call to the node on, and keep
  no state; the SQL behind account history, contract events and paged queries of
  the archive, which a model would restate.
* Statistics the node computes (supply, fees, mempool): the indexer stores what
  it is given.  Series and volumes over wall-clock windows.
* Formatting, rendering, the ticker, charts and the other views of the web
  client; static files and headers; frame parsing beyond its three outcomes;
  decoding of relay answers.
* Plan and expiry of API keys; counters of `metrics.js` other than those of
  requests, which use the same increment, and the text of `/metrics`.
* Deployment files, beyond the restart of the service, and the generator of a
  devnet, which is not part of the running system.
