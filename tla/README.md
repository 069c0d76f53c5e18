# skills-fs in TLA+

A specification of skills-fs: its concurrent core (`src/core`), the WebSocket, WebDAV and FUSE
adapters on it with the limiters in front, the HTTP and caching providers behind it and the reload
of its configuration, model-checked with TLC, and its safety proved with TLAPS. Every definition is
written from the Go code; `PROJECT.json` (`map`) names the lines each one stands for.

## 1. The system

skills-fs is one process with a `FileSystem` in memory. Adapters (FUSE, WebDAV, WebSocket, the
foreign-function bridge) call its methods from many goroutines; mounts are blobs, links,
directories, streams, or API paths served by providers.

| component | state | operations | talks to |
|---|---|---|---|
| namespace and router (`core/filesystem.go`, `core/router.go`) | trie of nodes with parameter names and mounts, `fs.mu` | Mount, Unmount, Rename, Snapshot, Restore, match, list | skill generator, event bus, lock manager, stream manager |
| skill generator (`core/skill.go`) | generated skills | Generate, Remove, Read | called by Mount and Unmount under `fs.mu` |
| stream buffers (`core/stream.go`) | ring, indices, count, `closed`, one condition variable | read, write, close, getOrCreate, remove | Read/Write of stream mounts, Unmount, Shutdown |
| advisory locks (`core/flock.go`) | path → lockState with holders and a condition variable; `Handle.lockKind` | acquire, release, purge | Handle.Flock/Funlock/Close, Unmount |
| handle manager (`core/handles.go`) | `active`, `seq`, sharded table | acquire, put, drop, snapshot | Open, Close, Shutdown |
| write buffer of a handle (`core/handles.go`) | bytes, delay timer, `closed` | Write, Flush, Close, timer callback | `fs.Write` |
| blobs, Stat and Readdir (`core/filesystem.go`) | contents inside the mounts | Stat, Read, Write, writeBlob, Readdir | router, providers of dynamic directories |
| provider dispatch (`core/filesystem.go`, `core/serial.go`) | circuit breaker, serial queue, provider cache, writeback store | breakerOpen, invokeProvider, recordBreakerResult | providers, Read/Write/Readdir |
| event bus (`core/events.go`) | listeners | register, unregister, emit, clear | called by Mount, Unmount, Rename, Write; calls the adapters |
| WebSocket adapter (`adapter/websocket`) | subscriptions, channels, forwarding goroutines of each connection | subscribe, unsubscribe, teardown | event bus, FileSystem |
| WebDAV adapter (`adapter/webdav`) | property cache | PUT, COPY, MOVE, DELETE, MKCOL, PROPFIND, SEARCH, ... as sequences of FileSystem calls | FileSystem, middleware |
| middleware (`adapter/middleware`) | connection semaphore, token buckets | Acquire, Release, Allow, cleanup | in front of WebDAV |
| FUSE adapter (`adapter/fuse`) | inode table with an LRU list | Lookup, Create, Mkdir, Symlink, Unlink, Rename, handleEvent | FileSystem, event bus, kernel |
| providers (`provider/http`, `provider/cache`, ...) | cached answers | Invoke with retries, Invalidate | remote services (external) |
| command line (`cmd/skills-fs`) | configuration | Reload | FileSystem |
| bindings (`binding`) | handle registry | Register, Get, Unregister, SetError | FileSystem |

What is hard here is not sequential: one condition variable for readers and writers; checks of
`h.closed` outside `h.mu`; locks that are looked up under one mutex and used under another, with
Unmount in between; timers whose callback is already running when it is stopped; results of
provider calls recorded after the breaker changed its state; partial failures of Rename and Mount;
events delivered after the lock, or the subscription, is gone; adapters whose handlers are several
FileSystem calls, with caches of what an earlier call saw; a lock kept while a provider is asked.
`PROJECT.json` (`hazards`) lists them at their lines, with the properties that watch them.

What makes each component correct: the ring is a bounded FIFO and nobody sleeps beside what he
waits for; an exclusive lock excludes, and is given back; the handle budget is exact; no buffered
byte is lost, doubled or overtaken; the breaker opens on failures in a row and recovers; a mount is
found where its path leads, and failed operations change nothing; a subscription gets its events
once and in order, and leaves nothing behind; a WebDAV request that ran alone did what it says, and
one that did not disturbs or is shown only what the code's gaps explain; the property cache and the
inode table agree with the tree but for named races; every call and request returns.

## 2. The modules

| module | models | state ↔ code |
|---|---|---|
| `ByteQueue` | what a stream promises: a bounded FIFO of bytes, lossy in drop mode only | `q` is abstract |
| `StreamBuffer` | the ring; implements `ByteQueue` under `Content` | `buf r w count closed` are the fields; `wpc`/`rpc` where each goroutine is in `write`/`read`; `rem` the payload not written yet |
| `Flock` | lockManager with Handle.Flock, Funlock, Close, Unmount's purge | lockStates are numbered as they are made, so that a goroutine may hold an old pointer; `cur` is the map entry; `lockKind`, `closed` the handle's fields, each access outside `s.mu` a step of its own, since goroutines may share the handle |
| `HandleManager` | Open, Close, Shutdown against the budget | `active`, `seq` the atomics, `entries` the shards; each atomic access is a step |
| `WriteBuffer` | buffered writes of a handle and their timers | `h` holds `buf`, `timer` and the timers; `sent` is what `fs.Write` got |
| `ProviderDispatch` | breaker, serial queue, provider cache, writeback store | `state failures successes` the breaker; `consec`, `last` are history |
| `Namespace` | trie, mounts, skills, streams, events, `fs.mu` | `trie.nodes/key/mount` the nodes with paramKey and mount; `pc` the critical section; `conf` the scenario |
| `EventStream` | event bus and the subscriptions of a WebSocket connection | `subs` is `eb.subs`, `table` the reader's map, `chan`/`ch` the channels, `fwd` the forwarding goroutines |
| `MountTree` | what a FileSystem call answers and does, as operators on a tree of paths without parameters: the interface the adapters are written against | `nodes`, `mount` the trie; `Invalid`, `Large`, `MaxMounts` what Mount refuses (`MountError`) |
| `Requests` | what `WebDAV` and `FuseInodes` have in common: a goroutine handles one request at a time | `tree`; `job` the request of each goroutine and where its handler is |
| `WebDAV` | the handlers of the WebDAV server, the property cache, both limiters, Reload | `job` where each handler is and what it has seen; `cache` is propCache.entries; `sem` the channel of ConnLimiter; `bucket` one client's; `reload` the phase, what is left of the diff and the entry that is unmounted and still to be mounted |
| `FuseInodes` | rootNode's inode table under requests, events and another adapter | `inodes`, `lru` are `r.inodes` and the list with `r.lruPos`; `made` numbers the inodes |
| `DynamicDir` | Readdir of a dynamic directory, Read of an API node, Mount and Unmount around a remote provider that retries, with its cache | `writer` and `held` are fs.mu; `back` the service's own look at the FileSystem; `version`, `cache` what the service has and what is cached |
| `MCStream`, `MCFlock`, `MCNamespace`, `MCEventStream`, `MCWebDAV`, `MCFuseInodes`, `MCDynamicDir` | values of constants for TLC; `MCFlock` also keeps its two scenarios apart | |
| `StreamBufferProofs`, `FlockProofs`, `HandleManagerProofs`, `WriteBufferProofs`, `ProviderDispatchProofs`, `NamespaceProofs`, `DynamicDirProofs` | theorems | |
| `AdapterProofs` | theorems about `EventStream`, `WebDAV` and `FuseInodes` | |

An action is a handler, or a stretch of it between two points where another goroutine may get in:
a mutex is taken and released inside one step unless the code blocks or calls out in between.
In `WebDAV` and `FuseInodes` each FileSystem call is a step, since each takes `fs.mu` alone;
`fs.Write` of a blob is two, because it looks the path up twice.
Operators named `X_Something` above a definition `X` are the plausible bug that `PROJECT.json`
(`mutants`) puts in its place; every property of every passing run is violated by its mutant.

How the modules fit: a `Handle` is the record whose fields `Flock` (lockKind, closed),
`WriteBuffer` (buf, timer, closed) and `HandleManager` (its entry in the table) divide among them;
Close is in all three, each with the part of it that it is about. Unmount is `PurgeDelete` and
`PurgeClear` in `Flock`, `Close` in `StreamBuffer` and `Unmount` in `Namespace`, where
getOrCreate races with it. An event is a step under or after `fs.mu` in `Namespace`, the
delivery to a client in `EventStream`, and the removal of an inode in `FuseInodes`, where it is
handled by the goroutine that caused it. `WebDAV`, `FuseInodes` and `DynamicDir` compose an
adapter, or a provider, with the namespace through the operators of `MountTree`; the limiters, the
server and the reload share one state in `WebDAV`. An invocation is one answer in
`ProviderDispatch` and its attempts in `DynamicDir`.

Some variables are history, put there to say why something may be as it is: in `Flock` `raced`
(handles of several goroutines whose calls met); in `WebDAV` `forgiven` (cached paths with a reason
to be stale), `owes`, `before` (of a request and of a reload), `dirty`, `dropped` (buckets dropped);
in `FuseInodes` `odd`, `changed`, `stale`; in `DynamicDir` `floor`, `overlap`, `listed`. They decide
no step of the code.

## 3. The runs

| run | instance | what it shows | states |
|---|---|---|---|
| `Stream` | a ring of 2; modes block, drop, error; chunks of 2 and 3; one writer, two readers | wakeups, refinement of `ByteQueue`, progress of writers and readers | 48 k |
| `Flock` | two handles; either one unmount, or a second goroutine on the first handle, of whose goroutines one makes blocking calls and one tries for an exclusive lock | exclusion in the table, every call returns; until an unmount what the handles believe is exclusive, agreement of handles and table, closed handles hold nothing, no stranded waiter, but for what racing calls of the shared handle leave | 298 k |
| `HandleManager` | three goroutines, budget 2, four ids, two shards, one Shutdown | the budget is exact, closed handles keep no slot, Shutdown misses nobody | 80 k |
| `WriteBuffer` | two goroutines, MaxSize 3, four bytes, three timers, two failing flushes | no byte lost, doubled or overtaken; the delay flushes; Close flushes and leaves no timer | 192 k |
| `Dispatch` | two goroutines, threshold 2, two half-open successes, five failures | opens on failures in a row, recovers, stores the last write | 84 k |
| `Namespace` | scenario Routing: five patterns with parameters at two depths, three mounts, two renames, a restore, a subscriber that calls back; scenario Skills: streams and skills with root files, a client | placement, lookups, failed renames, exact restore, calls return | 244 k |
| `EventStream` | two sub_ids, two listeners ever registered, two events, channels of one | nothing leaks, events in order and complete, goroutines end | 328 k |
| `WebDAV` | two requests at a time: one blob contended by writes, moves and deletes (three requests); copies, moves, listings below a directory without a mount; reloads among requests, of eight configurations (paths listed twice, entries that do not parse or that Mount refuses as reserved, too long or too many); both limiters (five requests, four ticks, bursts of 0, 2 and 4); read-only | conditional writes, exact requests and reloads, explained staleness, bounded admission, every request is answered | 287 k |
| `FuseInodes` | two goroutines, four requests, inodeCap 1, names at the root and below | LRU list exact, inodes agree and are stable but for named races, failed creates undone | 654 k |
| `DynamicDir` | two goroutines, three requests, two retries, a service that calls back | listings of one tree, growing back-off, explained staleness, every call returns | 412 k |
| `NamespaceEmit` (violation) | a subscriber that calls back, a skill shown at the root | events emitted under `fs.mu` deadlock | |
| `EventStreamClosed` (violation) | as `EventStream` | an event sent to a channel that unsubscribe closed: panic | |

A module's type invariant is a conjunct of the first invariant of its run (`BufferExact`,
`NothingLeaks`, `TrieSound`, `AdmissionBounded`, `LruExact`, `StaleByOverlap`), or a theorem
(section 4).

Why the bounds are enough. A ring of two with chunks of one, two and three bytes has every case:
a chunk that fits, that does not, that wraps, and that is longer than the ring. Two handles are
what exclusion, upgrade and a release in the gap need; a second goroutine on one of them is what
makes its two reads of `lockKind`, its check of `closed` and its `take` meet another call, and a
second lockState is what an unmount adds. Three goroutines for two slots make the budget's
compare-and-swap fail and retry, and more shards than one let Shutdown's copy miss entries behind it. Four bytes with MaxSize 3 reach all
three triggers in one history; three timers are one running, one stale, one new. Five failures
open the breaker, fail it half-open and open it again. Two parameter names at one node, patterns
that shadow each other and MaxMounts 3 reach every refusal of `router.add`. Channels of one event
overflow with two. In `WebDAV` a race is between one handler's two calls and one other change, so
two requests meet in every way, and a third, after them, sees what they left in the cache; the
trees have a blob, a link, a directory without a mount and one made by MKCOL, and a COPY and a
MOVE have the same path twice. Five requests and
four ticks empty a bucket of two, drop it (ttl 2) and fill it; a burst of 0 (which `int(RPS)` gives
for RPS < 1) and one larger than the rate makes in a ttl are the two ends. A reload meets each
refusal of Mount first, in the middle and last, as a modified entry and as an added one. In `FuseInodes` a cap of one evicts
with the second name; four requests are a file made, looked up, removed by one goroutine and
raced by another. Two retries are the least for a delay to grow, and three requests a listing, a
Mount that waits for it and a reader that waits for the Mount.

Bounds of the models that the code does not have: `MaxPurges`, `MaxIds`, `MaxBytes`, `MaxTimers`,
`MaxFailures`, `MaxFails`, `maxRenames`, `maxRestores`, `MaxEvents`, `maxRequests`, `reloads`,
`maxTicks`, `MaxRequests`, `MaxVersion`. Each one stops an action at its limit and is named among
the constants of its module. Requests take the first free goroutine (`Begin` in `WebDAV` and
`DynamicDir`, `FuseBegin`), which loses no behaviour since goroutines are alike.
`CHECK_DEADLOCK FALSE` is given where the model ends: every handle opened and closed
(`HandleManager`), the handle closed (`WriteBuffer`), the connection gone or the process dead
(`EventStream`), all requests made and answered (`WebDAV`, `FuseInodes`, `DynamicDir`).

Fairness. Goroutines that hold or wait for a mutex are scheduled (weak fairness of their steps:
Go's mutexes do not starve). Beyond that: `Stream` assumes a consumer that keeps reading, for
`WriteReturns`, since a producer in block mode depends on it; `Flock` that the deadline timer and
the watchdog goroutine run; `WriteBuffer` that timers go off; `Dispatch` that ResetTimeout passes
and clients call again, strongly fair for reads and writes while the breaker lets calls through,
because a listing records no result and a client that only lists never closes a breaker; the
number of failures is bounded, which says that the provider does recover. `EventStream` assumes that
the reader of a connection that takes no writes ends (its next reply fails, or the read deadline
does); subscribing, emitting and going away are never forced. `WebDAV`: the handlers run, and a
slot that is free is taken by one that waits (Go serves the senders of a full channel in order).
`DynamicDir`: goroutines go on, where the end of a request at the client's timeout is one of the
things they do; the service itself is never forced to answer. No run forces a request, a tick, an
expiry or a reload.

## 4. What is proved

All theorems are checked by TLAPS for every value of the constants.

* `StreamBufferProofs`, for every capacity, set of configurations, readers, writers and payloads
  (`StreamAssumption`): `TypeCorrect`, `RingAlwaysConsistent`, `NoWakeupIsLost` and
  `RingImplementsQueue`. The inductive invariant is `TypeOK /\ RingConsistent /\ NoLostWakeup /\
  InFlight`. Neither index nor count can be shown in range alone: `r` moves by what drop mode
  discards and `count` by the same amount, so `w = (r + count) mod Capacity` must be part of it,
  and a goroutine that is not idle must have bytes left (`InFlight`), or its chunk would have no
  length. The arithmetic of `%` is in lemmas (`ModAdd`, `ModSub`, `RemainderUnique`); the
  refinement needs `CopyInSlot`, which says for each slot of the ring whether the copy loop,
  overrunning its own first bytes or not, leaves the old byte or puts one of the chunk there.
* `FlockProofs`, for any handles, goroutines, any sharing of handles by goroutines and any number of
  unmounts (`FlockAssumption`): `FlockTypes` and `TableExcludes` without conditions; `HandlesExclude`,
  `ViewIsRight`, `CloseReleasesLock` and `WaitersHaveHolders` for a path until it is unmounted. The
  invariant `ViewInv` is the table's exclusion together with, while mounted, the agreement of
  `lockKind` and table (`View`), what the calls of a closed handle still do (`Gone`) and that a
  waiter cannot take the lock (`Blocked`). With shared handles the table may have more than
  `lockKind` says; `raced` has those handles, and the one direction that no race can break, that
  the table has whatever a handle believes to hold, is what `HandlesExclude` rests on. Where no
  handle is shared nothing is ever excused: `OwnHandlesAgree` proves for such goroutines what does
  not hold for others (section 5).
* `HandleManagerProofs`: `BudgetIsExact`, `BudgetHolds`, `HandleTypes`, `ClosesAreExact`, for any
  finite set of goroutines, any budget and number of shards. The invariant adds that ids are fresh
  (or a second `put` would not grow the table), that the value loaded before a compare-and-swap was
  below the budget, and that a goroutine between the swap and `put` counts as reserved. For Close
  and Shutdown (`CloseInv`) it adds where a handle that Shutdown has to close still is: in a shard
  that its copy has not come to, in the copy, or closed by another.
* `WriteBufferProofs`: `BufferIsExact`, for any bytes, `MaxSize`, triggers, timers and goroutines.
  `BufferExact` is not inductive: that Close leaves no timer armed rests on `h.timer` being the only
  one that is (`OneArmed`), and that only an overlapping Write arms another rests on Writes never
  being empty (`Pending`).
* `ProviderDispatchProofs`: `BreakerCounts`, `FailuresAlwaysOpen`, `OpensOnlyOnConsecutive`,
  `SerialStoresLast`. The invariant ties `failures` to the length of the current run of failures
  while the breaker is closed, and bounds it by that run while half-open with one success to close
  it. For the writeback store (`WriteInv`) it says that the serial queue has at most one goroutine in it, and
  at which of its labels the store is behind the provider.
* `NamespaceProofs`, for every set of patterns, parameters, requests and every scenario
  (`NamespaceAssumption`): `TrieIsSound`, `LookupsAreBest`, `FailedRenamesKeep` and
  `RestoresAreExact`. The inductive invariant `NsInv` says that each entry lies at the node of its
  path and that the whole way to it is there, with its parameter names (`Sound`); that the same way
  is there for what was saved, since names are never forgotten, and no two saved entries share a
  node (`Saved`); and what a Restore has mounted so far (`Restoring`). Without `Saved` a restored
  entry could be refused, and `WellPlaced` alone does not say that the nodes on the way are there.
  `router.match` is a recursive function. That its walk exists, and what it comes to after each
  segment (`CameTo`), is proved by taking the least segment at which it would fail (`Least`, from
  the library's `WFMin`), which does for the induction that the provers cannot apply. If a more
  static pattern beat the one found, the child it leads to would be in the trie, and `nextRoute`
  would have taken it (`FoundUnbeaten`).
* `DynamicDirProofs`, for any goroutines, requests, retries and base delay: `ListsOneTree`,
  `StaleOnlyByOverlap`, `RetriesBackOff`. `DirInv` adds that a Readdir that has looked at the router
  holds `fs.mu.RLock` until it has merged (`Listed`) and that a call nothing has overlapped has an
  answer as new as the last Invalidate (`Answered`). That the delay of the next attempt is larger
  than the last one with its jitter needs 2^(n+1) = 2 * 2^n, which the provers do not know; it is
  proved from the number of subsets of 1 .. n (`PowersDouble`).

* `AdapterProofs` for `EventStream`, for any emitters, sub_ids, listeners, events and channel
  capacity: `NoLeaks` and `EventsAreDelivered`. `LeakInv` adds that the reader's map holds no
  listener twice and what the reader has done of the message it works on; `FlowInv` says of events
  that are in a channel, or that an emit has still to deliver, what `Delivery` says of those
  received.
* `AdapterProofs` for `FuseInodes`, for any goroutines, paths, requests, tree at the start and
  inodeCap (`FuseAssumption`): `FuseLruExact`, `FuseInodesAgree`, `FuseStableInodes` and
  `FuseFailedMakeLeavesNothing`. `FuseInv` has what a handler knows between two of its steps, until
  another goroutine changes tree or table at its path: that Stat would still tell the kind it is
  about to make an inode of (`Seen`), that nothing came into the table since it missed there
  (`Missed`), and that what a failed Create took back is gone (`Undone`). Without `Seen` an insertion
  could put any kind into the table and `InodesAgree` is not inductive. That the list stays within
  inodeCap is the one argument by counting: a path enters the list only with an insertion that
  evicts until the table is small enough or the list empty, and the list, having each path of it
  once and all of them in the table, is no longer than the table (`LruOnce`, `LruInTable`). The
  lemmas about `Without`, `ToFront` and `Evicted` say what these do to a list that has each path once.
* `AdapterProofs` for `WebDAV`, for any clients, paths, contents and scenarios: any requests, tree,
  limits and configuration (`ClientsAssumption`, `ScenarioAssumption`, `NoneAssumption`,
  `PathsAssumption`): `DavAdmissionBounded`, `DavStaleHasReason`, `DavAloneExact`,
  `DavWritesWhatItSaw` and `DavReloadExact`. They rest on one invariant, `DavInv`, which says for
  each label of a handler which requests come to it (`OfOp`), what it has changed and not told the
  cache (`Owing`), what it has seen that is still so unless another changed the path (`Saw`), and,
  as long as nobody interfered, how the tree differs from the one it began with (`Alone`). Each
  property needs its part: that a cache entry without a reason is right needs `Saw`, because it was
  read in two steps and stored in a third; that a PROPFIND shows the whole directory needs that what
  it has shown, with what is below the paths it has still to look at, is always the same set
  (`Shown`, `ShownIn`, and the lemma that splits `Shown` at the members of a directory); the limiter
  needs that the tokens in the bucket count as admitted, and that between two drops there is a whole
  ttl (`LimitsInv`); the reload needs that what is to be modified and to be added are always the last
  such places of the configuration (`LastPlaces`), and that a path whose last place is done has what
  is listed there (`Reached`). A change
  by anybody else is one lemma for all labels (`DisturbedSound`).
  `ScenarioAssumption` has one condition on the code's inputs: requests have the headers their
  method needs (`HasHeaders`; without a Destination the answer is 400 before anything is looked at).
  `DavAdmissionBounded` holds for every rate, burst and ttl: what the limiter lets through is at most
  the first bucket (`Cap`: the burst, or the one request that a burst of 0 admits), what the rate
  makes, and for each dropped bucket the difference `Gain` between a bucket and what the rate makes
  in the time after which an idle one goes; so nothing more than burst and rate if that difference is
  none. `DavReloadExact` holds for every configuration: Mount may refuse any entry (`MountError`:
  EINVAL, ENOSPC, EEXIST), and then the theorem says what is left. The other assumptions are about
  types: paths come with those above them, `None` is nothing else.

The invariants `NsInv`, `BufferInv`, `LeakInv`, `FlowInv`, `DirInv`, `FuseInv` and `DavInv`
were checked with TLC before they were proved, `NsInv` also with a scenario that has renames,
restores and root files at once.
Where a property of a run held in its scenarios only, it was given the condition under which the
code keeps it: `SkillServed` (nothing renamed or restored), `NoRootFiles` (nothing mounted at the
root files' paths), `RestoreExact` (files at the root may go while a Restore runs, because
UnmountSkillAtRoot takes no lock). The proof of `DavAloneExact` failed at first for a good reason: a
COPY or MOVE of a directory onto itself succeeds when the directory has members, and leaves another
mount than it found, or none (section 5). `Done` now says what is left (`CopyOf`), and the `WebDAV`
run has both requests.

Only model-checked: all liveness properties (`WriteReturns`, `CloseReleases`, `FlockReturns`,
`DelayFlushes`, `Recovers`, `CallsReturn` of two modules, `GoroutinesEnd`, `RequestsEnd`), since
TLAPS does not reason about fairness and ENABLED. All invariants and action properties of the passing runs are proved. Theorems
without a run of their property: the types of three modules, `RingAlwaysConsistent`, `BudgetHolds`
and `OwnHandlesAgree`.

## 5. Where the code disagrees with its comments and tests

Two disagreements have a run (`findings`): the event emitted under `fs.mu` and the event sent to a
closed channel. The others below came up while modelling; the properties of the passing runs leave
them out by a condition that is named with each, or there is no property that the code would keep.

Core:

* A chunk longer than the ring never fits, and a blocking Write of it waits forever although the
  consumer reads (`core/stream.go:168`; MaxChunkSize defaults to 64 KiB, Capacity is the mount's).
  `WriteReturns` is conditional on the length.
* "Error: returns ENOSPC immediately if the buffer cannot hold all of p" (`core/stream.go:141`)
  holds per chunk; a Write of two chunks may leave the first and fail.
* Unmount deletes a lockState before it clears and broadcasts it, against the comment at
  `core/flock.go:168`: a goroutine that got it before the delete can lock, and another wait on it,
  after the clear; release then finds no map entry, does not broadcast (`core/flock.go:149`), and
  the waiter hangs until its timeout. `NoStrandedWaiter` speaks of a mounted path.
* With two goroutines on one handle, against "Handles are goroutine-safe across method calls —
  internal mutexes serialise the buffer state and lock transitions" (`core/handles.go:46-48`): two
  Flocks of different kinds read `h.lockKind` before either takes (`core/flock.go:66-80`), and the
  table keeps a lock that `lockKind` no longer names; a Flock that passed its
  closed check before Close may take the lock after Close looked for one (`core/handles.go:227`), and
  nothing releases it. Others then wait until their timeout. `LockTransitionsSerialised` and
  `CloseReleasesAll` state what the comments say; two goroutines on one handle break the
  first in ten steps and the second in seven. The properties of the run excuse the handle (`raced`).
* Unmount clears the lock table but not `Handle.lockKind`: after a remount a handle gets nil from
  Flock beside another exclusive holder (`core/flock.go:66`). Hence `Mounted`.
* A Write that waits for `h.mu` while Close flushes appends to the dead buffer and returns nil; its
  timer's Flush answers EBUSY and the bytes are lost (`core/handles.go:281`, against "Close
  releases the handle, flushing any buffered writes" at line 216). `CloseFlushes` speaks of what
  was accepted when Close was called.
* Shutdown ignores the EBUSY of a Close that is still running elsewhere, so hooks may run before
  that handle is flushed (`core/filesystem.go:167`, against the comment at line 145).
* After a failed flush no timer is armed again (`core/handles.go:284-301`), so the delay trigger is
  gone until some flush succeeds. `DelayFlushes` stops at a failure.
* With HalfOpenMaxCalls = 2 a half-open breaker counts failures that a success separates
  (`core/filesystem.go:1144`), against "consecutive failures before opening".
* A write that succeeds without data leaves an earlier write's error in the writeback store
  (`core/filesystem.go:763`). `last` counts only the writes that left something.
* `Rename("/:y", taken)` of a mount made as `/:x` removes it, fails to add it and fails to restore
  it (`core/filesystem.go:437`): the mount is lost. `FailedRenameKeeps` asks for the mount's own
  parameter names.
* MountSkillAtRoot adds `/SKILL.md` and `/AGENTS.md` past MaxMounts (`core/filesystem.go:328`), and
  Unmount leaves them behind, so mounting that skill again fails with EEXIST. `NoRootFiles`.
* Two mounts of one skill name share its files, and unmounting one removes them for both
  (`core/filesystem.go:387`). In `Namespace` a skill has the name of its mount.
* Open on a directory without a mount dereferences a nil entry (`core/handles.go:182`), and so does
  ReadLink (`core/filesystem.go:930`).
* Restore re-adds entries only; the skills of restored entries are not served
  (`core/filesystem.go:854`). The scenario with skills has no Restore.
* A client that resolved a stream before Unmount makes its buffer after it, and the remounted
  stream inherits it (`core/filesystem.go:682-683`, against `core/stream_test.go:221`:
  "Remount — should get a fresh empty buffer"). Only unmountLocked removes a buffer, and only that of the mount's own path:
  Rename, Restore, UnmountSkillAtRoot and the Unmount of a stream with a parameter in its path leave
  buffers behind too, without any race. `Namespace` has all of these but the parameter, and no
  property of `streams`: one that excused every case would say that Unmount calls remove.
* A static node without a mount hides a parameter mount beside it: a lookup that enters it never
  turns back (`core/router.go:212-231`) and finds nothing. `MatchBest` speaks of what is found.
* A mount whose root file is taken is taken back, but the skill it generated stays, and so does
  `/SKILL.md` if `/AGENTS.md` was the one taken (`core/filesystem.go:300-303`).
* Rename does not look at reserved paths (`core/filesystem.go:428`), against "reservedPaths are
  blocked from user mounts" (`core/filesystem.go:17`).
* "or EBUSY if MaxMounts is reached" (`core/filesystem.go:227`): the code returns ENOSPC.
* writeBlob takes the lock from its start "avoiding the RLock-to-Lock TOCTOU window"
  (`core/filesystem.go:788`), but Write has looked the path up before: in between the mount may go
  (a nil dereference if the node has children) or become a directory or a link that then gets the
  bytes. `dirty`.
* Snapshot shares the arrays of blob contents with the mounts it copies (`core/filesystem.go:840`).

Providers:

* "defaultTimeout bounds every provider call so skills-fs always answers a FUSE request within this
  window" (`provider/http/http.go:25`) holds for one attempt; with WithRetry a call takes that long
  for each, and the delays. A POST that timed out may have been served and is sent again.
* WithRetry with a base delay below two nanoseconds panics (`provider/http/http.go:72`). The run
  has a base of two.
* Only 200 is an answer: 201 and 204 are errors, and final ones (`provider/http/http.go:92-107`).
* A provider without a timeout (local; a callback of the bridge) that calls the FileSystem while
  Readdir asks it, and a Mount that waits, lock each other up for good (`core/filesystem.go:554`).
  Readdir swallows its errors and records no result with the breaker. ProviderHealth calls
  providers under `fs.mu` too.
* An Invoke that began before Invalidate, or before a later Invoke, stores its older answer after
  it (`provider/cache/cache.go:60`). `overlap`.

WebDAV, limiters, reload:

* COPY or MOVE onto the resource itself unmounts it first and then does not find it; with a missing
  source, or one that cannot be copied, the destination is gone all the same
  (`adapter/webdav/webdav.go:425, 455`). `Failed` allows exactly this. If the resource is a directory
  with members it is found after all, as a directory without a mount: COPY mounts that one, with its
  mode instead of the old one, and MOVE unmounts it again; both answer 204. `CopyOf`.
* MOVE of a directory without a mount makes the destination and then fails to unmount the source
  (`adapter/webdav/webdav.go:461`).
* A COPY or MOVE that fails after it changed something does not invalidate the property cache, nor
  does a reload; a PROPFIND may store what it read before a change. `forgiven`, until the TTL.
* If-Match is compared by a Read before the Write: two conditional PUTs may both succeed
  (`adapter/webdav/webdav.go:308`). `dirty`.
* DiffSnapshots compares times of modification, which a configuration does not have, so a reload
  remounts every mount and blobs lose what was written to them (`cmd/skills-fs/config.go:252`). It
  unmounts what the configuration does not name (files of a skill at the root, and what clients
  made), and stops at the first error with no way back: a modified entry that Mount refuses (a
  provider that is not registered, contents that are too long) is unmounted by then, and so is, with
  nothing in its place, everything that was to be removed. A new path listed twice is EEXIST the
  second time, and what is listed after it is not mounted. `Stopped`. Paths of the configuration are
  taken as normalised.
* A bucket unused for ten minutes is dropped and the next one is full: more than `rate` and burst
  allow if the burst is larger than `rate` times that, against "'rate' requests
  per second with burst 'capacity'" (`adapter/middleware/rate_limit.go:34-35`). `AdmissionBounded`
  counts the difference for each dropped bucket (`Gain`); the run has such a client (burst 4, rate 1).
* With RPS < 1 and no burst given the burst is int(RPS) = 0 (`adapter/webdav/webdav.go:132-137`):
  the first request of a client is admitted, and then none until its bucket is dropped. `Cap`.
* SEARCH lists every mount of the namespace, whatever the path and whoever asks
  (`adapter/webdav/webdav.go:635`). PROPFIND and SEARCH Read every entry they show: a stream is
  consumed by it, or blocks it, and an API node calls its provider. Streams and API nodes are not in
  the trees of the `WebDAV` run.

FUSE:

* Inodes from below the root, and from Create, Mkdir and Symlink, never enter the LRU list: the
  table is not bounded by `inodeCap` (`adapter/fuse/mount_linux.go:297`), and a Lookup at the root
  may be evicted at once. `LruExact` bounds the list.
* A Create whose Open fails unmounts the path, even if another removed the file and mounted
  something else there since (`adapter/fuse/mount_linux.go:689`). `changed`.
* createFile tests O_RDONLY as a bit (line 681), which is 0: a read-only create opens with no flags,
  fails with EINVAL and is rolled back; openFlagsFromFUSE has the right test.
* A mount over a directory that had no mount leaves an inode of type directory in the table; so
  does an insertion that raced with a change. `odd`.
* Nothing is notified for entries of the root directory: the table has no inode for "/" (line 268).

## 6. Not modelled

With the handlers of both adapters, the providers and the reload the plan of the components is
done. What is left out, and why:

* Permissions by owner and group, namespaces of callers, FollowLink, error and metric tables,
  `parseRange`, the templates of skills: functions of their arguments that change no state.
* The synthetic files under `/sys` and `/skills`, CORS, request ids and logging, gzip and XML.
* ReadAt and WriteAt of blobs: one critical section each; the module for blobs is `MountTree`.
* The handle registry of the bindings is one map under one mutex; the C, Node.js and Python sides
  are glue. The IPC provider is one attempt with a deadline.
* FUSE on Windows, flags, signals and daemon start, examples and benchmarks. The kernel's side of
  FUSE is external: a notification that waits for a kernel lock which the request holds is out of
  the model's sight.
* A composition of `Flock`, `WriteBuffer` and `HandleManager` around one Close has too many states
  for what it adds, since the three parts share only `closed`.
