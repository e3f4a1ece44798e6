# Warpbox in TLA+

Warpbox is a WebDAV server for the files of a TorBox account. It keeps a table of
files in SQLite that a sync worker refreshes from the TorBox API, turns a request for
a file into a CDN link, and proxies the bytes. Everything it asks of the API is meant
to go through one rate-limited queue. This directory models the parts in which
goroutines, timers, failures and restarts meet; line numbers are those of the source.

## Inventory

| component | source | state | operations | hard because | correct when |
|---|---|---|---|---|---|
| throttle queue | `internal/throttle/queue.go` | channel, last call, window, counters | Enqueue, processLoop, Record429, Stats | callers park on a full channel; timers; shutdown in a wait | the rate is kept, no caller is lost, every call is counted once, the loop ends |
| CDN URL guard | `internal/server/get.go:340-545`, `server.go:270-307, 403-474` | negative cache per file, failure tracker per item | fetchCDNURL, retries, sweeps | each check and each record is its own locked section around a long call | failures are remembered for their time, quarantines hold, the leak past them is bounded, it reopens |
| CDN streaming | `get.go:29-338, 547-683`, `server.go:255-263` | slots of `cdnSem`, handler locals | redirect, stream, repair, hang and poll | success promised before it is known; a blocking semaphore; clients leave | slots are conserved, one status per request, no error page as data, requests end |
| metadata sync and file table | `internal/metadata/sync.go:189-451`, `store.go` | tables `files` and `meta`, sync status | syncOnce, upsert, prune, SetCDNURL, hooks | loop and SyncNow overlap; every SQL statement can fail; the process can die between two | tags are never shared, a clean sync leaves what it listed, hooks match the table |
| sync worker lifecycle | `sync.go:78-165`, `server/actions.go` | contexts, loopDone | Start, Stop, Restart, SyncNow | concurrent restarts, a stop that times out | the library is always synced by some loop, stops wait for a loop that ends |
| WebDAV routing, PROPFIND, virtual paths, filter, pages | `server.go:490-789`, `propfind.go`, `get.go:771-930`, `http_browser.go`, `internal/library` | none of their own: the table, and the configured filters | Resolve, ListDir, Apply, three listings | SQL `LIKE`, names that are file and directory, filters on rows of a listing | three listings agree, what exists is found and what is hidden is not |
| ranges and HEAD | `get.go:117-159, 685-760` | none | parseRange, HEAD | boundaries; the row may change between HEAD and GET | exactly the bytes asked for |
| log level | `actions.go:66-101`, `config.go:421-492` | LevelVar, `config.yml`, its temp file | read, write, rename, switch | requests overlap, writes fail, the process dies | file and process agree, the file can be loaded |
| log ring | `logs.go` | slots, position, full | Handle, Lines | wrap-around | the newest lines, newest first |
| time-series statistics | `metadata/stats.go`, `server.go:309-354` | baselines, table `stats` | record, prune | failed writes, crashes | each event charted once or known to be missing |
| TorBox client | `internal/torbox/client.go` | none | do, listGeneric, requestdl | paging, classes of errors | every item listed once, transient errors retried |
| configuration, OpenAPI, landing page, auth, health | `internal/config`, `internal/openapi`, `landing.go`, `auth.go`, `healthz.go` | none | parsing and rendering | | |

How they interact: the guard and the sync enqueue closures on the queue and wait on a
channel of their own for the answer; streaming calls the guard and the table; the sync
writes the table that streaming reads; the cleanup goroutine sweeps the guard's maps;
the landing page starts SyncNow and Restart in goroutines of their own. Routing, listings
and pages read the table between any two statements of the sync. The level that an
operator sets decides which lines reach the ring.

## Modules

**`ThrottleQueue`** is `queue.go`. `items` is the channel's buffer, `senders` the
goroutines parked in `q.items <- r`; a receive hands the freed place to the oldest of
them, as a Go channel does. `loop` is where `processLoop` is: in the first select
(`ReceiveExecute`, `ReceiveWait`, `LoopExit`), in the select of the spacing
(`SpacingOver`, `LoopExit`), in `Execute` (`ExecuteReturn`) and at the locked section
(`Account`). Instants are ages, saturating just beyond a minute. `arrived` (the order of
the calls of Enqueue) and `begun` (how many have been executed) are history variables.

**`RateLimiter`** is what the queue promises: one at a time, in order of arrival, a
gap between services, everyone served until it closes. `ThrottleQueue!Limiter`
instantiates it with the refinement mapping, and `ImplementsLimiter` is checked with
its fairness.

**`CdnGuard`** is `fetchCDNURL`, `getCDNURLWithRetry` and the sweeps. A process is one
request goroutine; every locked section is one action, and the call through the queue
is the pair `queued` and `answered`. `CdnExhausted` is the entry that
`streamFileContent` adds when the CDN refuses a file after every repair.
Deadlines are ticks left, -1 once past, so that "before", "equal" and "after" differ as
they do in the code. Evictions choose among all the results an unstable sort by
deadline can give. A request that the negative cache refuses changes nothing and is no
action. `memory`, `cooldown` and `leaked` are history: how long the last failure of a
file and the last quarantine of an item should still count, and how many API calls were
made for an item within its quarantine. An eviction by a full map ends both.

**`CdnStream`** is `handleGet`, `streamFileContent` and `handleGetCDNHang`, one action
per decision, with `cdnSem` as a number of tokens and a queue of parked goroutines.
`fetchCDNURL` is one step here, and `CdnGuard` one bit per file (`shut`), which reopens
(`GuardReopens`) and whose fetches return (`FetchEnds`). A request without a Range that
finds no link to redirect to is served as a ranged one from then on. The link TTL is
taken to be above zero, its default. `Redirect` and `Lookup` may find the database failing:
the first then streams, the second answers with a 500. `Copy` may be cut short at any time,
by the client, the CDN or the 30 s of `http.Client`; but these bound the reads from the CDN
only, so a client that stays and does not read may hold `Copy` up for ever.

**`SyncStore`** is `syncOnce` on the tables, one action per SQL statement, listing or
status. A sync sees any set of cached items, since the account may change between any
two steps. `Crash` loses all local state and keeps the tables. A client is the part of a
request that touches the table: `GetFileByPath`, then `SetCDNURL` by id. `seen` and
`clean` are history of a sync, `told` what a listener of the two hooks takes the library
to be. It is None from a change that nobody is told of until the listener looks at the
library itself (`ListenerLooks`, which is not part of the program): a change from or to an
empty library, past a snapshot or a new set that could not be read, by two syncs at once, or
by a sync that a crash cut short.

**`SyncLifecycle`** is who runs `syncOnce`. A loop is the goroutine of one `runLoop`,
numbered in the order of launching; `cancel` and `loopDone` name the loop behind the
field of that name. A Restart is Stop's locked section, its select and the locked
section that launches. A sync is `ask`, `await` (the answers of the queue, which it gets
only while the queue runs) and `write`, and no step of it looks at a context. A loop
whose context is done may still take the ticker's branch, as Go chooses at random.

**`FileBrowser`** is the tree a client sees. `Resolve` is `handleWebDAV`'s reading of a
URL, `ListDir` the `LIKE` query, `Apply` the filter; `PropfindEntries`, `GetEntries` and
`HttpEntries` are the three handlers that list a directory. A client chooses one of them
and a directory to start at, lists every directory it is shown (`List`), then asks for the
size of a file (`HandleHead`, not under `/http/`, which has no HEAD) and a range of it
(`HandleGet`), while the sync changes rows
(`UpsertFile`, `Prune`). A path is a sequence of names. Of the strings the model keeps what
decides: which name is `LIKE` which (case, `_`, longer names), and what `TrimPrefix`
leaves. A regular expression is the set of names it matches. `steady` is history: the
files that have been there since the client began.

**`ByteRanges`** is `parseRange` and the reference it is compared with: `Asked`, the bytes
a header asks for, and `Within`, the headers that a client may send knowing the size.

**`LogRing`** is the ring of `logs.go`; `handled` is the history of its lines and `Newest`
what `Lines` promises. **`RuntimeServices`** composes it with the log level, which decides
what is a line, and with the statistics. The level's handler takes one action per file
operation, the removal of the temporary file after a failed rename included; a file is an
inode behind a name, since a handler may still write to an inode
that another has renamed. `Crash` empties memory and `Restart` loads the configuration, or
cannot. The counters, the baselines and the rows are functions on `Metrics`; `total`,
`pruned` and `missing` are history.

**`Selection`** is the loop with which the breaker, `ListDir` and the filter keep part of a
slice: `SelectSeq` with a set for its test, as a recursive function that proofs can expand.

A module named `..._proofs` holds the theorems about the module it is named after;
`RuntimeServices_proofs` also those about `LogRing`.

A definition whose comment begins with "Mutant:" is the definition after it with a
plausible mistake. No specification uses it; it serves to confirm that the properties
notice the mistake.

## Runs

Run in this directory, `tlc -workers 2 -config X.cfg M`.

| configuration | module | asks | bounds |
|---|---|---|---|
| `ThrottleQueue.cfg` | `ThrottleQueueMC` | rate, order, nobody lost, counters, answers, shutdown, refinement | 3 requests, buffer 1, a minute of 4 ticks, 2 per minute |
| `CdnGuardSafety.cfg` | `CdnGuardMC` | what the guard keeps back | 2 requests, 2 files of one item, all times 2 ticks, 1 retry |
| `CdnGuardLive.cfg` | `CdnGuardMC` | evictions, ends, recovery | 1 request, files of 2 items, maps of 1 entry |
| `CdnStream.cfg` | `CdnStreamMC` | slots, statuses, bodies, ends | 2 requests for 1 file, 1 slot, 1 repair |
| `CdnStreamBody.cfg` | `CdnStreamMC` | is every body genuine? No | 1 request |
| `SyncStore.cfg` | `SyncStoreMC` | tags, mirror, prune, hooks | loop and SyncNow, 1 client, a torrent and a usenet download, prune of 1 row a batch, 2 tags, all faults |
| `SyncStoreOverlap.cfg` | `SyncStoreMC` | is a prune safe? Not with two syncs | no faults, no client |
| `SyncStoreRows.cfg` | `SyncStoreMC` | does a row hold a link of its own item? No | 1 worker, 1 client, 2 torrents with one path, 3 tags |
| `SyncLifecycle.cfg` | `SyncLifecycleMC` | is the sync ever lost, do stops and loops end | 2 restarts, 1 SyncNow, syncs of any length |
| `SyncLifecycleOrphan.cfg` | `SyncLifecycleMC` | is there one loop after restarts? No | 2 restarts of a started worker, syncs shorter than Stop's 90 s |
| `FileBrowser.cfg` | `FileBrowserMC` | do listings agree, is everything found, are ranges exact | 6 paths of 1 or 2 rows each, in any combination, one filtered mount, 3 starts, 1 change of a row at any moment, 3 ranges |
| `RuntimeServices.cfg` | `RuntimeServicesMC` | ring, level on disk, charts | ring of 2 lines, 2 setters, 2 levels, 1 counter, any 7 events |

Why the bounds are enough. A buffer of one with three callers has the loop busy, the
buffer full and a sender parked at once, and leaves one more to overtake; with two calls
a minute the window holds several calls and lets some go. Two requests are the fewest
with one past the breaker's check while the other trips it; with a threshold of two and
one retry both their orders occur. One slot and two requests have a holder, a waiter and
a hand-over; a repair has a first, and a last, attempt. Two tags are two syncs, one after
the other or overlapping, or a crash and the sync after it; a third would begin from a
table, and from a listener that knows it or does not, as the second can; batches of one row make the
prune as interruptible as it can be. Two restarts are a Stop that finds the loop already
cancelled by another. The paths of `FileBrowserMC` have a file beside a directory of its
name, a directory whose name begins like another's, one that is `LIKE` another, a name the
regex refuses and items with several files; one change of a row, at any point of a walk,
is the least that makes a listing differ from the one before it. Two setters are the
fewest that overlap; seven events are two requests, two failures and a crash with lines and
counts between, and more than a ring of two lines needs to wrap twice. `Workers`, `Procs`
and `Setters` are symmetric where no property is temporal.

Deadlock is checked except in four runs: a client of `FileBrowser` is done when it has
seen everything and the changes are used up, `RuntimeServices` stops at its bound of
events, and after the shutdown of `SyncLifecycle` and `SyncLifecycleOrphan`, with the loops
ended or blocked, nothing is left to do.

### What the properties say

* `ThrottleQueue`: `CallsWithinLimit` is the rate limit as Stats shows it and
  `WindowSpaced` the reason for it; `NothingLost` relates what callers wait for to what
  the channel and the loop hold; `CountersMatchAnswers` is the dashboard's; `EveryCallAnswered`,
  `LoopStops` and `ImplementsLimiter` are the promises to callers and to shutdown.
* `CdnGuard`: `FailureRemembered`, `QuarantineKept` and `LeakBounded` hold for
  any interleaving of fetches, late failures and sweeps; `SweepEvictsOldest` is what a
  full map may forget; `FetchEnds` and `GuardReopens` say that it is never for ever.
* `CdnStream`: `SlotsConserved` over every early return; `DirectBodyGenuine`;
  `StatusSentOnce`; `LeaverReleased` also while others hold the slots, unless all of them
  stream for ever to clients that stay; `RequestEnds` once TorBox has recovered, if every
  client reads or leaves.
* `SyncStore`: `TagMarksOwnRows` through overlaps and crashes; `SuccessMirrors` after a
  clean sync, whatever was in the table; `PruneOnlyUnlisted`; `HooksKeepUp` for a
  listener that knew the library and has applied every report since, of changes that the
  code reports to anybody.
* `SyncLifecycle`: `LoopNeverLost` and `StopWaitsForCancelled` for any interleaving of
  Start, restarts and timeouts; `RestartEnds`, `StoppedLoopEnds` and `ShutdownSettles`
  say who ends and who may stay blocked. The last allows what `docs/tech-spec.md:104`
  does not: a loop that waits for an answer the queue dropped never exits (the process
  does).
* `FileBrowser`: `StableFilesFound` is that a walk misses nothing that was there all the
  time, `OnlyKeptFound` that it shows nothing the mount hides, `ListingsAgree` that three
  handlers, which each compute children themselves, compute the same. Each excepts, by
  name, what a name clash or a `LIKE` does: `steady` has the URLs that name a file with
  its name to itself and, under `largest_file_only`, the largest of its item; `OnlyKeptFound` leaves out a file that reaches the
  listing of a directory it is not in, or has neighbours that are `LIKE` its own
  directory, because there `largest_file_only` compares it with other files than those
  beside it. `ReadsAnswered` relates HEAD, GET and `parseRange`, and
  excepts a row that has changed in between.
* `RuntimeServices`: `NewestFirst`; `LevelPersisted` says when file and process agree, and
  when the file can be loaded; `StatsAccounted` accounts for every event ever counted.

### Where code and documents disagree

Four runs end in a counterexample, on purpose; `PROJECT.json` quotes the lines.

1. The hang path streams an error page as file data, which the direct path takes care not
   to do (`get.go:271-281` against `get.go:669-677`): `CdnStreamBody.cfg`.
2. Two syncs that overlap prune each other's rows (`sync.go:417-418`); with one sync the
   prune after a failed listing does the same to the other half of the library:
   `SyncStoreOverlap.cfg`.
3. An upsert may give a row to another item between a client's lookup and its
   `SetCDNURL`, which then stores the link of the old item (`store.go:214`):
   `SyncStoreRows.cfg`.
4. Two Restarts at once leave a loop that nothing can stop (`sync.go:134`):
   `SyncLifecycleOrphan.cfg`.

Others were met while modelling. The models do what the code does, and the properties
allow it where they would otherwise speak of it:

* The queue spaces Executes, not HTTP requests: pages of a listing, retries inside a sync
  and `GetUserInfo` go out back to back (`README.md:230`).
* The direct path opens a CDN response before it takes a slot, so open connections are not
  bounded by the slots (`docs/decision-log.md:131`).
* A quarantined item is skipped for `CircuitBreakerStaleMin`, as `get.go:363-376` and
  `docs/tech-spec.md:255-256` have it, and not "until the next metadata sync"
  (`server.go:43-45`): no sync touches the breaker. `QuarantineKept` is about the time.
* "If the client disconnects (context cancelled), we clean up and exit" (`get.go:559`): not
  while the handler is parked for a slot (`server.go:257`). The 30 s of `http.Client` bound
  only what is read from the CDN, and `server.go:778` sets no `WriteTimeout`, so clients
  that stay and read nothing, a paused player for one, keep their slots and hold up whoever
  waits for one. `LeaverReleased` and `RequestEnds` except exactly this.
* Items that come and go are reported to the hooks (`docs/tech-spec.md:489-491`) only between
  two libraries that are not empty (`sync.go:431-435`): a library that was {a}, then empty,
  then {b} reports neither the loss of a nor the arrival of b. Nor does anyone hear of a
  change past a failed `ListItemDirs` or of what a crash cut short, and two syncs at once
  may report one change twice.
* A repair that the guard refuses ends in a 502 and not in hang and poll mode
  (`docs/tech-spec.md:280`).
* The root lists mounts even when no virtual path is configured
  (`docs/tech-spec.md:158-159`).
* `largest_file_only` picks among the rows of a listing: a file that is not its item's
  largest appears in a subdirectory without the larger one (`docs/config-tuning.md:168`).
* `ListDir`'s `LIKE` takes names in another case, `_` and longer names for the directory's,
  so files of a neighbour appear in a listing; PROPFIND never answers 404; where a name is
  both a file and a directory, the first row hides the other.
* A suffix range of no bytes, or fewer, passes `parseRange` unchecked
  (`docs/tech-spec.md:321`); `Within` leaves it out.
* Overlapping requests for a level share one temporary file, so that the file may be torn,
  differ from the level in force, or be written although the answer was a 500
  (`config.go:421-423`, "atomically").

## Fairness

`ThrottleQueue`: weak fairness of `processLoop`, which is one goroutine, whose Execute
returns because the API client has a timeout of 30 s, and of time. Callers need not call
and nothing forces a shutdown. `CdnGuard`: weak fairness of a fetch under way (the queue
answers, `EveryCallAnswered`; a sleep ends) and of time. The sweeps have none, so
expiry does not rely on them. `CdnStream`: weak fairness of every step of a handler,
except a write to a client that is still there, and of the guard's reopening; strong fairness of `PollLeave`, as a select that comes up again and
again with the client gone takes that branch in the end; requests need not come, clients
need neither leave nor read, TorBox need not recover. That clients read or leave, and that
TorBox does recover, are hypotheses of `RequestEnds`. `SyncLifecycle`: weak
fairness of a sync under way, of a Restart under way and of the queue's exit; strong
fairness of a loop's exit, for the same reason as `PollLeave`. `SyncStore`, `FileBrowser`
and `RuntimeServices` state no fairness and have no liveness properties: what must
eventually happen there is an answer to one request, or waits for the operator.

## Proofs

TLAPS checks the proofs for all values of the constants that satisfy the assumption each
module names: any requests and buffer, a rate of at least one tick (`NewQueue` divides a
minute by the configured number); any files, items, times; any workers and faults; any
finite tree of rows, mounts and filters, given as a sequence of paths. Processes and
setters are finitely many, and None is a value of its own. Each proof rests on an
inductive invariant, stronger than what it is for.

**`Selection_proofs`.** What the other proofs need of recursive functions. The library's
induction theorems take an operator as a parameter and cannot be used here;
`LeastNumber`, that a nonempty set of naturals has a least member, follows from its
theorem that strict inclusion is well-founded on finite sets, which takes none. `Recursion`
gives a function that satisfies a recursion over `1..n` (the least number for which there
is none would have a predecessor), `SelectEntries` that a selection has the entries of the
slice that qualify and no others, the lemma `Unbeaten` that a strict order on a finite set leaves
some member unbeaten: the largest file of an item.

**`ThrottleQueue_proofs`.**

* `TypeCorrect`: `TypeOK` is inductive; `RateType` and `AgeType` hold the arithmetic,
  `ReceiveType` the channel, `WindowShape` the window's trimming.
* `SpacingKept`: with the types `WindowSpaced` is inductive. The two steps that matter are
  `AccountSpaced`, where a call joins the window a spacing after its last, and
  `TickSpaced`, where ages grow and saturate: a saturated age is beyond the minute that
  the invariant speaks of.
* `LimitKept`: the number of recent calls is a cardinality; they form a suffix of the
  window whose first and last are as many spacings apart as it is long, less one
  (`SpacedWithinLimit`).
* `OrderKept`, `NoneLost`: a receive must find the buffer within its capacity, and callers
  parked only at a full one (`ChannelOK`, `ReceiveKeepsChannel`); `InOrder` says that the requests arrived are those taken, then
  the buffer, then the parked, in this order, and that each caller's state says which of
  these its request is in. It is stronger than `NothingLost`, and inductive: enqueuing
  extends the order (`EnqueueInOrder`), a receive moves a boundary of it
  (`ReceiveInOrder`).
* `CountersCorrect`: an answer makes the answered one more, the accounting makes up for it.
  That the caller answered was not answered before is `HolderWaits`, from `InOrder`.
* `LimiterRefined`: under `InOrder` and `WindowSpaced` every step of the queue is a step
  of `RateLimiter` or a stutter. `ImplementsLimiter` is this and fairness, which is TLC's.

**`CdnGuard_proofs`.** `FailureRemembered` and `QuarantineKept` are not inductive: a tick
must not end an entry too early. `GuardInv` says that the maps hold, to the tick, the time
that is left of every remembered failure and of every quarantine (`GuardCorrect`).
`TypeCorrect`: `TypeInv` adds to `TypeOK` that the maps are finite, which their sweeps need
to count and to choose what they drop; `SweepsEvictOldest` follows from it for each sweep.
`LeaksBounded`: `LeakBounded` says nothing of the calls that fetches past the check may
still make. `LeakInv` bounds their number together with the calls made: within a quarantine
a call moves one from the set `CallsLeft` to the count, a retry takes no more than the
attempts a fetch has left, and a fetch that begins finds the item shut. When an item trips,
the fetch that tripped it has made its last call, which is why the bound is on the others.

**`CdnStream_proofs`.** `StreamInv` adds to `TypeOK` and `SlotsConserved` that the queue of
the semaphore holds each parked goroutine once and nobody else (`WaitersExact`), on which
the hand-over of a slot relies, and that a repair is under way only with an attempt left,
which bounds the attempts. `StreamCorrect`, `StreamTypes`, `SlotsNeverLost`. `PromiseInv`
says at which points a request has sent a status, which of them it reaches only hung, and
that the direct path waits for a slot only with file data in hand (`PromisesKept`). From it
follow `DirectGenuine`, and the action property `StatusSent`: `NextKeeps` shows for every
action that the goroutine it moves keeps the status it has sent until it is idle again.

**`SyncStore_proofs`.** `SyncInv`: rows have tags already handed out, concurrent syncs have
different tags, a clean sync has the table to itself, and what it has crossed off its list
is in the table with its tag. From it follow `SyncTypes`, `TagsOwn`, `Mirrored` and the
action property `PruneKeepsListed`. `HooksTold` needs more while a sync runs: `HookInv` says
that as long as the listener is not left behind, the library is the one it knows, or a sync
that runs alone, on a snapshot of what it knows, is still to compare.

**`SyncLifecycle_proofs`.** `LifecycleInv` relates each Start, Restart and Stop to the loop
it waits for or will launch, and each loop to the handle that can cancel it.
`LifecycleTypes`, `SyncNeverLost`, `StopsWaitForCancelled`.

**`FileBrowser_proofs`.** `RangeExact`: `parseRange` is exact for every size and every header
of its three forms. `ReadsCorrect`: hence every answer is, whatever edits come between HEAD
and GET, if the row is the one promised. `WalkCorrect`: `WalkInv` says that a file that has
been there all along is found or strictly below a directory still to be listed. The step
that matters is `NextEntry`, for each of the three handlers: the listing of a directory
above a file shows the file or a directory above it. It needs that `ListDir` selects the
file's row, that `Apply` keeps it whatever other rows are in the listing, and that no
other row makes an entry of its name first. `FilesFound` is `WalkInv` with
nothing left to list. `ListingsCorrect` compares the children the handlers compute, row by
row; `OnlyKept` goes back from an entry to the row it was made from.

**`RuntimeServices_proofs`.** `RingInv` says which slot each of the last lines is in; from it
`NewestShown`, also through restarts and changes of the level (`LogShown`). For
`LevelOnDisk`, `Shape` has the types and that the file and its temporary one are different
inodes, `InOrder` what the files hold while requests do not overlap, and `NoTear` who may
still write to an inode that is torn. An inode for a new temporary file exists because each
setter holds at most one. `EventsAccounted`: `StatsInv` adds to `StatsAccounted` that no
counter is below its baseline, so that a row is a growth; `Sum` is computed row by row, and
what appending a row and pruning the first ones do to it is shown by the same argument as
`Recursion`.

Only model-checked: the liveness properties, and the fairness part of the refinement, which
are out of the prover's reach; and that the four runs that end in a counterexample do.
Every type invariant, safety invariant and action property of the other runs is a theorem.

## Not modelled

Parsing and rendering (configuration, XML, HTML, OpenAPI), authentication, health, the
landing page and the running of hook commands are input and output of a single request.
The pages of `listGeneric` are one listing in `SyncStore`. Durations of transfers, the poll
interval's growth and SQLite's locking are nondeterminism. The breaker's map is keyed by
item id, and `CdnGuard` assumes one space of ids for torrents and usenet. In `SyncStore` a
file is a path and the item that owns it; sizes are in `FileBrowser` only, types nowhere.
Sorting, sizes and dates of listings, `Depth: 0` and `OPTIONS` are left out of `FileBrowser`,
gauges and the queries behind the charts out of `RuntimeServices`; the charts' endpoint
ignores the `minutes` that `docs/tech-spec.md:688` gives it.

## What is left

1. `buildFileRecord`, which makes the paths of `FileBrowser` from `s3_path`, and the pages of
   `listGeneric` with an account that changes between two of them.
2. The premises of the liveness properties that are invariants, as theorems: that a sync
   under way, or a request, always has a step to take, from which fairness does the rest.
