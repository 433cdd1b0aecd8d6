# mihomo-proxy-manager in TLA+

mihomo-proxy-manager downloads proxy subscriptions, parses and transforms them,
keeps the result of each source in a JSON cache, and serves routes that combine
the caches of several sources. This directory holds TLA+ models of its
stateful parts, TLC configurations that check them on small instances, and
proofs, checked by TLAPS, of what holds for every instance. File names without
a directory are under `src/mihomo_proxy_manager/`.

## 1. The system

### Components, their state and their operations

| component | state | operations that change it | what makes it correct |
| --- | --- | --- | --- |
| `SourceRefresher` (`refresher.py`) | `_inflight` (source -> task), `_locks` (source -> asyncio.Lock) | `refresh`; inside it `_refresh_with_lock`, `_refresh_locked`, `_record_failed_attempt` | one job per source; callers that overlap share it or give up after a time-out; a success replaces content and validators together, a failure keeps them; every call returns |
| `JsonSourceCacheStore` (`cache.py`) | `<source>.json`, `.json.tmp`, `.lock`; `_memory`, `_memory_mtime`, `_refreshing`, `_dir_created`, an asyncio.Lock per source | `get`, `set`, `set_refreshing`, clean-ups of temporary files | the file is always a whole record; the memory copy never hides a newer file; no lock survives its holder |
| application (`app.py`) | `background_tasks`; per request: records, missing, due | `provider`, `_spawn_background_refresh`, `lifespan`, `status` | serves only records within `max_stale`; waits a bounded time; a route without nodes is unavailable, never empty |
| `RefreshScheduler` (`scheduler.py`) | `_tasks`, `_stopping`, the next target of each loop | `start`, `stop`, interval and cron loops | no burst and no drift after a long refresh; `stop` leaves no task |
| `SubscriptionFetcher`, `SafeHttpClient` (`fetcher.py`) | per request: current URL, method, body, headers | `fetch`, `request` (redirect loop) | every hop is checked; stripped headers stay stripped; the loop ends |
| `DnsResolver`, `DnsClient` (`dns.py`) | per call: a semaphore, one task per server and address family | `resolve_records` | bounded concurrency, A preferred, the `fail`/`drop`/`keep` policies |
| `HttpActionPlugin` (`plugins/http_action.py`) | none | `run` | never raises |
| `SQLiteAccessAuditStore` (`access_audit.py`) | the table, `_last_cleanup_ms` | `record`, `cleanup`, `stats` | retention is applied though records and clean-ups race |
| transform (`transform.py`) | none | `apply_transform`, `repair_duplicate_names` | names in an answer are unique |
| parsers (`parsers/`), schema (`mihomo_schema.py`) | none | pure functions from text to nodes | no entry is lost without a warning; what was accepted stays accepted |
| renderers (`render.py`) | none | pure functions from nodes to text | no line drops what protects its node, beyond known losses; names differ |
| route targets and access (`route_targets.py`, `access.py`), configuration (`config.py`) | read once, or none | pure functions of the query, the path and the User-Agent; `validate` | a link leads back to what it promised |
| models, logging, security, status, CLI | read once, or none | - | - |

### How they interact

Routes, the scheduler's loops, the startup refresh and `mpm refresh` all call
`SourceRefresher.refresh(source)`. The first caller creates a task, the job;
callers that arrive before it ends wait on it behind `asyncio.shield` for at
most `refresh_lock_timeout`. The job reads the cache, runs the `before_fetch`
plugins, fetches (conditionally, unless DNS resolution is on), parses,
transforms, resolves and writes a new record. Its owner cancels it when it is
itself cancelled; a waiter does not. The store is shared by all coroutines
through one asyncio.Lock per source and by all processes through one FileLock
per source. The status page reads the store and its `_refreshing` set. Routes
read the store, start refreshes for sources that are due, and wait for those
that are missing.

### What is hard

Overlapping calls at every `await`; records that are read, awaited on and then
written whole; timers that race answers; done callbacks that run in a later
turn of the loop than the end of their task; cancellation at shutdown; a kill
in the middle of a write; two processes on one cache directory; clean-ups that
take no lock; modification times. `PROJECT.json` lists each hazard at its line.

## 2. Plan

Done, in this order: the refresher with its abstract specification and its
proofs, and the cache store; the service (routes, scheduler, lifespan) over an
abstract refresher; the inside of a refresh (plugins, redirects, parsing,
schema, transform, resolver); the answer of a request (targets, renderers,
links), the audit store and the clocks of the loops; the proofs about the
order of the refresher's records, the store, the service and its routes, the
audit, the loops, the redirects and the semaphore; the proofs about data, that
is about the nodes of a subscription from the parser to the line of an answer,
for lists of any length. With these every invariant that a run checks is also
proved.

Left, in the order of what it would add:

1. Two processes, each a whole refresher, over one cache file (`cache.py:249`):
   `Refresher` with a second, interleaved `Callers` set and `CacheStore`'s steps
   in place of its atomic `Get` and `Set`.
2. The wire side of `DnsClient` (`dns.py` 150-435): transaction ids, truncation
   and the fall back to TCP.
3. Proofs of what the abstract neighbours of a component promise it: that a
   job of `RefreshCalls`, which ends in one step, is implemented by one of
   `Refresher`; that the records of `Server` are those `ProviderRoute` collects.
   The first such link is proved (`StoredRecordsFit`, section 5).

## 3. Modules

### `Refresher`

One source; several callers. `pc[c]` says at which `await` the coroutine of
caller `c`, or the job it owns, is: an owner awaits its job, so the two never
move independently and share one counter. An action is what happens between
two awaits.

| state | code |
| --- | --- |
| `stored` | the `SourceCache` a `get` returns (`present` is FALSE for None) |
| `storeQ` | the holder and the waiters of `JsonSourceCacheStore._locks[source]`, in order |
| `inflight`, `lock` | `_inflight[source]`, the holder of `_locks[source]` |
| `refreshing` | membership in `_refreshing` |
| `target`, `result` | the job a waiter is shielded on; the outcome of a call |
| `now`, `old`, `draft` | the locals `now`, `old_cache`, and the record being built or written |
| `clock`, `calls` | time-stamps handed out, calls made (bounded by `MaxCalls`) |

`Start`, `Join`, `JoinDone` are the three ways into `refresh`; `TimeOut` is
the expiry of `wait_for`; `Pop` is the turn of the loop in which the job's done
callbacks run (the entry is popped, owner and waiters are woken); `Acquire`,
`Get`, `Plugins`, `FetchBody`, `FetchNotModified`, `FetchError`, `Dns`,
`Counts`, `Set` are `_refresh_locked`; `FailCounts` and `FailSet` its except
clause; `RecordGet`, `RecordSet` and `RecordSkip` are `_record_failed_attempt`
for a job without a record and for a waiter. `Stop`, `CancelJob` and
`CancelWaiter` are the shutdown; `Restart` is a kill or the next start.

What is abstracted: `nodes` stands for proxies, node count and warnings, `etag`
for both validators. A server answers 304 only to a validator it has given out
with the content it still serves. The store's lock is FIFO, as asyncio.Lock
is; the first `get` of a process, which makes the directory before it queues,
is not told apart. A write under way when its coroutine is cancelled has
happened or not (the worker thread may still finish it); the choice is made at
the cancellation. The lock time-out branch of `_refresh_with_lock` (154-163)
has no action: `LockNeverContended`, which is proved, says no job ever waits
for that lock.

### `RefreshContract`

What a user of the cache record may rely on, in two actions: a success
replaces nodes and validator together and adds one to attempts and successes; a
failure keeps nodes, validator and time of success and adds one to attempts
and failures. `Refresher!KeepsContract` instantiates it with `stored`.

### `CacheStore`

One source; several processes, each in at most one `get` or `set`, since the
asyncio lock serialises those of a process. The actions are the steps between
system calls: the FileLock, `exists`/`stat`, `read_text`, `unlink` and creation
of the temporary file, its last byte, `os.replace`, the final `stat` (after the
FileLock is released) and the update of `_memory`. `Crash` may come anywhere
and frees the FileLock, as the system does. `Age` and the clean-ups of
`_ensure_dir` (no lock) and `_cleanup_stale_tmp_for_source` may remove a
temporary file, also one a slow writer is still filling. `Tamper` is someone
who deletes or garbles the file. A record is the number of the write that made
it. `setting`, chosen by `Init` and never changed, says who writes, whether the
clock of the file system is coarse, and which of these things may happen, so
that one run checks several scenarios.

### `RefreshCalls`, `ProviderRoute`, `Scheduler`, `Service`

The server above the refresher: several sources, each with a record that ages
and at most one job in flight, and the tasks that call `refresh`.

| state | code |
| --- | --- |
| `cache` (`RefreshCalls`) | what `_is_still_valid` and `_is_due` say of the source's record: `fresh`, `due`, `expired`, or `none` |
| `job`, `call` | `_inflight`, by the call that owns the job; what became of each call of `refresh` |
| `pc`, `next`, `records`, `due`, `missing`, `status` (`ProviderRoute`) | where `provider` awaits, and its locals; sources are named by their place in `route.sources` |
| `background` | `background_tasks` |
| `tasks`, `loop` (`Scheduler`) | the startup refreshes in `_tasks`, the loop of each source |
| `phase` (`Service`) | where `lifespan` is |
| `always`, `ever` | history: the sources whose record was valid all the time, or at some time, since the reading (the second, if there are two) began |

`Read` is one turn of the first loop of `provider` (464-476), with the
background refreshes (486-488) after the last; `StartMissing` is what follows
`sleep(0)`, up to the wait or the answer; `Collect` is the end of
`asyncio.wait`; `Reread` one turn of the second loop; `Audit` the `finally`
clause. `Start`, `StartGathered`, `StartRaises`, `StopTasks`, `LoopWakes` and
`LoopAgain` are the scheduler; `StartUp`, `StartUpDone`, `StartUpFails`,
`StopScheduler` and `StopBackground` are `lifespan`. `config` is what the routes,
the loops and the startup mode are; it is chosen by `Init`.

What is abstracted. A job ends in one step for its owner and all who wait on it;
the turns in between are in `Refresher`. A record is read and judged in one
step. `JobEnds` is a success, a failure or an exception of the store;
`WaitExpires` may put an older record back, as `FailureKeepsCache` shows. Tasks
that were created take their first turn before the handler's next one
(`HaveBegun`), because the event loop is a queue. The handler has a turn of its
own after `sleep(0)` even if nothing was due: more interleavings than the code
has. External: the web server takes requests only after the startup, and lets
them finish before the shutdown. A clock is not modelled: `Older` may come at
any time, a loop may wake at any time, `asyncio.wait` may time out at any time
after its tasks have begun.

### `SafeHttp`, `Resolver`, `ProxySchema`, `Selection`, `Parsing`, `Transform`, `Subscription`

The inside of `_refresh_locked`, which `Refresher` takes for one step each.
`Subscription` goes through the stages of a refresh; the others are its parts.

| state | code |
| --- | --- |
| `stage`, `plugin`, `body`, `records`, `warned` (`Subscription`) | where `_refresh_locked` is; the plugin it has come to; the fetched body; the nodes; the entries that got a warning |
| `req` (`SafeHttp`) | the locals of `SafeHttpClient.request`: origin, method, body, headers (by class), redirects counted |
| `host`, `at`, `ip` (`Resolver`) | per host name, where its coroutine is, which DNS server it asks, the family it got |
| `task`, `asked`, `queue`, `permits` | the A and AAAA tasks, their cancellation, the semaphore |

`Redirect` is one turn of the redirect loop, with the change of method, body
and headers; `CheckHop` the check before each hop. `req.kinds` is history for the
properties, the statuses of the redirects followed. `AskEndpoint`, `AComes`,
`AAAAComes`, `Close` are `_query_endpoint`; `Acquire`, `QueryEnds`, `Cancelled`
a query task; `CancelJob` to `CancelDone` the cancellation of a refresh while it
resolves.

`ProxySchema` is `normalize_proxy`: a node maps its fields to classes of values (good
or bad text, numbers, maps, null, empty ...), which are coerced by the kind of the
field and checked by the rules of the 24 types. The kind goes by the name of the
field; a field that the schema of a type does not have the code keeps as it is
(`Foreign`); the runs give a node fields of its own type, or values that coercion
leaves alone. Two checks raise an exception instead of a warning (`Raises`), and then
the refresh fails. `Parsing` is `parse_subscription` with the order in which it tries
formats, YAML entries and the share links of five schemes as records of their parts.
`Transform` filters, renames and repairs names; a name is a sequence of tokens, a
regular expression a token it looks for. The number " #3" that
`repair_duplicate_names` appends is the token `blank`, the token `#` and strokes, so
that two numbers differ and lose their blank to a cleaning as they do in the code. A
loop that copies some elements of a list is `Passing(s, test)` of `Selection`. It says
what `SelectSeq` says, by the places of the elements instead of by recursion, which
the prover cannot follow; the assumption `PassingSelects` of `MCSubscription` has TLC
compare the two on all lists up to length four. What is left out: how a text is split
into lines, URLs or YAML, and what a key, cipher or UUID looks like.

### `Rendering`, `Routes`, `AuditStore`, `LoopClock`, `Server`

What a client gets, and what the time does meanwhile.

`Routes` holds what `validate` checks of paths and outputs, the paths the
application serves, the selection of a format (query, companion path,
User-Agent, default) and the URLs put into an answer. `Rendering` says for each
format which nodes it takes, which names it prints, which fields of a node a line
holds in some form, and what the status and the link of the answer are. In
`Server` a request arrives (`Request`, or `Follow`, a client that requests a link
it was given), is answered (`AnswerRoute`, `AnswerElse`) and recorded (`RecordEvent`, which does
nothing where `access_log` is off, as it is in every setup of the run but the one
with three requests); reading the records is `ProviderRoute`'s subject and here a choice between those of the
setup and none.

| state | code |
| --- | --- |
| `request`, `answer` (`Server`) | what was sent; status, route, companion, format, lines and link of the response |
| `writer`, `asked`, `cleaner` (`AuditStore`) | where the worker thread of an event is, its `now_ms`, the holder of `_cleanup_lock` |
| `visited`, `events`, `lost`, `lastCleanup` | `visited_at`, the rows of the table, failed inserts (history), `_last_cleanup_ms` |
| `phase`, `target`, `wakeAt`, `ended` (`LoopClock`) | what a loop awaits, `next_target` or `next_at`, the end of its sleep, when its last refresh ended (history) |
| `now` (`WallClock`) | the clock |

`Check` reads `_last_cleanup_ms` without the lock and `Acquire` again with it;
`Sweep` and `Swept` are the delete and the assignment after it, two steps, since
another thread may look in between. `Plan` is the head of a loop: it moves the
target past the present and draws a jitter. A refresh takes arbitrarily long.

What is abstracted: the words of an answer; a User-Agent is the client whose
signal it holds; a cron expression is one that occurs at every multiple of
`Interval`; a delete and an insert are one transaction each.

### Model-checking modules

`MCRefresher`, `MCCacheStore`, `MCService`, `MCSubscription` and `MCServer` declare
model values, symmetry sets, and the sets of settings, configurations, bodies
and requests a run takes. Symmetry is used only in runs without liveness
properties. A definition that says "Variant" is a fault: the mutants of
`PROJECT.json` put it in the place of the definition after it.

## 4. Runs

| run | question | bounds |
| --- | --- | --- |
| `refresher_safety` | is there one job, do lock, mark and waiters agree, is every record coherent, are the time-stamps ordered? | 3 callers, 4 calls, 3 contents of which one has no usable node; time-outs, store failures, lost files, shutdown, kills |
| `refresher_contract` | does the refresher implement `RefreshContract` when no wait times out? | 3 callers, 4 calls |
| `refresher_returns` | does every call return; does a waiter return when the upstream hangs; does the attempt counter ever go back? | 2 callers, 3 calls, DNS on |
| `refresher_rollback` | violated: a failure keeps content and time of success | 2 callers, 3 calls |
| `store` | is the file always whole, the lock exclusive, the memory copy on disk; does a reader see what another process wrote, deleted or garbled; does every operation end? | 2 processes; both write (coarse clock, slow writes), or one writes and the file is tampered with; 2 writes |
| `store_two_writers` | violated: a reader sees what was written, with two writers | 2 processes, 3 writes |
| `service_routes` | does each answer rest on one reading, without records that were expired all the while; is a request turned away only if it must be; is every refresh kept track of; does anything run after the shutdown? | 2 requests over the same 2 sources in opposite orders, one requires all; or 1 request, a loop and background startup |
| `service_answers` | is every request answered though refreshes hang; is what is due refreshed? | 1 request over 2 sources, blocking startup |
| `service_listed_twice` | violated: nothing runs after the shutdown, on a route that names its source twice | 1 request, 1 source |
| `subscription` | does a refresh keep headers at home, check each hop, lose no entry in silence, store only what routes accept, keep the semaphore balanced, take the first answer, and end? | 3 origins of which 2 pass, 2 redirects; a node of each type with one field or the fields checked together changed, share links with two parts changed; 2 hosts, 2 DNS servers, 2 permits |
| `server` | does a line drop a protecting field beyond the known losses, are names apart, do links lead back, are events kept, clean-ups apart, loops on their grid? | 1 or 2 routes; nodes of 10 types with two fields set; 3 labels of 8; 3 requests and threads, `Hour` 2, `Retention` 1; one loop, `Interval` 3, `Jitter` 4, time to 10 |
| `names_repeat` | violated: the names of every output that is not YAML are unique | 3 labels in Surfboard, 2 in Quantumult X |

Why the bounds are enough. The races between a job and its waiters need a job,
one waiter that gives up, and a second job or waiter that finds what the first
pair left: three callers and three or four calls. The store's races need a
writer, another process in the middle of an operation, and a next operation
that shows the damage; a third write lets a stale copy be overwritten. A route
needs two sources to have one valid and one missing, and two requests to have
one wait on the other's job; the shutdown needs an owner and a waiter of
different kinds on one source. A header leaks after two hops if at all: away
and back, or away and on; so does a body that comes back after a 303. A permit is lost between a task that runs, one that
waits and one that is cancelled: two hosts with two families make four tasks
for two permits. The checks of a renderer relate at most two fields of a node.
A collision of names needs one name that is a repaired form of another: three
labels. A link is followed once, and from what it gives a client goes no
further. Clean-ups race in two threads while a third has inserted; a jitter
longer than the interval and a refresh of three intervals make a loop skip.

`CHECK_DEADLOCK FALSE` is set in `server` and `names_repeat` only, where time and
requests are bounded and the run simply ends; in the other runs deadlock is checked, with
`Terminated` as the state in which the bound is used up.

### What the violated properties show

* `FailureKeepsCache`: a waiter's time-out reads the record (`refresher.py:189`),
  waits for the store again, and writes a whole record (214). The job can commit
  in between; its new nodes, validators and `last_success_at` are replaced by the
  old ones. The design says "Source refresh failures do not delete old cache."
* `ReadsAreCurrent` with two writers: `_write_file` reads the modification time
  after the FileLock is released (`cache.py:435`). A process can note the other's
  newer time next to its own older record, and then serves that record until
  the file changes again.
* `NothingRunsAfterStop` when a source is listed twice: `validate` accepts such a
  route; `dict(zip(missing, tasks))` (`app.py:501`) keeps one of the two tasks, so a
  task that owns the job is neither awaited nor known to the shutdown.
* `NamesAreUnique`: `docs/route-formats.md:783` wants the names of every output that
  is not YAML to be unique. The tags of Quantumult X are cleaned after the repair
  (`render.py:682`), so the nodes `HK JP` and `HK,JP` get one tag. Surfboard cleans before
  the repair and again after it (286, 1387): of nodes named `:`, `:` and `#2` the first
  has no line, the second is repaired to ` #2`, and the second cleaning makes it
  `#2` like the third. `NamesStayApart` says what does hold.

### Observations without a run

Met while modelling, each visible in a definition:

* `README_EN.md:440` lists Reality and Vision among what xray-uri keeps; the code
  leaves such nodes out (`XrayTakes`).
* `docs/route-formats.md:792` says that security-relevant fields must not be silently
  dropped. `KnownLosses` lists what lines do lose of the fields in `Protecting`: the
  second encryption of VLESS (printed as `none`, `render.py:1218`; the same document,
  line 331, requires `encryption=none`) and of Trojan (`ssOpts`); a transport that a
  URI of VLESS or Trojan has no word for (175), xhttp say; the obfs `gecko` of
  hysteria2 in Surfboard (557); TLS of VMess and VLESS under gRPC in Quantumult X
  (795).
* Two checks of `normalize_proxy` raise an exception, which no parser catches, so the
  refresh fails with the good nodes it had: `len()` of a WireGuard `reserved` that is a
  number (`mihomo_schema.py:1122`), and a Shadowsocks `plugin-opts` whose `mode` is a
  list, looked up in a set (1001). `README_EN.md:304` says that `skip` drops bad nodes.
* Of Surfboard nodes whose label consists of separators only the first is left
  out (`SurfboardPrints`) and the others are named `#2`, `#3`, by the repair alone.
* A job reads the counters (`refresher.py:351`) and writes them (369) after an
  await; a failure a waiter commits in between is forgotten. `CoherentCache`, which
  asks that the counters of a record add up, still holds.
* A share link of VMess without a port yields port 0, and the obfs of a hysteria2
  link is not read (`VmessNode`, `UrlNode`).

### Fairness

`LoopFairness`: the event loop runs every ready coroutine and the store answers
(each store operation is a worker thread on local files). `UpstreamFairness`
is assumed only in `EveryCallReturns`: the HTTP client has per-operation
time-outs, the resolver and the plugins too; there is none over a whole job.
`TimerFairness`, that an armed timer fires, is assumed only in
`WaiterReturns`. In `Service`, `LoopFairness` is the handlers' own steps (the
timer of `asyncio.wait` among them) and the first turn of created tasks; that
jobs end (`CallsEnd`) is assumed only in `DueIsRefreshed`. In `CacheStore` worker
threads run, and a process gets the FileLock if it is free again and again
(strong fairness), because `FileLock` polls; it does not wait in a queue. In
`Subscription` the steps of the refresh as a whole are weakly fair: each has a
time-out or waits for nothing; parsing has a conjunct of its own, in a
form TLC evaluates on the stage alone. A redirect costs one of a bounded number,
so the same fairness is enough for the loop.

## 5. Proofs

The proofs hold for every value of the constants, under the assumptions named
in the modules (`NoCaller` is not a caller, the start and the loops of the
scheduler are no requests, the hour is positive and the clock starts at an hour
at least, the interval is positive, and so on). Those about data say of what
kind the inputs are, never how many: `Subscription!SetupAssumption`, that a body is
a list of entries each with a name, that a YAML node has a type and that the
obfs of a hysteria2 node is of one of the classes the model tells apart;
`NameAssumption`, that the name of no host is an IP address (`_is_ip_literal` is
asked first); `Server!SetupAssumption`, that a configuration is of the types that
reading it makes it (`models.py`) and that stored records are normalized nodes
with different ids. The last is what `StoredRecordsFit` proves of the records a
refresh stores for one source; an id stands for an entry of a source, so those of
several sources differ too. TLC evaluates each assumption on the sets of the runs.

| module | theorems | the inductive invariant, beyond the property |
| --- | --- | --- |
| `RefresherProofs` | `TypeCorrect`, `OneFlight` (`SingleFlight`, `RefreshingWhileLocked`, `WaitersHaveAJob`), `NoWaiterLeft`, `LockFree`, `CacheIsCoherent` (`CoherentCache`, `CountersBalance`), `ContractKept` | one job inside the lock, waiters shielded on it; coherence of every record that may be written, by program counter |
| `RefresherOrderProofs` | `SuccessesInOrder`, `AttemptsInOrder` | clients that have read are in the store's queue in the order of their reads, each with a record that goes with what was stored then |
| `CacheStoreProofs` | `StoreTypes`, `LockIsExclusive`, `FileIsWhole`, `MemoryFollowsDisk`, `OneWriterIsSeen` | a process past the lock's acquisition is its holder; what a process is about to publish is complete and newer than the file, and than all that was seen |
| `ServiceProofs` | `OwnersStayAlive`, `CallsAreTracked`, `ShutdownLeavesNothing` | a job's owner is inside `refresh()`; by where a handler, a loop, the start and the stop are, which calls may be live and who awaits them; a cancelled call leaves the set |
| `ProviderRouteProofs` | `ServiceTypes`, `OnePass`, `ServesNothingExpired`, `ServesValid` | the first reading puts each place it passed into the answer or among the missing; the second leaves out nothing that has been valid since it began |
| `RecordProofs` | `RepairedApart`, and the lemmas about `Selection`, `Transform` and `Rendering` | - (operators only) |
| `SubscriptionProofs` | `HeadersAreHeld`, `PermitsBalanced`, `NothingLeft`, `FirstAnswerCounts`, `RefreshTypes`, `NodesStayAccepted`, `NothingIsLost`, `StoredRecordsFit`; of operators, `CoercedIsSound` and `ParseOk` | the headers and the body of every hop before it is sent, not only the one sent; the queue of the semaphore holds each waiting task once and no other; a host that goes on has no task left and no address; a cancelled refresh has no host that goes on; no host is past its last server (`Asked`); by stage, which entries are accounted for and which hosts have been asked for (`PipelineInv`) |
| `ServerProofs` | `EventsKept`, `CleanupsStayApart`; `GridIsKept`; `ServerTypes`, `NamesAreApart`, `LossesAreNamed`, `LinksAreGood` | one thread is inside the lock, the time it took is not in the future and an hour past the last clean-up (`AuditInv`); targets are on the grid, and a loop that no longer sleeps has reached its target (`GridInv`); an answer is what the route at its path gives to the request that was sent, and who follows a link sent what the link says (`AnswersInv`) |

`RefresherProofs`. `SingleFlight` alone is not inductive: a job must also be known
to be the only one inside the lock, and waiters to be shielded on it; the
conjunction of the three properties is. Coherence of `stored` needs coherence
of everything that may be written into it: of `old` and `draft` of every
caller, by program counter (a draft under construction is coherent in its
content, a draft being written is a whole record; a record that is kept on
failure was itself a stored one). The refinement (`ContractKept`, which assumes
that no wait times out and the cache file is not lost) needs in addition that
the job is the only client of the store, so the record it read is the one it
replaces, and that its time-stamp is newer than the stored one.

`ServiceProofs`. `NothingRunsAfterStop` speaks of the stopped service only; what is
inductive is where its calls are before that: a live call of a request is in
`background` or awaited by its handler, one of the start is awaited by the start, and
one of a loop is there only while the loop is, so the steps of the shutdown, which
cancel the loops and the set one after the other, leave none. That a handler still
awaits its call holds only if no second task of the same source takes its place, so
`CallsAreTracked` and `ShutdownLeavesNothing` assume `SourcesOnce`, that no route
names a source twice; without it they are false, as `service_listed_twice` shows.
`OwnersStayAlive` needs no such assumption: it says that whoever is inside `refresh()`
has a job whose owner is inside it too, and that the calls of the scheduler are
awaited by their loop, known to `stop()`, or awaited by a start
(`SchedulerCallsKept`); of the calls of requests `CallsAreTracked` speaks.

`ProviderRouteProofs` rests on two histories: the sources valid at some moment of a
reading (`ever`) and those valid at each (`always`). A refresh that ends between
two steps of a handler may change what is valid, so the invariant compares the
answer under construction with the histories and never with the present: what
has been collected is within `ever`, and a place that has been passed over is
not within `always`, or is among the missing and read again.

`RefresherOrderProofs`. Who reads the record writes it later, with other clients in
between, so neither property is inductive. For `SuccessNotAfterAttempt` no success
known to a client, stored, read or drafted, may be later than the time-stamp it
will write as its attempt; a job that may succeed and whose stamp is later than
that of a waiter that has yet to read is behind it in the queue and has read
nothing, so the waiter has read before the job writes. For `AttemptsNeverDecrease` a client about to write has
counted at least what is stored and at most one more, and no more than those
behind it. Each step is first shown to be a `Moved(c)`: one client moves, the others
keep their places in the queue, and who reads goes to its end. `AttemptsInOrder`
assumes that the file is not lost: a writer that read before the loss would come
before one that read after it.

`CacheStoreProofs`. `OneWriterReadsAreCurrent` says nothing of the middle of an
operation. Inductive is that a file not newer than the time a process remembers
holds what the process remembers, of the memory copy and of what a get has read;
what a writer is about to publish is newer than all of these, because `stat()` and
the replacement exclude each other and its process, the only writer, sets no
memory copy meanwhile. The proof does not use that clean-ups come in time
(`slow`), which the property assumes.

`ServerProofs`, the audit. The look at `_last_cleanup_ms` without the lock plays no part: the
second look is what keeps clean-ups apart, and a sweep deletes by the time its
own thread took, which is at most the present; so an event within retention
survives every sweep.

`SubscriptionProofs`. `HeadersStayHome` speaks of the moment a request is sent; what
is inductive is that from the first hop on custom headers and validators are present
only while the request is at its own origin, and a body only while the method is POST
and no redirect was a 301, 302 or 303. It does not say that a body stays at home,
since it does not: the client keeps it on a 307 or 308 (`tests/test_fetcher.py:189`),
also to another origin, if that passes the check. `PermitsBalance` is kept by a step
only if a task that leaves the queue was waiting and one that gives a permit back was
running: the invariant adds that the semaphore's queue consists of distinct waiting
tasks, hence that a cancelled waiter is gone from it for good. `NothingOutlives`
follows once no host is left behind with a task that waits, and a cancelled refresh
has no host that asks another endpoint; `FirstAnswerWins` from the answers counted
being exactly the tasks that found an address at the endpoint a host is at.

`ServerProofs`, the loops. They rest on a little arithmetic of multiples: the
first target is a multiple of the interval from the origin, a rebase adds
multiples, and the first one past `now` is at most an interval away.

The pipeline (`SubscriptionProofs`, on `RecordProofs`). `AcceptedStays` and
`NoSilentLoss` are about lists, and no induction over lists is needed for them:
`Selected(s, places)` is shown once to be an increasing enumeration of `places`
(`SelectedIs`, from cardinalities of intervals), so it keeps the order, takes
nothing from elsewhere and loses no place. `AcceptedStays` then is a property of one
node. `CoercedIsSound`: each coercion is the identity on what it returns, so the
checks of a type see the same values the second time; and no check looks at
anything that a rename or an address in place of a host name changes. The
invariant `PipelineInv` says by stage what is there: from the parser on, each
entry is a record, has a warning or does not pass the filter (`Accounted`); while
the resolver is at work, that every host of a record has been asked for, so a
record that is left when all hosts are done has an address or a warning. That a
stored record with `dns.failure` other than `keep` has no host name left follows
only from both. `StoredRecordsFit` closes the gap between two modules: what `Server`
assumes of its records is what `Subscription` guarantees of those it stores.

Names (`RecordProofs`). `RepairedApart`: of n records, record i finds a free name
among its first n candidates, because the candidates differ (they are of
different lengths) and at most n - 1 names are taken or reserved; a name chosen is
not used before, and one that is made up is not the own name of a later record.
In Surfboard a repaired name is cleaned again. A name that was cleaned before the
repair is its own cleaning (`CleanedIsClean`, `CleanStays`), and so is one with a
number appended (`CandidateIsClean`), unless nothing was left of the name, of
which the second cleaning makes the number alone (`NumberAlone`). So the second
cleaning makes equal only names that are bare numbers (`SecondCleaning`). What
happens besides only drops records, which gives `NamesStayApart` for every format
but that of Quantumult X.

Lines and links (`ServerProofs`). A line stands for a stored record whose node passed
the checks of the format (`LinesAre`), and for each format and type a node that passes
them has no protecting field outside what a line keeps and the losses known of the
format: that is `LossesAreKnown`. Which fields protect a node is taken from
`docs/route-formats.md:792` and the schema (`Protecting`), not from the lists of the
renderers. It does not speak of `skip-cert-verify`, without which a client only checks
more, of UDP behaviour, nor of `alpn`, `dialer-proxy`, `smux` and the options of a
transport, which are about connectivity. `LinksLeadBack` is about two answers, so its
invariant is about requests: an answer is determined by the configuration, the path,
the query, the client and the records the reading gave (`RouteAnswer`), whatever else
was requested meanwhile, and a request that follows a link has the path and the target
of that link. What is left is about configurations: in one that `validate` accepts
paths are apart, so the path in a link is that of its own route, main or companion,
and the target in it selects the same format again.

Only model-checked: the liveness properties (`EveryCallReturns`, `WaiterReturns`,
`RequestsAnswered`, `DueIsRefreshed`, `OperationsEnd`, `RefreshEnds`), which are outside
the prover's reach like everything about ENABLED, and the four properties that the
code violates. That `Passing` is `SelectSeq` is checked on short lists only, since
that needs induction over a recursive operator.

## 6. Not modelled

* The splitting of texts: YAML, URLs, base64, DNS messages, the wording of a
  rendered line. Their outcomes are inputs of the models.
* What a cipher, key, UUID or address looks like (`mihomo_schema.py` 1304-1463,
  `security.py`): a value is of a class that passes or not. Redaction of secrets.
* `stats()` and the display helpers of `access_audit.py`, the status page
  (`status.py`) and `JsonSourceCacheStore.status`: reads, of which no document
  promises that their figures belong together.
* The reading of the configuration file and the checks of single values
  (`config.py`); `validate` is modelled as far as it decides where a request goes.
* Logging, the building of the runtime in the command line; `mpm refresh` is the
  second process of `CacheStore`.
* Exceptions of `cache_store.get` in a handler (`app.py:468`, `app.py:526`): the request ends
  with an error of the web server.
* A 304 that answers a request without a validator (`fetcher.py:337` and
  `refresher.py:285` accept it): a server of which `FetchNotModified` and `Answer` take the
  contract of HTTP for granted.
* A write that lands after its coroutine was cancelled, from a worker thread that
  goes on (`cache.py:249-253`): `CancelJob` and `CancelWaiter` decide at the cancellation
  whether it happens.
* A cache file that holds JSON other than an object: `GetRead` reads it as a garbled one,
  the code raises an AttributeError.
