# A TLA+ model of lessen-mcp-gateway

The gateway (Go) sits between MCP clients and any number of MCP servers. It starts stdio servers
on demand, speaks HTTP and SSE to others, negotiates one of two protocol eras with each of them,
keeps a searchable registry of their tools, and routes `tools/call` to the right one. Most of its
difficulty is concurrency: every call, discovery, health check and reload is a goroutine of its
own, the subprocesses come and go under them, and most state is shared, in memory, in a database
and in files.

This directory holds TLA+ modules translated from the source, TLC configurations that check them
on small instances, and TLAPS proofs for every value of the constants. `PROJECT.json` lists the
components, runs, findings, hazards and theorems, and maps each definition to its lines of code.

    tlc -workers 2 -config MCBackend.cfg MCBackend     # one run
    tlapm StdioClientProofs.tla                        # one proof module

## Inventory

| Component (source) | State | Operations | What makes it correct | Modelled by |
|---|---|---|---|---|
| Stdio transport (`internal/transport/stdio.go`) | command, stdin, generation, pending map, idle timer, two mutexes | `Call`, `Notify`, `Health`, `Close`; read loop, Wait goroutine, idle callback | one outcome per call, the right one; nobody stranded; no process lost; idle processes stop; closed stays closed | `StdioClient` |
| Legacy SSE transport (`legacy_sse.go`) | stream, readiness channel, generation, pending map | `Call`, `Notify`, `Close`, stream loop | as for stdio; whoever waits for the stream is woken | `LegacySSE` |
| Streamable HTTP transport (`streamable_http.go`) | session id, version | `Call`, `Notify`, `SetProtocolVersion` | | not modelled |
| Backend negotiation (`internal/app/manager.go`) | client, initialized, generation, era, `initMu`, `discoverMu` | `ensureInitialized`, `paramsForBackend`, `backend.close` | one client at a time; requests only to negotiated processes, in the right era; mutexes always released | `Backend` (partly) |
| Discovery and status (`manager.go`) | row and shards per server | `ApplyConfig`, `Discover`, `markError`, `markHealth` | rows agree with the configuration and describe the shards; removed servers stay removed | `Catalog` (partly) |
| Worker pools (`manager.go`) | job channel, wait group | `DiscoverAll`, `runHealthChecks` | every job once; cancellation ends everybody | `WorkerPool` |
| Call limits (`manager.go`) | two levels of channel semaphores | `acquire`, `release`, replacement by a reload | limits hold; permits come back; no circular wait | `Gateway` |
| Gateway front end (`internal/gateway`) | a message under way | `Handle`, `dispatch` | one answer per item, in order, in the right form | `Gateway` |
| HTTP API (`internal/httpapi`) | configuration and its mutex | `POST /mcp`, edits of servers, logs | headers and answer agree; no acknowledged edit is lost | `Gateway`, `McpMessages`, `ConfigFile`, `Logs` (partly) |
| Codec (`internal/mcp`) | none | envelope, id, version, name of a message | | `McpMessages` (partly) |
| Tool registry (`internal/registry/registry.go`) | store, cache, routing index | `ReplaceTools`, `DeleteServer`, `GetTool`, `ResolveTool`, `RebuildIndex` | index and cache agree with the store | `ToolRegistry` |
| Tool cache (`cache.go`) | LRU list, byte count | `Get`, `Put`, `DeletePrefix`, `SetMaxBytes` | the count is exact and bounded | `ToolCache` |
| Storage adapters (`internal/storage`) | tables, one transaction per process | migration, server rows, four replacements, paged listings | a shard is replaced whole; pages add up | `SqlStore`, `ShardStore` (partly) |
| Configuration reload (`internal/config`, watcher) | the file, its time and size, the running configuration | `Load`, `Save`, watcher, API, CLI | never torn; acknowledged edits kept; the process follows the file | `ConfigFile` |
| Logs (`internal/logbuf/ring.go`) | ring, byte count, file, rotated files | `Add`, `SetMaxBytes`, `List`, `Write`, `rotate` | bounded; listed once; rotation keeps records and order | `Logs` |
| Command line (`cmd/mcp-gate`) | none | `serve`, `init`, `server add/remove` | | `ConfigFile`, `Gateway` (partly) |
| Web UI (`web`) | none | | | not modelled |

How they interact: the front ends call `Manager.CallTool`; it resolves the name in the registry,
takes a global and a per-server permit, makes sure the backend is negotiated with, and calls the
backend's client. Discoveries and health checks go the same way from background loops. A reload
swaps the map of backends under `Manager.mu`, then closes the removed ones and writes the
registry. The transports call nobody: they report process restarts only through
`SessionGeneration`. The registry keeps three structures with three locks, one of which is a
database that other processes may share.

## Modules

| Module | What it is |
|---|---|
| `StdioClient`, `StdioClientProofs`, `MCStdioClient` | the stdio transport with its subprocesses, goroutine by goroutine |
| `RpcSession`, `StdioRefinement` | what a restartable transport promises, and how `StdioClient` keeps it |
| `LegacySSE`, `LegacySSEProofs`, `MCLegacySSE` | the HTTP+SSE transport with its shared event stream; also implements `RpcSession` |
| `Backend`, `BackendProofs`, `MCBackend` | one backend: creation, negotiation, use and removal of its client |
| `SqlStore`, `SqlStoreProofs`, `MCSqlStore` | both SQL adapters under several processes, statement by statement |
| `ShardStore` | what a store promises to the registry; `SqlStore` implements it |
| `ToolCache`, `ToolRegistry`, `ToolRegistryProofs`, `MCToolRegistry` | the LRU cache as operators; store, cache and index under concurrent writers and readers |
| `Catalog`, `CatalogProofs`, `MCCatalog` | rows and shards under reloads, discoveries and marks |
| `ConfigFile`, `ConfigFileProofs`, `MCConfigFile` | the configuration file and everybody who edits, saves and loads it |
| `McpMessages` | the decisions taken about a message without looking at state |
| `Gateway` | the way of a message through the gateway and the semaphores on it |
| `WorkerPool`, `MCGateway` | the job pools; one instance for them and `Gateway` |
| `Logs` | the log ring and the rotating file |
| `MCDisk` | one instance for `SqlStore` and `Logs` |
| `GatewayProofs` | the proofs about `Gateway`, `WorkerPool` and `Logs` |

In the component modules a definition marked "Variant" is a seeded fault, a plausible bug in the
definition that follows it. The specification does not use it; `PROJECT.json` pairs it with the
property that must notice it.

### StdioClient

A critical section under `c.mu` is one action; what the code does after the unlock is another.
Values of a section's local variables travel in `target` (the stdin a writer took), `sends` (the
channel sends a flush still owes) and `toKill` (processes a section detached and will kill).

| Action | Code |
|---|---|
| `Refuse`, `FindRunning`, `StartProcess` | `ensureStarted` and its outcomes |
| `Register` | `Call`: id, `c.closed`, entry in `c.pending` |
| `WriteBegin`, `WriteEnd` | `write` before and after `stdin.Write`, with `writeMu` held between |
| `Receive`, `Timeout`, `Unregister`, `Touch` | the `select`, `removePending`, the deferred `touch` |
| `FireTimer`, `StopIdle`, `Kill` | the timer launches `stopIdle`, which runs later; kill after unlock |
| `Close` | `Close` up to its unlock; its kills and sends are `Kill` and `Send` |
| `Deliver`, `ReadAsk`, `ReplyBegin`, `ReplyEnd`, `ReaderEnd` | `readLoop`, `deliver`, its replies to server requests, `handleStreamClosed` |
| `HandleExit`, `Send` | the Wait goroutine and the sends of its flush |
| `ServerRead`, `ServerAnswer`, `ServerAsk`, `Crash` | the subprocess (external): reads when it likes, answers in any order, twice or never |

Abstractions: a message is its kind, id and origin; pipes are sets of lines, so reordering within
a pipe is included; stderr is left out; an unreadable line is a broken stream.

### RpcSession

Six promises in 100 lines: one process at a time; a request in flight is with the current
process; the end of the process settles everything in flight in one step; an idle stop finds
nothing in flight; an idle stop and a start, but not an exit, change the generation; a closed
session stays closed. `StdioRefinement` maps a call to "in flight" while it is in the `select` and
in the pending map. `Backend` uses its client as such a session.

### Backend

A worker is one run of `CallTool`/`CallServer`, `checkHealth` or `Discover`. A section under
`b.mu`, and each use of the client, is one action; the client is a session: find or start a
process (`EnsureStarted`), hand over the request (`Submit`), wait (`Answer`, `Lost`). A deadline
(`Timeout`) is seen before a process is looked for and while an answer is awaited, and not in the
write to stdin in between: a server that does not read keeps the worker there, with its mutexes.

| Action | Code |
|---|---|
| `Find`, `LockDiscover` | `Manager.backend`, `runHealthChecks`; `discoverMu` |
| `Peek`, `IsRunning`, `Forget` | `checkHealth` before it negotiates |
| `EnterInit`, `Create`, `Check`, `Record` | `ensureInitialized`: `initMu` and snapshot, `newClient`, cache test, result |
| `CallFails` | what an error leads to: probe, then each version of `mcp.LegacyProtocols`, then give up |
| `ReadClient`, `Params` | `b.client` read again, `paramsForBackend` |
| `Panic`, `ProcessEnds` | a method of a nil client: the HTTP server recovers its handlers; anywhere else, in a health check for one, the whole process ends |
| `IdleStop`, `Crash` | `stopIdle` and `handleExit` as the session lets the backend see them |
| `Unlist`, `Detach`, `CloseClient` | a reload: the map is replaced, `backend.close` detaches, then closes |

Left out here: the permits around a call (`Gateway`), the pages of a discovery after its first
request and the registry rows (`Catalog`), the `enabled` flag. HTTP clients report generation 0
always, and the cached negotiation then never expires; the model has stdio clients only. A server
speaks one era for its whole life.

### LegacySSE

| Action | Code |
|---|---|
| `Refuse`, `OpenStream`, `JoinStream`, `TakeReady`, `ExpireWait`, `PutBack` | `ensureStream`: the section, the `select` on `c.ready`, and the section that puts the value back |
| `Register`, `ReadEndpoint` | `Call` and `Notify` after it |
| `PostArrives`, `PostFails`, `PostSucceeds` | `post`; a request may be answered before its POST returns, and may arrive although the POST fails |
| `Receive`, `Timeout`, `Unregister` | the `select` of `Call` and `removePending` |
| `Close` | `Close` up to its unlock |
| `Opened`, `Announce`, `Signal`, `ReadingCancelled` | `streamLoop`: response, endpoint event, offer to the channel, silent return when cancelled |
| `Breaks`, `OpeningCancelled`, `TellFailure` | the calls of `failStream`: its section, then its offer to the channel |
| `Deliver`, `Send` | `deliver`, from the stream or from the body of a POST; the channel sends |

Abstractions: a call stands for its unique id; an endpoint is the stream that announced it; the
server answers in any order, twice or never; replies to requests of the server, which change no
state of the client, are left out. The module maps itself to `RpcSession`: the process is the
stream, a failed stream is an exit.

### SqlStore and ShardStore

A process opens the database (`Open`, `LookForColumn`, `AlterTable`, `FillColumn`: the migration of
the search column, in statements that commit one by one), writes server rows (`UpsertServer`,
`DeleteServer` with its cascade), replaces a shard of one of four tables (`Begin`, `StartDelete`,
`EndDelete`, `Insert` per entry, `Commit` or `Rollback`), and pages through a listing (`Count`,
`Select`). A table has a set of listings, `Orders`: its rows by the key of `ORDER BY`, and rows of
one key, which different servers may have, in any order among themselves. SQLite takes the same one
each time, PostgreSQL any. Its one connection and mutex are `Free`: nothing of this process runs
between `BEGIN` and `COMMIT`, nor between the `COUNT` and the `SELECT` of a page. Other processes
run in between as the engine lets them: SQLite has one writer (`BEGIN IMMEDIATE`), PostgreSQL runs
at READ COMMITTED, where a `DELETE` works on the rows it saw at its start. `Crash` and
`LoseConnection` end a process between any two statements. The engines are external; how they behave
is stated in the header. `ShardStore` is the promise: a shard changes only from one whole list to
another, and only for a known server.

### ToolRegistry and ToolCache

`ReplaceTools` and `DeleteServer` are three actions of a writer, one per lock: `Write` (store),
`ClearCache`, `WriteIndex`. A lookup is `GetTool` or `ResolveTool` (index), `LookInCache`, `Fetch`
(store), `FillCache`. `SetCacheBytes` is a reload, `Restart` begins with `RebuildIndex`. `ToolCache`
has each method of the LRU cache, which runs under one mutex, as one operator; the byte count is
carried along as in the code and never recomputed.

### Catalog

| Action | Code |
|---|---|
| `Swap`, `ReadRow`, `WriteRow`, `DeleteGone`, `Applied`, `AbortApply` | `ApplyConfig` (and the registration at start): the map of backends under `m.mu`, then row by row read and written back, then deletions; an error ends it anywhere |
| `LookUp`, `StartDiscovery`, `ListCapabilities`, `GiveUp`, `WriteShard`, `ReadForCounts`, `WriteCounts`, `CutShort` | `Discover`: the backend, its `discoverMu`, its listings, four replacements, the row |
| `StartMark`, `WriteMark` | `markError`, `markHealth` |
| `Restart` | the process stops anywhere and starts with another file |

Discoveries of one backend object exclude each other (`discoverMu`); the old and the new backend
of a server do not, and a discovery may wait for the old one's lock across a reload. A reload
replaces the object of a server (`Objects`) when its definition changes or the limit of calls per
server does. Store operations are atomic, as `SqlStore` and the memory adapter justify; the
two kinds differ in what a replacement does for a server without a row.

### ConfigFile

Every party is stepped on its own: API requests (`PostServer`, `PutServer`, `RemoveServer` under
`configMu`, then `WriteTmp`, `Rename`, `SyncDir`, `FailSave`, `Answer`), commands (`ServerAdd`,
`ServerRemove`, `InitConfig` and the same `Save`), an editor that does not write atomically
(`StartEditor`, `EndEditor`), the watcher (`Check`, `Load`, `Reload`) and the process (`Serve`,
`Exit`, `Down`, `PowerFailure`). `disk` holds what a power failure may leave: the file system
(external) keeps a synced file and, until the directory is synced, either of the two names. Every
change of the file is taken to change its time or size.

### Gateway, McpMessages and WorkerPool

A client's message goes through `Receive` or `Refuse` (header checks), `Dispatch` with one action per
method, `FindBackend` and `FindSemaphore` (both semaphores are read before any permit is taken, from
different critical sections), `Acquire` for each of them, `AbortWait` or `Finish`, and for the next
item of a batch again; `Respond` sends the answers. A semaphore is a scope and a generation: `Reload`
starts the next generation while calls hold or wait for permits of the last. `McpMessages` has the
pure decisions: what is a request, a notification, a modern request, which headers are accepted,
which version is negotiated and which one the answer's header names.

`WorkerPool` is what `DiscoverAll` and `runHealthChecks` have in common: `List`, `StartWorkers`, `Send`
over an unbuffered channel, `EndSending`, `Return`; workers `RunJob` and `EndWorker`; `Cancel` and
`Reconfigure` at any time.

### Logs

A record enters the ring (`Log`: truncation, appending, dropping from the front) and then, under
another mutex, the file: `StartRotation`, `Shift` once per rename, `Reopen`, `Write`, or `Drop` when the
writer is of no use. The ring's byte count is carried along as in the code, raised by an addition
and lowered by an eviction, which goes by it. Renames, opens and writes may fail; `CloseLog` and
`RestartLog` may come between any two of them. `ListEntries` is a client that continues where it
left off; it is another process, so its place (`cursor`) survives a restart, which begins to number
from 1 again; `missed` remembers the place it had then. `SetMaxBytes` is a reload.

## Runs

All bounds are CONSTANTS. Deadlock is checked except in the stdio, SSE, backend and catalog runs,
where invocations are one-shot and the system rests once they have all returned.

| Run | Instance | Shows |
|---|---|---|
| `stdio_safety` | 2 calls, 3 generations, 1-line pipe, 1 fault | one outcome per call, the right one; no lost process; served waiters |
| `stdio_live` | 1 call, 1 notification, 3 generations, 1 fault or 1 server request, `FairSpec` | implements `RpcSession`; only a live server that does not answer keeps a caller; every process ends after `Close`, or when it is idle |
| `sse_stream` | 1 call, 1 notification, 3 streams, 2 failures, `FairSpec` | implements `RpcSession`; one stream; who may be left waiting; streams end after `Close` |
| `backend` | 1 call or discovery, 1 health check, lazy, 2 attempts, 2 clients, 2 generations, 1 crash, reload, `FairSpec` | honest cache, right era, no request to the first process before its handshake, one client, every worker returns that no server keeps |
| `backend_crash` (violation) | 2 calls, 1 crash | a crash does not expire the cached negotiation |
| `backend_removed` (violation) | 1 call, 1 reload | a client created after the reload has closed the backend stays open |
| `disk` | store: SQLite with 2 processes or PostgreSQL with 1; 1 server, 3 keys, pages of 1. Log: 2 goroutines, 4 records of 1 or 2 bytes, ring of 3 or 4, file of 2, 2 rotated files | store: implements `ShardStore`; listings complete; cursors advance; no half-done migration is used. Log: ring accounted and listed once, also by a client that a restart surprises; file order; rotation loses only the oldest |
| `sql_shared` (violation) | PostgreSQL with 2 processes | two replacements at a time store the union |
| `tool_registry` | 2 servers, 2 definitions, 2 writers, 2 readers, limits 1 and 2 | byte count exact and bounded; index and cache follow the store |
| `catalog` | 1 server with 2 configurations, 2 appliers and 3 applications, 2 discoveries, 1 mark, 3 shards of which 1 may fail, both stores | rows follow the configuration; counts describe shards; no ghost shards |
| `config_file` | 2 servers, 2 requests, 1 command, 1 editor, 2 edits | never torn; acknowledged edits kept; the process follows the file |
| `gateway` | 1 HTTP and 1 stdio client, 1 server, limits 1 and 2, 2 generations; pool of 2 workers and up to 3 jobs | permits conserved; answers match items; version header true; messages answered; every job once; pools return whose jobs do |

Why the bounds are enough. *Transports*: two calls show every race between an invocation and another
one's start, stop or write; three generations let a process, its successor and the generation an
idle stop skips coexist; a pipe of one line makes a write block as soon as another line is there; in
`stdio_live` a first process may exit or break its stream, with calls in flight or none, and a
successor be started and stopped when it is idle; as states multiply fast there, the constraint
`MCBudget` of `MCStdioClient` keeps a request of the server out of behaviors with a fault or a third
generation (its reply still crosses idle stops and `Close`); three streams with two failures let a
slow holder put back the token of a replaced stream. The proofs cover what the small numbers leave
open. *Backend*: two attempts at `initialize` include a failed one followed by a good one; two
clients let a worker create one after a reload closed the first. *SqlStore*: three keys make two
pages of one and a third entry that a second list adds or drops; a list with a duplicate key fails
in the middle of its transaction; two processes are what it takes for one to act between the
statements of another. *ToolRegistry*: two servers with equal tool names share the cache; a
definition that is larger than the smaller limit is evicted at once; two writers may cross on one
server. Names that two servers expose alike (`a__b` + `c`, `a` + `b__c`) do not occur in the
instance, and the property excepts them. *Catalog*: a server that comes, changes and goes needs one
name, two hashes and three applications; three shards stand for the four kinds, with one that must
not fail first and one whose failure is tolerated. *ConfigFile*: two edits are the least in which
one is overtaken by another. *Gateway*: one permit shared by two clients, batches of up to four
items, every combination of form, version and headers; two generations are one reload during a call;
`MCGateway` holds `Gateway` and `WorkerPool` in one instance, whose behaviors run one of them and
never both, since they share nothing but the configuration. `MCDisk` does the same for `SqlStore`
and `Logs`. *Logs*: with a file of two bytes every second record rotates, and four records go
through both rotated files.

Symmetry is declared between interchangeable callers, processes and goroutines, and only where all
properties are invariants or properties of single steps.

### Findings

Three runs end in a violation, each of one property that a document or a comment states:

1. A crash leaves the generation as it is, so the next call goes by the cached negotiation, and the
   process it starts gets `tools/call` without a handshake (`RequestsNegotiated`, run
   `backend_crash`).
2. A worker that looked a backend up before a reload removed it creates a client when `close()` has
   run already. Nobody closes the client or its process, although `docs/architecture.md:90` says
   "Removed backend clients and processes are closed." (`RemovedClientsClosed`, run
   `backend_removed`). `OneClient` is what remains true: no other client is ever lost.
3. Two gateways on one PostgreSQL database replace a shard at the same time, and the shard becomes
   the union of both lists (`ShardsReplacedWhole`, run `sql_shared`).

`FirstUseNegotiated` and `CacheIsNegotiated` are what remains true of the handshake: until a reload
has closed the backend, the first process gets no request before it, and the cache, apart from the
exception below, speaks of processes that were negotiated with.

### Observed

The models show more. Some of it a document of the repository rules out, in words more general
than the code keeps; where one does, it is quoted here. The properties are worded around all of it,
with the exceptions named in their comments.

*Stdio.* `write` ignores contexts while it holds `writeMu` (`stdio.go:228`), so a server that does not
read its stdin keeps writers past their deadlines. The idle stop between `ensureStarted` and the
registration fails a call with "not running" instead of starting the process for it
(`stdio.go:369`). A call that fails to write returns without `touch`, so the idle stop may stay
disarmed. A read loop replies through whatever `c.stdin` is by then, perhaps the successor's.

*SSE.* When a stream fails, one of the callers that wait for it is told, the others wait for their
deadlines; when `Close` cancels it, none is told. A caller that is slow to put the token back points
`c.ready` to the channel of the failed stream, and callers of a healthy second stream get the old
error or wait.

*Streamable HTTP.* The transport has no generation: if the server drops the session, calls fail
until the backend is replaced.

*Backend.* The generation is read after the `initialized` notification, which may have started a new
process that then counts as negotiated (`manager.go:518`). `b.client` is read again after the
negotiation and may be nil (`manager.go:394`, `:850`); in a handler of the HTTP server the panic is
recovered, in a health check it ends the gateway. A worker behind a server that does not read its
stdin holds `initMu` past its deadline, and every other worker of that server waits for it without
a deadline (`manager.go:403`), with it the round of health checks or discoveries it belongs to. A health
check restarts the idle timer, so with a health interval below the idle timeout a lazy server
never stops (`manager.go:831`).

*SQL.* A PostgreSQL connection that is lost is never opened again. When a table changes between two
pages, entries are skipped or repeated. The same happens on PostgreSQL to entries that two servers
have under one key, even when nothing changes: listings of resources and prompts are ordered by URI
or name alone (`postgres.go:365`), and each page is a query of its own. `src/README.md:270` promises
"Deterministically ordered gateway catalogs".

*Registry.* A lookup that crosses a replacement puts the old definition into the cache, where it
stays until the server is replaced again (`registry.go:120`). Exposed names are joined with `__` and
may collide (`registry.go:159`), although `src/README.md:33` says "Tools are exposed with
collision-safe names": after one of the two servers is deleted, the name is not routed to
the other until its next discovery.

*Catalog.* Rows are read and written back whole: of two writers one loses its update, and a row
that was deleted in between comes back. A registry error in `ApplyConfig` leaves the remaining rows
alone for good; servers that left the file while the process was down keep their rows. A discovery
that is cut short leaves shards of mixed age: each of the four kinds is replaced in a transaction of
its own, where `docs/architecture.md:52` says "Atomically replaces the server's persisted capability
shard."

*Configuration.* The watcher may apply a file it read before an API edit was acknowledged, and
revert it; an API request saves the configuration in memory and reverts an edit of the file that
waits for a restart. A file that is gone between `Stat` and `Load` is taken for the default
configuration, which drops all servers (`watcher.go:57`). The API applies
a definition as it is, the watcher resolves its relative working directory first, so the next pass
replaces a backend that did not change (`server.go:395`, `main.go:130`), although `src/README.md:199`
says that the running process "applies only changed server definitions"; a changed limit of calls
per server replaces all of them (`manager.go:105`). Under `--config dir/file`
such a directory is put under `dir` once more each time the API saves what a reload has resolved. A
change of the DSN alone is neither logged nor kept back.

*Gateway.* The items of a batch are not held against the headers, so an item in the 2026 form is
answered in that form under an older header; `server/discover` always answers in the 2026 form. A
call with `"id": null` is executed without an answer. Calls to one slow server can take every
global permit; the stdio front end has no deadline. While old calls run after a reload, old and new
permits add up.

*Logs.* A failed reopening leaves a closed handle and the old size: records are lost, and the next
rotation shifts the archives again. A restart numbers the entries from 1 again, and a client that
goes on with its old sequence number never gets the new entries up to it (`ring.go:88`). The Web UI
asks for 500 entries without a start and so shows the oldest, under the heading "Recent"
(`app.js:280`, `:452`).

### Fairness

Only what the Go runtime and the callers guarantee. Goroutines run, mutexes are handed on (Go's
mutexes are starvation-free), timers go off, killed processes are reaped, cancelled requests return:
weak fairness. Nothing makes a server answer, or a reload, `Close`, `Cancel`, an edit, a failure or a
crash happen.

- *Transports.* Deadlines are kept out of `FairSpec`, because `serve --stdio` sets none:
  `OnlyServersKeepCallers` holds without them, and together with a deadline it means that every call
  returns. `ServerFairness` lets a subprocess go on reading its stdin, and an HTTP server accept a
  stream, announce its endpoint and let POSTs return.
- *Backend.* The worker's own steps, and the deadlines that `Discover` and `checkHealth` set, where
  the code looks at them (`HasDeadline`, `Timeout`). No deadline is assumed of a tool call, no end
  of a write to stdin, and nothing of the server: `EveryWorkerReturns` excepts a worker that a
  running server keeps (`ServerKeeps`) and so says that nothing else blocks.
- *Gateway.* Handlers and the end of a call are weakly fair: a call has a deadline or a server that
  answers, and the property is about the wait for permits. `Acquire` is strongly fair, because a
  channel serves its waiting senders in order. `AbortWait` is not fair, so `MessagesAnswered` does not
  rest on deadlines.
- *WorkerPool.* Producer and workers, but not the end of a job: a write to stdin and the mutexes behind
  it heed no deadline. `PoolReturns` excepts a pool of which one job never ends.
- *ConfigFile.* The watcher's ticker and goroutine and the steps of requests and commands. Edits are
  bounded, so "nobody edits any more" comes about.

`SqlStore`, `ToolRegistry`, `Catalog` and `Logs` have safety properties only and need none.

## Proofs

`tlapm` proves the eight proof modules from the modules' named assumptions alone, for every value of
the constants. Every safety invariant and action property that a passing run checks, and both
refinements of a transport and that of the store, are theorems.

What is assumed: sets of actors do not overlap and do not contain the null value; bounds, sizes and
limits are natural numbers (a record, a page and a log limit at least 1); modes are Booleans. Beyond
that `Gateway` assumes finitely many clients, because a cardinality is counted, and messages of the
shape the codec makes (`TrafficAssumption`: one item unless it is a batch); `ToolRegistry` that
servers offer sets of tools with a size; `ConfigFile` that defaults are filled in once
(`CompletedAssumption`). Two theorems have a hypothesis of their own: `ImplementsStore` has
`OneProcess`, which `sql_shared` shows it cannot do without, and `EditsKept` has `ResolvedOnce`, that a
resolved path stays as it is. That is true of an absolute configuration path or a plain file name,
and of the instance; it is false of `--config dir/file` (see *Observed*). TLC evaluates the
assumptions on every run.

Induction. The library's induction rules cannot be used, so two things are done by hand in the
modules that need them: `Least` (a set of numbers has a least element, from the well-foundedness of
`<`) gives `Inductive` for sets of numbers, and with it `Recursion` shows that a recursive function on
`0..n` satisfies its equations. Totals and filters over sequences rest on it.

**StdioClient.** None of the safety properties is inductive. `IInv` strengthens them in five parts,
each proved preserved by its own lemma with one step per action:
`ProcInv` (a process exists exactly up to the current generation, and an exited one is dead),
`IdInv` (ids are unique and nonzero from registration on; only live calls are in the map),
`OutcomeInv` (an outcome is in the map, on its way, or in the channel, never in two places),
`ServedInv` (a pending call that took a stdin took the current one; this is where the idle stop's
test for an empty map matters) and `LineInv` (requests and answers in the pipes carry the id of
their call, so that unique ids make answers match). The refinement maps every step to a step of
`RpcSession` or a stutter, with `ServedInv` for the step that submits a request and `PendingIsLive`
for the steps that settle one. `CloseIsFinal` follows action by action.

**Backend.** `TypeInv` adds to the types which stages have a client at hand. `LockCorrect`: a worker
that negotiates after its step holds `initMu`, any other lets go of it; one lemma for a failed call
serves all calls. `ClientsOwned` rests on it: two workers cannot be about to create a client, so
`Create` finds `client = 0`, and each of the steps that change `client` or `open` moves ownership
between the backend and a `close()` under way; what is created later stays the backend's.
`EraCorrect` needs no assumption; the property itself ends where a reload has closed the backend:
the first `Record` fixes `modern` for good, and every later stage is justified by it, `checkHealth`
clearing `initialized` at any time notwithstanding. `ProcessEnds` stops every worker and lets go of
both mutexes, and disturbs nothing else.

`CacheIsNegotiated` and `FirstUseNegotiated` are parts of a larger `HandshakeInv`. While the backend is
not closed it has had one client (`OnlyClient`). The recorded generation never runs ahead of the
client's, and a process that a probe or an `initialize` started and that is recorded, or about to be
recorded, was negotiated with (`CacheInv`): an announcement and a record come only after an accepted
answer, and an idle stop or a crash in between leaves no process to speak of. The first process is
gone or was negotiated with before anybody relies on it (`FirstInv`). One lemma per outcome of a call
(it fails, finds a process, starts one, hands over the request, is accepted, ends) keeps the case
analysis small.

**LegacySSE.** `IInv` has four parts. `StreamInv`: a live stream is the current one and known as
running, an endpoint exists only while it runs; this also shows that the generation test in
`failStream` never fails. `OutcomeInv`: as for stdio, with one lemma for everybody who settles
calls. `ServedInv`: a call in the map with an endpoint has that of the stream that runs, because
`failStream` empties the map in the section that clears the endpoint. `BatonInv`: channel and
goroutine numbers never exceed the generation, so that in the first generation there is one channel
only, and every step hands its token on. The refinement follows `StdioRefinement`'s pattern, with
`ServedInv` for `Submit`.

**SqlStore.** `MigrationDone` holds for any number of processes: `MigrationInv` says how far the column
must be for a process to be where it is, and that it never goes back. `ImplementsStore` assumes
`OneProcess`, one process on each database that is not an SQLite file; `sql_shared` shows that it
cannot do without. `ShardInv` is inductive: stores and transactions go together (`ConnInv`), one
process writes at a time (`OneTx`), and the transaction has deleted the old shard and inserted what
its list has had so far, without duplicates (`TxInv`). With it every `Commit` is a `Replace` of
`ShardStore` and every other statement a stutter.

`PagesAddUp` rests on `PageInv`: as long as the table does not change, a client has the front of the one
listing there is, and the total of its last COUNT is the size of the table. Where no key is there
twice there is one listing only (`OneListing`: the first place where two sorted listings differ would
need a key between two that are next to each other); SQLite keeps to one in any case. `CountInv` adds
that the connection is still open and the mutex still held between COUNT and SELECT, so that nothing
of this process has changed the table; `CursorsLeadOn` follows.

**ToolRegistry.** `RegistryInv`: a call that no other has crossed is the only one on its server, and what
it is going to index is what is stored (`AloneInv`); with it `WriteIndex` makes the routes those of the
store, for any way to join names, since the property speaks of unambiguous ones. `CacheInv`: the
byte count is the sum of the sizes, no key is there twice and the count is within the limit
(`Sound`), through each operator of `ToolCache`; the evictions take the longest front that fits.
`FreshInv` extends `CacheFollowsStore` from what is cached to what a lookup holds in its hand on the way
to the cache: it is stored, its server has yet to be cleared, or it was cleared with the lookup
under way.

**Catalog.** `TypeInv` says what each stage of a reload, a discovery and a mark has in its hands.
`NoGhostShards` is inductive with it: with SQL a replacement needs the row, and a deletion takes the
shards along. `RowInv` adds to `RowsFollowConfig` what an `ApplyConfig` under way will do: it deletes only
what its configuration does not have, and the last one to swap the backends applies the running
configuration. `CountInv` adds to `RowDescribesShards` that a discovery that nobody crossed finds the
shards it has written as it wrote them; deletions need `NoGhostShards`.

**ConfigFile.** `NeverTorn` needs that a file about to be renamed into place was synced, or that the
exception the property names has occurred (`SyncInv`). `AcknowledgedKept` needs `AckInv`: one request at
a time (`configMu`), what it is about to save keeps what other requests were promised, and after the
rename the file, and after the sync of the directory the disk, is what it saved, unless somebody
changed the file since. Definitions are compared by what runs (`Runs`): defaults filled in and paths
resolved.

**WorkerPool.** `EveryServerOnce` speaks of the end of a round only. `PoolInv` says where a job is in the
middle of it: with the producer, with one worker, or done (`JobInv`); and that the producer leaves
jobs only when it was cancelled (`RoundInv`).

**Gateway.** `PermitsConserved` is not inductive: a permit could be taken twice by one call, given back
to a channel it was not taken from, or be taken from a generation no reload has made. `PermitInv`
adds what a client holds in each stage (`ClientInv`: nothing, the permit of the gateway, or both, in
that order, of the semaphores it is after) and that a generation to come has no permits
(`LimitInv`). Steps that take nothing share one lemma; `AcquireStep` and `ReleaseStep` move a client
into and out of the set whose cardinality is counted; `ReloadStep` changes a limit only where
nothing can have been taken. `AnswerInv` serves the two properties of answers: what is handled is a
message of the client under headers that were accepted, and the answers so far belong, through an
increasing function, to just those items so far that are not notifications (`AnsweredTo`).

**Logs.** `FileInv` numbers the records and adds that, while nothing fails, a rotation has made room
before each of its renames (`RoomMade`). All renames and reopenings are instances of one lemma,
`MovedUp`: files that move without overtaking each other, the rest empty, keep the order. `RingInv`: the
entries are numbered without a gap up to the next number, the client is never ahead, and the
entries up to its place are those it was sent, but for the ones that were behind it when the process
started; pages and droppings from the front keep this. `ByteInv`: the count that additions raise and
evictions lower is the sum of the sizes. An eviction stops where the count says that enough has left;
that the count is then within the limit needs that it was right before.

Only model-checked: liveness, since fairness and ENABLED are beyond the prover. These are
`OnlyServersKeepCallers` and `ProcessesReclaimed` (stdio), `OnlyServersKeepCallers` and
`CloseEndsStream` (SSE), `EveryWorkerReturns`, `MessagesAnswered`, `PoolReturns` and `ReloadConverges`.

## Not modelled

- The Streamable HTTP transport: a call is one POST with its answer on the same connection; its state
  is a version set under `initMu` and a session id copied from answers. What can go wrong in it
  across steps is the negotiation, which `Backend` models.
- The Web UI, and GET requests that read a listing or a status: they keep no state.
- Flags, printing, the `discover` command (an HTTP client), origin checks and security headers.
- Search, the text it matches and the columns of a table other than its key; hashes, secrets and
  redaction; rendering of messages.
- The memory adapter has no module of its own: its operations are single sections under one mutex and
  appear as the store of `ToolRegistry` and as the kind "memory" of `Catalog`.

## Plan

What remains, in this order:

1. `Gateway`: the order of the permits, as an invariant, as the reason why no circular wait exists.
2. `StdioClient` and `LegacySSE`: invariants behind the liveness properties, for instance that the idle
   timer is armed whenever a process rests without a caller, but for the exceptions named.
3. A second instance of `ToolRegistry` with two tools under one exposed name.
4. `SqlStore`: which unions two replacements at a time can leave in a shared PostgreSQL database.
5. The session id of the Streamable HTTP transport, if it gets a negotiation of its own.
