# Cloud Cup in TLA+

Cloud Cup is an HTTP load balancer written in Zig 0.13.  A master process forks
one worker per processor and one CLI process; the workers accept connections and
forward requests to backends; the CLI process takes commands on a UNIX socket,
among them `apply-config`, which replaces the configuration of the running
workers.  Everything that is hard in this program happens between processes and
threads that share memory without a lock or that outlive each other.  This
directory models those parts, model-checks them with TLC and proves what can be
proved for every size with TLAPS.

Paths below are relative to `src/` of the repository; note that the program's
entry files are in `src/src/` and its libraries in `src/modules/`.

## 1. Inventory

| component | state it keeps | operations | interacts with |
|---|---|---|---|
| **Master** (`src/main.zig`, `src/server.zig`) | array of worker pids, CLI pid, one monitoring job per process in a thread pool | start up, fork workers and CLI, wait for each, fork a replacement, terminate | forks everything; its children inherit copies of its memory |
| **Worker event loop** (`src/worker.zig`, `modules/core/server_ops.zig`, `epoll_handler.zig`, `connection.zig`) | listening socket, epoll instance, pool of connection records, wait group, thread pool | wait, accept, create record, register, dispatch, close | handlers get the address of a record and of the configuration copy |
| **Request handler** (`src/worker.zig` `handleRequest`) | buffers on its stack | read, choose strategy, run it, answer, close connection, destroy record | record pool, configuration, strategy |
| **Round-robin strategy** (`modules/load_balancer/round_robin.zig`, `server_ops.zig`) | one word of shared memory per route and version; count of backends tried | `handle`: pick, connect, send, forward, retry, 502 | same word used by all threads of all workers; backends |
| **Configuration manager** (`modules/config/config_managment.zig`) | head pointer to the current node | `pushNewConfig`, `getCurrentConfig` | watcher pushes, event loop copies |
| **Shared configuration** (`modules/common/SharedMemory.zig`, `modules/config/config.zig`) | 4096-byte region shared by all processes, a mutex that fork copies | `writeData`, `readData`, `share` | CLI writes, watchers read |
| **Watcher** (`src/worker.zig` `configChangeWatcher`) | version it has, configuration it loaded last | poll, parse, build, push | shared configuration, manager |
| **Route memories** (`modules/common/RouteMemory.zig`) | POSIX shared memory objects, named by route and version | create, open, unlink | created by the CLI process, opened and unlinked by workers |
| **Configuration builder** (`modules/config/config_builder.zig`, `route.zig`) | table of routes, arrays of backends, TLS context | validate JSON, create memories, set up strategies, undo | names route memories route by route |
| **Request routing** (`src/worker.zig` `extractPath`, `handleRequest`) | none | cut the path, look up a route | keys the builder let through |
| **Thread pool** (`std.Thread.Pool` as `src/worker.zig` uses it) | stack of jobs, one thread per processor | put a job in, take one, join | first job is the watcher, the others are requests |
| **CLI** (`src/cup_cli/`) | command socket | `apply-config`, `show-config`, `show-status`, `check-all` | shared configuration, builder |
| **TLS** (`modules/core/SSL.zig`, `ssl_ops.zig`) | context, reference count | handshake, read, write, shut down | BoringSSL; the handshake blocks the event loop |

How they interact.  At startup `main` builds version 1, pushes it into a manager
and writes its text into the shared region, then forks.  From then on each
worker has its own manager.  `apply-config` reads the version in the region,
builds version + 1 (creating its route memories), wipes the region and copies the
new text into it.  Every watcher copies the region every tenth of a millisecond, and when
the version differs parses it, opens the route memories by name and pushes the
result; the push frees what it replaces, and that frees (and unlinks) the old
names.  The event loop copies the current configuration after each epoll wait
and gives handlers a pointer to that copy.  A handler finds its strategy in it
and runs it on a word of shared memory; then it closes the connection and gives
its record back.

What is hard.

* *Shared word of a route.*  Plain loads and stores from all threads of all
  processes, read twice in one turn of the loop.
* *Shared region.*  Rewritten in place while others read it; the writer may die
  half way.
* *Retirement.*  Configurations are freed at once while event loop and handlers
  hold pointers into them; names are unlinked while other workers may still
  have to open them.
* *Record pool.*  The event loop creates and the pool threads destroy on one
  free list without a lock; descriptors are reused before records are.
* *Edge-triggered events* without one-shot: an edge lost is a request lost, an
  edge too many is a second handler of the same record.
* *Failures nobody counts.*  A backend that refuses is counted, one whose exchange
  fails is not, whether the backend or the client is to blame.
* *One pool for everything.*  The watcher keeps a thread for ever, the latest job
  is taken first, and the join after an error waits for the watcher.
* *Errors half way.*  A configuration is validated route by route while arrays,
  names and a context pile up that an error has to give back, once each.
* *Two ends of one agreement.*  The builder validates keys, the worker cuts
  paths; a request must find a route whatever both are.
* *Supervision.*  One job per process in a pool that has one thread too few;
  failed forks; children that run the parent's cleanup code.
* *No timeouts anywhere*: progress depends on peers.

What makes each component correct: a route's index is in range and a request is
refused only when no backend is left (round robin); a worker never installs old
text under a new number, never misses a publication and never loses names it
needs (hot reload); the head is live, exactly one configuration survives, and
handlers use one as new as their request (manager); a slot has one worker and
what ends is replaced (master); what is accepted is complete and serves every
request, what is refused leaves nothing allocated (builder and routing); records and descriptors belong to one
connection, no event or descriptor is lost, every request is handled (event
loop).

## 2. Plan

Order, most important behaviour first.  All of 1 to 8 is in place.

1. `Rotation` (abstract promise) and `RoundRobin`, with `RoundRobinProofs`.
2. `HotReload` with `check-all`, with `HotReloadProofs`.
3. `ConfigRegister` (abstract) and `ConfigManager` with the return of the watcher,
   with `ConfigManagerProofs`.
4. `Supervisor`, with `SupervisorProofs`.
5. `Service` (abstract) and `EventLoop` with TLS handshakes and the pool's job
   queue, with `EventLoopProofs` and `ServiceProofs`.
6. `Routing`: `extractPath` and the choice of a route as operators.
7. `Builder`: validation, what it allocates, and what an error undoes.
8. `CloudCup`: `Builder` and `Supervisor` composed as `main` does, with
   `CloudCupProofs` about routing, the builder and the supervision of the whole.
9. *To add.*  A publication board that `HotReload` implements as long as no poll is
   disturbed, checked by TLC and then proved step by step.  Every invariant and
   action property the runs check is proved, and each refinement up to its fairness.

Each module names states and operations as the source does, has one action per
step that another thread can observe, and declares its assumptions about the
constants by name.  No module uses `RECURSIVE`, so that all can be proved about.

A definition commented `Faulty X:` stands right before the `X` it varies.  It is
what `X` would be with a plausible bug, is used nowhere, and serves to confirm
that a property notices the bug when it takes the place of `X`.

## 3. Modules

### Rotation, RoundRobin

`RoundRobin` is `RoundRobin.handle` (`round_robin.zig:52-110`) with
`connectToBackend` and `forwardResponseToClient` (`server_ops.zig`), run by a set
of `Handlers`: all threads of all workers that handle a request of one route
under one version, since the word `server_address` is shared by all of them.

| code | model |
|---|---|
| `server_address.*` | `server_address` |
| locals `current_server_index`, `servers_down`, the backend socket | `current`, `servers_down`, `open` |
| `while (servers_count > servers_down)` | `LoopTest` |
| comparison with the length, then a second load | `CheckRange`, `LoadIndex` |
| `attempts >= max_failure` | `Choose` |
| connect, send and their failures | `Connect`/`Refused`, `SendRequest`/`SendFails` |
| `recv` a piece, write it to the client, end of file; any of them fails | `Receive`, `WriteResponse`, `ForwardResponse`, `ResponseFails` |
| `writeHttp`, `writeSSLResponse` | `writeHttp`, `writeSSL`: what a write does, by the state of the client's connection |
| the store at the end of a turn, and at the end of the request | `Retry`, `Return` |
| 502 | `BadGateway` |
| backends going down and up; clients that are slow, read on, reset | `Outage`, `Recovery`; `ClientStalls`, `ClientReads`, `ClientReset` |

Two details a reader might not expect.  `attempts += 1` counts in a by-value
copy of the table entry, so the table is constant (`attempts`) and `max_failure`
takes a backend out only if it is 0.  And `failed` and `disturbed` are history:
which backends the request stored past, and whether another handler stored the
word meanwhile.

A write to the client goes wrong in two ways that do not depend on the backend,
and in both the code tries the next backend without counting this one.  Without
TLS, `send` on the non-blocking socket (`epoll_handler.zig:40`) fails with
`WouldBlock` while the send buffer is full; after a reset it fails once, and then
with `BrokenPipe`, which `writeHttp` takes for a success, so that the next
response ends the request.  With TLS a full buffer is tried again at once,
inside the write, and after a reset every write fails.  An empty response, or the
end of one, is no write and always ends the request.  The pieces of a response
are one write here: a failure of any of them abandons the response alike.

`Rotation` is the promise to requests that run one at a time: a cursor goes round
the backends, a request is answered by the one under the cursor, is given up
only when all were passed over, and does not pass over backends for ever.
`RoundRobin!ImplementsRotation` maps the word to the cursor; the last promise is
kept unless a client is stuck for good.

### HotReload

`applyNewConfig` (`apply_new_config.zig`), `Config.share`/`deinit`
(`config.zig`), `SharedMemory.zig` and `configChangeWatcher` (`worker.zig:96-145`).

| code | model |
|---|---|
| the region | `mem`: cell 0 is the version number with its separator, the others are pieces of text; a cell holds the version it was written for or `Zero` |
| `memset`, then `copyForwards` | `Wipe`, `Copy`, one cell per step, ascending |
| version read back, built, refused, too long to share | `Apply`, `Build`, `Reject`, `Share`, `ShareTooLong` |
| names of route memories of a version | `names` |
| `readData` | `StartRead`, `ReadCell` |
| same version; load and push; any error | `NothingNew`, `Install`, `Fail` |
| what is in the file; a text every watcher cuts, since it contains the separator | `ChooseText`, `barred` |
| `check-all` | `CheckAll` |
| death of the CLI process or of a worker, and its replacement | `CliCrash`, `WorkerCrash`, `Respawn` |

The version number with its separator is one cell, since block copies move more
than those few bytes at a time; a reader that tore it apart could also meet a
number that was never published (9 and 10 read as 90).

`body` is the set of versions of the pieces a worker's configuration was put
together from.  A text with zeros never parses; one made of two versions may or
may not (`MayParse`, `MayNotParse`).  `Fail` unlinks what the code's
`defer config.deinit()` unlinks: the names of the installed configuration, and
those of the one tried if a strategy failed; a worker that loaded none frees
undefined memory and dies.  Stores and loads take effect in program order, as
they do on x86, and block copies ascend; on a machine with a weaker order
`NeverStaleBody` would not follow.

A text that contains the separator `|` itself is accepted from the file and cut
by every watcher.  `Barrable` are the versions whose text may be one; a worker
that reads it never installs it, and one that had loaded nothing yet dies of it
and is respawned for ever.  `ConvergesOrStops` excepts these texts.

`parseConfigJSON` returns a slice of its own stack frame.  Whether it survives
until it is parsed depends on the build; `FrameReused` says that it does not, and
then any text may fail to parse.  The runs take the build in which it survives,
the one for which hot reload works at all; `QuietPollIsLoadable` holds in that
build only, the other theorems in both.

### ConfigRegister, ConfigManager

`pushNewConfig` and `getCurrentConfig` (`config_managment.zig`) with their use in
`mainEventLoop` and `handleRequest`.  Nodes are numbered in the order of pushes;
`node` and `content` say what memory is live: the node itself, and what the
configuration in it points to.

| code | model |
|---|---|
| the push: new node, exchange loop, `deinit`, `destroy` | `PushBegin`, `Exchange` (one turn of the loop), `SpuriousFailure`, `Deinit`, `Destroy` |
| `epoll.wait`, load of the head, copy of the node, dispatch | `Wake`, `Load`, `Copy`, `Dispatch`, `EndBatch` |
| `config.conf.strategy_hash.get` in a handler and the end of it | `TakeStrategy`, `Finish` |
| the watcher's return, with `defer config.deinit()` | `WatcherReturns` |

The loop around `cmpxchgWeak` tests its result the wrong way round: success goes
round once more, and the failure of the second turn ends it.  The model has
exactly that, and a budget of spurious failures, which x86 does not have but the
operation allows.

`ConfigRegister` is the promise: a register with one writer.  What is offered last
gets into it at some later moment or never; requests are reported in batches, and
each is served by something no older than the register was then and no newer than it
is.  `ConfigManager!ImplementsRegister` maps the head to it; nodes, memory, and the
copies of the event loop are not seen.

### Supervisor

`Server.run` and the monitoring jobs (`server.zig`).  Processes are numbered by
fork; `status` is of the process (running, hung, zombie, gone), `workers` the
array, `job` and `pid` the state of each monitoring job.

| code | model |
|---|---|
| `spawnInitialWorkers`, `spawnCli` | `SpawnInitialWorker`, `SpawnCli`, `GiveUp` |
| the pool and `waitAndWork` | `StartJob`, `Executors` |
| `monitorWorker` | `Reap`, `Panic` (ECHILD), `Respawn`, `RespawnFails` |
| `monitorCli` | `ReapCli`, `RespawnCli`, `RespawnCliFails` |
| how a worker ends | `WorkerEnds`, `StartFails` (its copy of the master's defers kills its older siblings), `EventLoopHangs` (the join of the watcher never returns) |

The array is allocated uninitialised.  In the checked builds (Debug, ReleaseSafe)
an entry not yet written holds a fill pattern that names no process; the model
is of those and writes it 0.

### Service, EventLoop

The event loop, `acceptHttp` and `acceptSSL`, `ConnectionData` pool, epoll
registration, the thread pool's queue, `handleRequest` and `closeConnection`.

| code | model |
|---|---|
| `epoll.wait`, dispatch, accept until `WouldBlock` | `Wait`, `Dispatch`, `Accepting`, `Accept`, `Drained`, `NoDescriptorLeft`, `AcceptAborted` |
| `SSL_accept`; 400 without TLS and the close; the failure of that answer | `Handshake`, `HandshakeFails`, `AnswerFails` |
| `pool.create`: the arena, or load of the head and its link, then the store | `Allocate`, `LoadHead`, `Pop` |
| `epoll.new`; an operation on a descriptor that is closed already | `Register`, `SetupPanics` (EBADF is unreachable in `std.posix`) |
| `run_queue` of the thread pool; its threads | `jobs`, `TakeJob`, `WatcherStops` |
| `thread_pool.deinit` after an error of the loop | `Join` |
| read, answer, the returns in between | `Read`, `ReadFails`, `Respond`, `PathTooLong` |
| `closeConnection`: remove, close, destroy | `Remove`/`RemoveFails`, `Close`, `Undefine`, `Push` |

`std.Thread.Pool` puts a job in front of its queue and takes it from there: the
latest is first, and the watcher, which is put in first, may be taken last.
Whether connections start with a handshake is decided by the configuration the
loop has copied, so each batch of accepts may differ from the last.  The
handshake is on a descriptor that still blocks: the loop waits for the client
however long that takes.  A client that spoke before the handshake sent a plain
request; one of a handshake sends its request afterwards.

A record is an address.  Its `fd` field and its `next` link as a node of the free
list are the same memory; destroy makes the one undefined and create the other.
Clients are named in the order in which they connect (the accept queue is first
in, first out), which loses nothing since they are alike.  `raced` is history: a
create and a destroy, or two destroys, overlapped on the free list.  `extra`
counts what clients do besides sending one request.

`Service` is the promise to clients: connections are accepted in order, a request is
read once and by one thread, which serves that connection alone and closes it; the
only others that are closed are those refused after a failed handshake; the worker
does not crash.  It stands as long as it is `calm`, which `ImplementsService` maps to
`Orderly`.  The promise names clients, the code has only descriptors and record
addresses that are used again and again; a thread's client is the owner of the
descriptor in the record it was given.

### Routing, Builder, CloudCup

`Routing` is `extractPath` and the look-up in `handleRequest`
(`worker.zig:160-222`).  Targets and keys are sequences of tokens: slash, question
mark, star and pieces of names, since nothing else is looked at.  `path[1..]`
drops the first character whatever it is; targets are those that begin with a
slash.

`Builder` is `Builder.init` and `applyConfig` at startup, when route memories
are to be created.

| code | model |
|---|---|
| fields, `validateRoot`, `validateSSL` | `CheckFields`, `LoadTls` |
| one turn of `validateRoutes` | `AddRoute`, or `BackendsInvalid`, `CountPanics`, `CreateFails`, `RouteInvalid` by where it fails |
| `has_main_route` | `EndRoutes` |
| `catch` in `Builder.init` | `Refuse` |
| strategies, and `Builder.deinit` when one fails | `SetUpStrategy`, `SetUpFails` |
| `Config.deinit` twice at the end of `main` | `CloseTwice` |

The file is chosen as it is read, so any set of keys in any order is tried.
`allocated` and `frees` are the arrays of backends; `memory` the named memories,
which a run that was killed may have left behind; `context` the TLS context.
`RouteInvalid` stands for an unsupported strategy and for a key that ends with a
slash.  `error.DuplicateRoute` is out of reach: the JSON parser refuses a
repeated field first.

`CloudCup` puts `Builder` in front of `Supervisor`: until the configuration is
accepted nothing is forked (`Run`), and a refusal, a panic or an error of
`Config.share` or of the server's address ends the program with no child
(`Stop`, `StopAccepted`).  What happens to the configuration afterwards is the
subject of `HotReload` and `ConfigManager`, hence `Forget`.

## 4. Runs

| run | instance | shows |
|---|---|---|
| `RRConcurrent` | 2 handlers, 2 backends, 1 outage, the first handler's clients unsteady, TLS or not | `IndexInRange`, `SocketsBalanced`, `UndisturbedGatewayError`, `RequestEnds` under every interleaving |
| `RRSequential` | 1 handler, 3 backends (the last may never fail), 2 outages, unsteady clients, TLS or not | `ImplementsRotation`, with its liveness |
| `Reload` | 2 workers, 2 pieces of text, versions up to 3, of which 2 may contain the separator, 1 death of the CLI, 1 of a worker | `NeverStaleBody`, `QuietPollIsLoadable`, `VersionGrows`, `ConvergesOrStops` |
| `Manager` | 2 handlers, 3 pushes, 1 spurious failure, the return of the watcher | `HeadStaysLive`, `OneLiveNode`, `CurrentIsMostRecent`, `HandlersUseFreshConfig`, `ImplementsRegister`, `PushEnds` |
| `Supervise` | every file with some of 8 keys, 341 targets; 3 processors, 3 failures, 1 failed fork | `EveryTargetIsServed`, `ExactRoutesWin`, `WildcardsServeBelow`, `RefusalReleases`, `AcceptedIsComplete`; `OneWorkerPerSlot`, `MastersKeepTheirChildren`, `StartupLeavesNothing`, `EndedAreReplaced` |
| `Connections` | 3 clients, 2 descriptors, a pool of 2 threads, 1 misbehaviour of the first client, TLS or not | `RecordsAreExclusive`, `InputIsNoticed`, `NoDescriptorLeaks`, `ImplementsService`, `RequestsAreHandled`, `OnlyTheWatcherHolds` |

The remaining runs show where the code does not do what the repository says of
it; each checks one statement, and TLC gives the shortest behaviour against it.

| run | statement | what happens |
|---|---|---|
| `RRGateway` | "No more valid servers" (`round_robin.zig:107`) | the word moves between the turns of one request; it counts one refused backend twice and answers 502 though another backend is up, all the time, and was never tried |
| `RRClientReset` | "ensuring scalability and responsiveness" (README.md:32) | with TLS: a client resets; the write of every backend's response then fails (`SSL.zig:106`), is not counted, and the handler loops for ever.  Backends are all up, and no client is slow |
| `ReloadConsistency` | "maintaining consistency across all workers" (README.md:33) | a poll overlaps a publication, reads zeros or a torn text, and the watcher stops for good |
| `ManagerReaders` | "Verify no errors occurred" of readers during a push (`config_managment.zig:202`) | the push frees at once what a reader has loaded or copied |
| `SuperviseHang` | "remains operational ... in the event of individual worker failures" (README.md:35) | the event loop of a worker ends with an error; the process neither serves nor exits |
| `PoolRace` | `connections[i].fd == i` (`connection.zig:63`) | a create and a destroy overlap on the free list; two connections get one record |

### What the conditional properties mean

Some properties hold only under a condition on history, and the run of the same
module that fails shows what happens without it: `UndisturbedGatewayError` and
`RRGateway`; `RequestEnds` and `RRClientReset`; `QuietPollIsLoadable`, `ConvergesOrStops` and `ReloadConsistency`;
the `Orderly` properties of `EventLoop` and `PoolRace`.  `HeadStaysLive`,
`OneLiveNode` and `CurrentIsMostRecent` except spurious failures, after which
the push frees the current configuration.  `MastersKeepTheirChildren` excepts
failed forks, after which the job waits for a pid it has reaped and the master
panics.  `HeadStaysLive` excepts the return of the watcher, `RequestsAreHandled`
a loop that has ended or that waits for a client in a handshake, and
`ConvergesOrStops` a text that contains the separator.  The conditions are
states the runs do reach, on both sides.

`RequestEnds` says of a request that never ends that its client is stuck again and
again, in one of two ways.  The first is the TLS client that reset.  The second
needs no fault of anybody: without TLS, a client that is slower than the backends
and asks for a response larger than its send buffer makes one backend after the
other "fail" with `WouldBlock`, and gets the beginning of the response from each
of them, for as long as its buffer fills up every time, which may be for ever.
With TLS such a client keeps the thread busy inside one write until it reads.

### Bounds

* Two handlers are enough for every interleaving of a pair on the route's word;
  a third adds only more of the same stores.  Three backends in the sequential
  run make the rotation different from an alternation.
* Two pieces of text are the fewest that can be torn between them besides the
  version number.  Version 3 is the first that can be published while one worker
  still has 1 and another 2; the second publication is also the first that
  may run into names of a version some worker has retired.
* Three pushes let a handler keep a configuration through two retirements.
* Three processors have an oldest, a middle and a youngest worker, which differ
  when one that cannot start kills its siblings.
* Eight keys have all forms that routing tells apart: the general route, the
  root, an exact one, one with a slash at its end (refused), a path below
  another, two wildcards, and one with a query, which no request can match.  Five tokens make every arrangement of two
  segments, doubled slashes and a query that ends with a slash.
* A pool of two threads handles requests with one of them while the other has
  the watcher, and with both before the watcher is taken or after it has
  stopped.
* Three clients on two descriptors force the reuse of a descriptor and of a
  record.  The race on the free list needs two records in the list at once, hence
  five clients and three descriptors in `PoolRace`.  `Unruly`, the clients that may
  do more than send one request, is the first alone in `Connections`, so that
  what it disturbs includes the later ones.
* `Unsteady`, the handlers whose clients may be slow or gone, any number of times,
  is the first of the two in `RRConcurrent`, who are alike, and empty in
  `RRGateway`, which is about backends; `Recovering`, the backends that may come
  back, is empty there, so that a backend that is up was never down, and in
  `RRClientReset`, where none goes down.
* `MaxOutages`, `MaxCliCrashes`, `MaxWorkerCrashes`, `MaxFailures`,
  `MaxForkFailures`, `MaxSpurious` and `MaxExtra` are budgets of the
  environment; every fault has at least one run with a budget above 0.

Deadlock is checked in `RRConcurrent`, `RRSequential` and `Manager`.  In the
others the system may come to rest: no command left to apply, all clients
served, a panicked master, an ended event loop.  Symmetry is not used, since
most runs check liveness.

### Fairness

* `RoundRobin`: each handler is weakly fair: its thread is scheduled and calls
  to backends return.  The code sets no timeout, so the second half is an
  assumption on backends.  Nothing makes requests arrive, backends recover or
  clients read, reset or leave: what a property needs of clients is in its
  statement (`Stuck`).  Outages are finite (`MaxOutages`).
* `HotReload`: the CLI process, once a command has begun, and every watcher are
  weakly fair; so is the respawn of a worker, by the master's monitoring job.
  Commands need not come.
* `ConfigManager`: only the watcher's push.
* `Supervisor` and `CloudCup`: startup from the first fork on, and each
  monitoring job.  Failures are not fair.  No property says that validation
  ends, so it is not fair either.
* `EventLoop`: the event loop and every thread of the pool; clients are not, so
  a handshake may take for ever, and neither is the return of the watcher.
  The latest job first would starve an early one under endless load, which a
  bounded number of clients does not show.

Weak fairness is enough everywhere: each of these steps stays enabled until it
is taken, or another step of the same thread is.

## 5. Proofs

All theorems are of the full specification, for every value of the constants
that satisfies the named assumptions (`RouteAssumption`, `BoundAssumption`,
`CellAssumption`, `BuildAssumption`, `CountAssumption`, `KeysAssumption`): any number of
handlers, workers, backends, cells, versions, pushes, processors, failures, clients,
descriptors, threads, keys and targets.  Two theorems have a hypothesis besides:
`SoloRotates` (one handler) and `QuietPollsAreLoadable` (`~FrameReused`); each is
needed, since TLC finds the property violated without it.  Each module shows that an
invariant (`IInv`, in `CloudCupProofs` `BInv`) holds initially and is preserved by each action, and derives the
theorems from it.

**RoundRobinProofs.**  `TypeCorrect`, `IndexSafe`, `SocketsSafe`,
`GatewayErrorSafe`.  `IndexInRange` is about one moment of `handle` and not
inductive: an index is stored back plus one, so the invariant has to say that
the word, and every index a handler holds at a later point, is in range
(`WordInRange`, `HeldInRange`); `NextIndexInRange` closes the circle.  The types
need `SocketsBalanced`, since a close decrements a count that must not be 0.
`GatewayErrorSafe` counts: an undisturbed request passes over consecutive
backends, so the backends it failed at are an interval of the ring that ends at
the word, with at least as many of them as `servers_down`; when the count reaches
N the interval is the whole ring.  That needs an invariant on the position of the
word relative to the interval, and two lemmas about intervals modulo N.
`SoloRotates` is the safety part of `ImplementsRotation`: with one handler nobody
disturbs a request (`Solo`), so the same invariant says that a handler stores past
the backend under the cursor (`PassOver`, `Serve`) and that a 502 has passed all of
them (`GiveUp`); every other step leaves the cursor and `passed` alone.

**HotReloadProofs.**  `TypeCorrect`, `BodyNeverStale`.  The text a worker puts
together is never older than its number because the writer and the reader both
ascend.  `RegionInv`: a region whose first cell is not zero holds nothing but that
version and zeros, because the first cell is wiped first and every cell is wiped
before any is written.  `CliInv` says so position by position and that the version
about to be written is larger than the one there was.  `ReadInv`: the version
number a watcher has copied bounds from below all it has copied after it and all
that the region can still give it.  `NeverStaleBody` alone is not inductive,
since it says nothing of a read or a rewrite under way.  Zeros do not matter: a
text with one never parses.

`VersionsGrow` and `QuietPollsAreLoadable` add two layers on top.  `GrowInv` orders
what the watchers have against what is published: as long as the first cell is not
zero nobody has anything newer, and until a rewrite stores that cell nobody has
anything as new as what it writes.  So a version number read from the region is
never less than the current one.  `LoadInv` says who may still take the names of
the published version: a worker retires, or loses by failing, versions that are
older (by `GrowInv`), so a text that is whole in the region has its names.  The
exception is a whole text that does not parse since the frame of the parser was
reused: the failed attempt unlinks the names, and other workers miss them.

**ConfigManagerProofs.**  `TypeCorrect`, `HeadSafe`, `NoLeakNoDoubleFree`,
`MostRecent`, `FreshConfig`, `ManagerIsRegister`.  `FreshInv` is a chain: the head only grows
(`HeadGrows`), and each copy of it, from the load of the event loop to what a
handler uses, is at least as new as the one the request is owed.  `PushInv` says
which nodes are live at each step of a push: the exchange loop is left only with
the head moved, so that what is freed is the other node.  `ManagerIsRegister` is the
whole of `ImplementsRegister`, which states no fairness: `FreshInv` makes
`TakeStrategy` a `Serve`, the exchange is a `Publish`, most other steps are stutters.

**SupervisorProofs.**  `SupervisorTypeCorrect`, `SlotsNeverShared`,
`ChildrenNeverLost`, `NothingLeftBehind`.  `SlotInv`: a process that is not reaped
is the one its slot of the array holds, and `JobInv`: a job waits for that one and
forks only when it is gone.  The types need a count: that pids suffice for all
replacements follows from `CountInv` (forks are in the order of pids, each one after
the startup takes the place of a process that is gone, and a process of a later
generation ends by a failure of its own), with the cardinalities of
`FiniteSetTheorems`.  `StartupInv` is what `GiveUp` relies on: until the jobs start
the array holds every process there is.

**EventLoopProofs.**  `EventLoopTypeCorrect`, `RecordsNeverShared`,
`InputNeverMissed`, `DescriptorsNeverLeak`.  The invariant has two layers.  `Shape`
holds in every state: types, and that the arena has a record for every client
still to be accepted (`ArenaInv`), which types need.  `Tidy` holds as long as the
clients and the free list are orderly, and none of the three properties is inductive
without the rest of it.  `EdgeInv`: a request is at one place, as an edge, an event, a
job or with a thread.  `ThreadInv`: a record handled by a thread is registered up to
`remove`, has an open descriptor up to `close`, and is nowhere after it.
`SetupInv`: what is being set up is nobody else's yet.  `RegisteredInv` and
`OwnerInv`: descriptor, record and connection belong to each other one to one.
`FreeInv` describes the free list without following it, as induction over lists is
out of reach: what is linked is free, is linked once and is not the head.  An
overlap of `create` and `destroy` breaks exactly that, hence `Orderly`.

**ServiceProofs.**  `WorkerServes` is the whole of `ImplementsService`.  Each step in
an orderly state is a step of `Service` or a stutter; a step into disorder is allowed
anything.  By `Tidy` a thread at work has an open descriptor that no other thread at
work has and that is not being set up (`AtWorkFacts`), so that whatever others do to
the pool and to descriptors leaves its client alone (`ClientKept`).  One more
invariant is needed (`UnservedInv`): what a failed handshake refuses has not been
read from.

**CloudCupProofs.**  `BuilderTypeCorrect`, `RefusalIsClean`,
`AcceptanceIsComplete`, `NoTargetIsUnserved`, `WildcardsCoverTheirSegment`,
`KeysServeThemselves`, for every set of keys and of targets, of any length, and
`SupervisionHolds`: the theorems of `SupervisorProofs` carry over to the composed
program, since the master's invariant also survives a stop before the first fork.
`BInv` adds to the properties what holds half way: nothing is made before the
TLS files are read or freed before an error (`NotYet`); what is allocated is
what is in the table, with a fresh memory and a key that does not end with a
slash (`Growing`); only a table with the general route goes on (`Routed`).  The
rest is about operators.  `First` takes the least position there is
(`FirstIsLeast`, from the well-foundedness of `<`), so `RouteFor` yields a key
that exists once the general route does (`RouteExists`).  `ExtractPathOfKey`: a
key without a query and without a slash at its end is what `extractPath` leaves
of it when a slash or a query is put behind it.

### Only model-checked

* Every liveness property (`RequestEnds`, `ConvergesOrStops`, `PushEnds`,
  `EndedAreReplaced`, `RequestsAreHandled`, `OnlyTheWatcherHolds`): liveness
  under fairness and ENABLED
  are beyond the prover.
* The liveness of `ImplementsRotation` (`Live`, for clients that are not stuck for
  good); its safety part is `SoloRotates`.

## 6. Not modelled

* **TLS records and contexts**: the record protocol, shutdown and the reference
  count of a context are BoringSSL's.  The context of a retired configuration is
  freed twice on every push (`config_managment.zig:47-51`), which needs no model.
* **Address parsing**: `parseServerAddress` is a function of characters; that it
  may fail is in `StopAccepted` and `BackendsInvalid`.
* **`show-config`, `show-status`**: the first copies the region and answers, the
  second answers the same whatever the state.
* **Targets that do not begin with a slash**, empty ones among them (on which
  `path[1..]` panics), and requests without two spaces (502).
* **A pool of one thread**: once it has taken the watcher nothing is handled, and
  `RequestsAreHandled` fails.
* **What a client has received** when its request is tried at the next backend, or
  when a send takes only part of a piece: responses are not told apart by their
  bytes, and `writeHttp` ignores a short count.
* **Bytes**: HTTP parsing, contents of responses, what the client is told after
  a rejected `apply-config`, logging.
* **Locks of the standard library across fork**: a child of the multi-threaded
  master inherits them as they are; its effect is that of `EventLoopHangs`.
* **Headers under `boringSSL/include`** (some 36,000 of the repository's lines) and
  the build description: declarations of a vendored library and no logic of the
  program.  The program is the 3,125 lines of Zig, tests included, of which the
  definitions here translate about two fifths.
