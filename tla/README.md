# cpip: TLA+ models, checks and proofs

cpip installs Python packages on phones (Termux) with the help of a cloud: a command
line client with a local cache and a background daemon, a runtime that sends calls of
packages to the cloud, a FastAPI server with a WebSocket hub, and a build farm that
compiles wheels. This directory holds TLA+ models of the parts where steps of several
actors meet or a long sequence of steps must keep something true, the TLC runs that
check them, and proofs that TLAPS checks. `PROJECT.json` lists runs, mutants, the source
lines behind every definition, findings, hazards and theorems.

    tlc -workers 2 -config HubSafety.cfg MCDeviceEndpoint     # a run
    tlapm DeviceEndpointProofs.tla                            # the proofs of a module

## 1. The system

| Part | State | Operations | Hard about it | What makes it correct |
|---|---|---|---|---|
| Connection hub (`server/ws/hub.py`) | `_connections` by device id, an asyncio lock | connect, disconnect, send_to_device, broadcast, heartbeat_loop | awaits inside the locked section; sends outside it; ids used after awaits | a live connection is listed, a listed one is open, nothing is left of a handler that returned, silent devices go |
| WebSocket endpoint (`server/app.py`) | one task per websocket, `conn` | accept, session.init, ack, call, errors, clean-up | clean-up by id; re-registration of one websocket; exceptions in except clauses | the handler cleans up its own connection and always returns |
| Calls of the daemon (`daemon.py` `rpc_call`, `ws/rpc.py`, `shared/protocol.py`) | `_pending`, the connection, the message being dispatched | call, receive, dispatch, answer | the connection is lost at any point; no handler; handlers that raise | a call that still waits is on its way, being answered, or lost with its connection |
| Build farm (`builder/*.py`) | sorted list, `_processing` by request id, `/tmp/cpip-builds` | push, pop, complete, fail; workers that compile, scan, sign | several workers between awaits; retries for ever; a shared output directory | no job lost or doubled, none starves, the signed wheel is the built one |
| Cache (`client/cache.py`) | `_index` per process, `cache.json`, directories | get/store wheel, metadata; evict; verify; clear | processes overwrite each other's index; torn writes; file names shared by keys | bounded, and a hit is what was asked for |
| Resolver, installer (`client/resolver.py`, `installer.py`) | the plan of strategies, the file being downloaded | resolve, six strategies | partial failures, the cache changing during awaits | every install ends; cloud execution remains as the last resort |
| Daemon (`client/daemon.py`, `cli.py daemon`) | `_running`, delay, pid file | start, stop, reconnect loop, status | stop() next to the loop; the pid file | a stopped daemon stays stopped and ends |
| REST endpoints (`server/api`, `server/services`, `rate_limiter.py`) | windows of each client, `_builds`, `_queue`, `_results` | submit, cancel, execute, query | three limits on one list, ids chosen by clients | limits hold in every window; table and queue agree |
| Cloud session (`runtime/interceptor.py`) | `_loop`, thread, `_ws`, `_connected`, `_pending` | execute: start a loop, connect, send, receive, time out | threads without a lock, check-then-act, connections and futures of two loops | every call ends, and one that its own receive loop answers gets that answer |
| Retry, fallback, breaker (`runtime/fallback.py`) | attempt and delay of each call; failures, clock and state of the breaker | call, retry, record success and failure | calls that began earlier end after the breaker opened | the breaker admits exactly the calls its history says |
| Import hooks and proxies (`runtime/hooks.py`) | the registry, `sys.meta_path`, `sys.modules`, a session per proxy | register, activate, deactivate, import | changes between the import of a package and that of its modules | a package is all proxies or all its own |
| Streams (`runtime/streaming.py`) | queues by call id, the pieces received | send, receive, start, chunk, end | several streams on a connection that breaks; receivers that come late | what is returned is what was sent, each piece in its place |
| Values (`runtime/serialization.py`) | | serialize, to JSON, deserialize, and back | tags that share the users' name space; JSON has only text for keys; some values cannot be pickled | a value arrives as what JSON leaves of it, or the call raises |
| Metadata sync (`client/sync.py`, `cache.py`) | `_running`, task, `_last_sync`, files | start, stop, loop, sync_now, invalidate | cancellation that arrives later, two syncs at once, failing saves | one loop, and it goes on syncing |
| Sessions (`server/ws/sessions.py`) | `_sessions` | create, update, remove, clean-up loop | the limit, the interval and activity between two passes | idle ones go in bounded time |
| Virtual packages (`virtualization/`) | layer directories, composed trees, manifests, mounts, `sys.path`, lazy modules | download, store, compose, mount, unmount, load | partial downloads and copies, manifests that change while mounted, trees shared by packages | what is imported is what the manifest lists; the path holds what is mounted |
| Client configuration (`client/config.py`) | settings in memory, `config.toml`, the auth file, the environment | load, save, set, login | a command saves everything it has loaded, into a file that does not give everything back | what was set last stays set |
| Infrastructure configurations (`client/config/`) | a dictionary in memory, a JSON file for each | create, modify, delete, list | several programs, dialogues broken off, torn files | memory is what is on disk; nothing is overwritten unasked |

Interaction: the client's installer and daemon talk to the server by REST and by the
WebSocket endpoint; the endpoint registers connections in the hub, which the heartbeat
loop and senders use from other tasks of the same asyncio loop; commands and the daemon
share the cache directory, the settings and the pid file through the file system. The
daemon runs the sync loop and answers calls that start a sync or drop metadata. Proxies
open a cloud session each, to the same endpoint, and send serialized values. The build
farm has its own queue: `BuildService` of the server and `BuildQueue` of the builder are
not connected, so a build that is submitted by REST stays queued. Several parts have no
caller in the repository yet: the fallback chain with its breaker, streams, the server's
sessions, the virtual packages and the scheduler. They are modelled as their interfaces
are written to be used.

## 2. Modules

| Module | Models | Notes |
|---|---|---|
| `ConnectionHub` | `hub.py` | operations take the program counters they start from and go to, since handlers, heartbeat and senders call them from several places |
| `DeviceEndpoint` | `app.py` `websocket_endpoint`, composed with the hub | devices open, go silent or leave at any time |
| `RpcMessages` | `protocol.py` | what the constructors put into a message, what is left of it on the wire |
| `RpcExchange` | `rpc_call` and message loop of `daemon.py`, `rpc.py`, on `RpcMessages` | what the code does on a connection, which may be lost and made again |
| `CallLifecycle` | abstract: a call is new, sent, served, answered, lost or over | implemented by `RpcExchange` |
| `ResultStream` | `streaming.py`, on `RpcMessages` | both ends and the connection |
| `Serialization` | `serialization.py`, the encoding of calls in `interceptor.py` | recursive functions on values; the steps only move the value |
| `ServerSessions` | `sessions.py` and its clean-up task in `app.py` | |
| `CloudApi` | rate limiter, build and execution endpoints and services | |
| `BuildQueue` | `builder/queue.py` | |
| `BuildWorker` | `worker.py`, `compiler.py`, `scanner.py`, `signer.py`, composed with the queue | |
| `JobLifecycle` | abstract: a job is new, waiting, building or done | implemented by `BuildWorker` |
| `PackageCache` | the wheels of `cache.py` | |
| `PackageInstall` | `resolver.py`, `installer.py`, `cli.py install` and `doctor`, composed with the cache | several processes |
| `Daemon` | `daemon.py` and `cli.py daemon` | connecting always raises, see below |
| `MetadataSync` | `sync.py`, the metadata of `cache.py`, the daemon's `sync.trigger` and `cache.invalidate` | |
| `CloudSession` | `interceptor.py` | threads, event loops and connections |
| `CloudFallback` | `fallback.py` | chain, retry and breaker, nested |
| `ImportHooks` | `hooks.py` | |
| `VirtualPackages` | `fetcher.py`, `layers.py`, `registry.py`, `mount.py`, `loader.py` | |
| `ClientConfig` | `config.py`, `cli.py config` and `login` | |
| `ConfigManager` | `client/config/config_manager.py` | |
| `CloudServices` | `CloudApi`, `ResultStream`, `RpcExchange`, `Serialization` and `ServerSessions` side by side | a step is one of one part |
| `ClientRuntime` | `Daemon`, `CloudSession`, `MetadataSync`, `CloudFallback` and `ImportHooks` side by side | |
| `ClientDisk` | `PackageInstall`, `VirtualPackages`, `ConfigManager` and `ClientConfig` side by side | |
| `Lists` | sublists and sums, as recursive functions | used by `CloudApi` and `PackageCache` |
| `DeviceEndpointProofs` | hub and endpoint | section 4 |
| `BuildWorkerProofs` | build farm | |
| `ClientRuntimeProofs` | daemon, cloud session, sync, breaker, hooks, and `ClientRuntime` | |
| `CloudApiProofs` | limiter, queue of builds, server's sessions, values | |
| `ClientDiskProofs` | virtual packages, both configurations, and `ClientDisk` | |
| `PackageInstallProofs` | installs and the cache | |
| `RpcProofs` | messages, calls, streams, and `CloudServices` | |
| `ListTheorems` | lemmas about sublists, removals, counts, sums | used by the proofs about limiter, disk and cache |
| `MC*` | instances for TLC | |

How code becomes steps. Server, workers and daemon run on one asyncio loop each, so a
step is the code between two awaits; an `async with lock` whose body awaits is two
steps with `lock` held in between. Commands are processes, so file operations between
two awaits are one step, except where a write that is not finished is visible: a file is
empty, or holds a part, between being opened and being written (`cache.json`, the pid
file, `config.toml`, the auth file, a configuration's JSON file, a layer's directory).

- *Hub.* A websocket, its handler task and its `DeviceConnection` have one name. `app`
  is Starlette's application state: `close()` sets it before its await, a send on a
  closed websocket raises, and a second `accept()` always raises. `peer` is the device.
  `age` counts ticks since the last ack, capped one above the limit that the heartbeat
  compares it with.
- *Calls.* `up` and `down` are the two directions of the daemon's connection; losing it
  empties both. The server answers one message of a connection before it reads the next
  (`serving`). A call that times out or whose daemon is gone leaves its entry in
  `pending`, as in the code.
- *Session.* Threads interleave between any two reads or writes of the session's fields;
  coroutines of one event loop between awaits. Loops and connections are named by the
  call that made them, so every call may make one.
- *Streams and values.* Data is a numbered piece, and a value is a kind with its
  content; the containers and the tags are the code's. `Serialize` and `Deserialize` are
  recursive functions on the values and on their JSON: `SerializeValue` and
  `DeserializeValue` are the code's functions, given what becomes of the items. The keys
  of a dictionary are of any kind: `Text` says what `json.dumps` writes for each, and
  `NoText` that it raises. Of keys with one text `json.loads` keeps the entry added last;
  a value here has no order of its entries, so `Entry` keeps one of them. `Sendable` are
  the values on which neither `pickle.dumps` nor `json.dumps` raises. `Values` has with a
  value all that is in it, and `Depth` says how deep that is; Python's limit on recursion
  (`RecursionLimit`) bounds it.
- *Farm.* A job is a request object. Time stamps grow, so the sort by priority and time
  is an insertion behind the jobs of the same priority. `Matches` says which wheels the
  glob of a job finds.
- *Cache and install.* An index is a list in order of last access. A file holds the
  wheel, another body or a part; hashes stand for content. The registry's answers,
  downloads, pip and Termux are nondeterministic over the outcomes that the code tells
  apart. `MaxPolls` bounds how often a built wheel is downloaded again (359 in the code).
- *Daemon.* `st` is the place of the connection loop and `stop` that of `stop()`. When
  the loop ends, the process ends and a `stop()` that is not done with it. A second
  SIGTERM while `stop()` runs has no step: it would repeat the same. The daemon passes
  `extra_headers=` (`daemon.py:69`) to the `connect` of `websockets.asyncio.client`, which
  has no such parameter and hands it on to `create_connection`; that raises, so the loop
  goes through its except clause (line 90) every time and there is no connection that
  `stop()` could meet. `RpcExchange`, and in `MetadataSync` the calls `sync.trigger` and
  `cache.invalidate`, model what the code does once there is one.
- *Sync.* Time goes in the minutes that the loop sleeps; the age of the metadata and
  the time since the last sync are counted as far as they are compared (`Older` is the
  model's cap on an age: in the code a file that nobody reads gets older for ever).
- *Breaker and retry.* The counter and the clock are counted as far as the threshold and
  the timeout; sleeps are whole units of time. Time passes only when no sleep is due.
- *Layers.* Other programs on the same directories store, compose and clean up too; the
  manifests, the mounts, `sys.path` and the lazy modules are those of one program.
- *Settings.* Three settings stand for the kinds there are: overridden by the
  environment or not, loaded or not. A command is a load, a change in memory, the
  opening and the writing of the file, and may be killed in between. `Written` is
  `_save_toml`, which leaves out what is no bool, int or string (a float the user wrote)
  and puts strings between quotes as they are; `Loads` is `_load_toml`, for which a file
  with such a string that needed an escape is no settings at all.
- *REST.* No handler waits between its steps, so a request is one step.

Definitions whose comments call them a mutant are broken variants of the definition that
follows them; no specification uses them.

## 3. Runs

| Run | Checks | Bounds |
|---|---|---|
| `hub_safety` | `TypeOK`, `LiveIsRegistered`, `RegisteredIsOpen`, `ReturnedIsForgotten` | two sockets (one replaces, times out or cleans up the other), two ids, one sender, interval 1 (limit 3) |
| `hub_liveness` | `SilentIsRemoved`, `HandlerReturns` | the same without the sender |
| `build_farm` | `TypeOK`, `QueueSorted`, `NoJobLost`, `NoStarvation`, `ImplementsLifecycle` | three jobs of two priorities, two workers, lowest priority 3, so jobs sink to the bottom and past each other |
| `install_shared` | `CloudPlanEndsInExec`, `InstallEnds` | two processes, one key, a limit of one wheel, one second download of a built wheel |
| `client_disk` | installs: `CountedBound`, `PartIsNoHit`, `InstallEnds` | one process, three keys, two of which share a file name, two files of sizes 2 and 1, a limit of 2, one second download |
| | layers: `RightContent`, `PathsAreMounts` | two packages, one of them lazy, one layer, the lists with it and without |
| | configurations: `MemoryIsDisk`, `OverwriteAsked` | two managers, one name, one cloud and one GPU |
| | settings: `SettingsKept` | two commands, an editing user, two tokens; values that the file gives back, leaves out, and is spoilt by |
| | all: `DiskTypeOK` | |
| `client_runtime` | daemon: `StoppedNeverReconnects`, `StopEndsDaemon` | two daemons, delays 1 to 3, so doubling meets the cap |
| | session: `AnswerReaches`, `CallsEnd` | two calls, so two threads, two loops and two connections |
| | sync: `OneLoop`, `KeepsSyncing` | two tasks (one cancelled, one started after it), interval 2 and lifetime 2 minutes |
| | breaker: `AdmitsExactly` | two calls, two strategies of which the first is guarded, one retry, delay 1 capped at 2 with factor 3, threshold 2, timeout 1 |
| | hooks: `OneKind` | two packages with one module each |
| | all: `RuntimeTypeOK` | |
| `cloud_services` | API: `RateBound`, `RetryAdmitted`, `QueuedIsListed` | two clients, window of 2 s, limits 1, 2 and 3, two builds, one execution, a queue of 3 |
| | streams: `StreamWhole` | two streams, of JSON and of text, up to two pieces |
| | calls: `NoCallLost`, `ImplementsCalls` | three calls, one of a method without handler, any number of lost connections |
| | values: `ValueArrives` | five kinds of atoms (one that cannot be pickled), containers of up to two of them, and containers of one of those; dictionaries with a key the code uses for its tags, a number, the string that is its text, and a key that has no text |
| | sessions: `IdleBound` | one session, limit 3, interval 2 (so a pass may come just before the limit) |
| | all: `ServicesTypeOK` | |

`client_disk`, `client_runtime` and `cloud_services` are sums: the parts share no state,
`part` says at the beginning which of them a behaviour is one of, and the others keep
their initial state. A property of one part therefore holds in the run exactly if it
holds of the part's own specification. The product, in which the parts move in any
order, is `ClientDisk`, `ClientRuntime` or `CloudServices`; what is proved of a part is
proved of it too (section 4).

The hub has one listed id in use at a time ("unknown", see below), so two sockets show
every way a connection meets another; the proofs cover any number. Two processes show
every race on the cache (`install_shared`, with one key: between two steps of an install
the other process evicts, stores, cuts off the index or breaks off, so that the plan of
the first is stale); keys that share a file name show what eviction does to a file that
is in use (`client_disk`, with one process). `PartIsNoHit` is about commands that run one
after the other: with two at
once, a process may hash the file while the other writes it again, and the other may
break off. Two calls of a session meet in all the ways its unlocked fields allow: both
find no loop, both connect, one's answer comes on the other's connection. Two managers or
commands show every overlap of a load and a save.

Several properties say less than one would wish, because the code does not promise more:

- `AnswerReaches` is about a session that has had one event loop and one connection. With
  two, an answer may be read by nobody and the call waits for its timeout (section 5);
  `CallsEnd` holds in any case.
- `StreamWhole` is about callers that created their receiver before the stream began, and
  that did not give up waiting.
- `NoCallLost` is about calls whose connection lasts; those on a connection that was lost
  are left to their timeout. `ImplementsCalls` has all calls: one that was lost stays lost
  until it is given up.
- `RightContent` is about what is there. Layers may be missing from a tree, or be there in
  part (section 5), but none is another layer's content.
- `SettingsKept` is about the account and the settings that are both saved and loaded
  (`auto_cleanup` is saved only; `max_retries`, `metadata_ttl_hours`, `auto_sync` and
  `import_hooks` are neither). It leaves out commands that overlap, are killed while they
  write, or save while the environment overrides the setting, and what a save puts into
  the file that the file does not give back (section 5); `MemoryIsDisk` and `OverwriteAsked` leave
  out a manager beside which another one has written, and configurations whose interactive
  modification was broken off.
- `ValueArrives` compares with `Normal`, which says what JSON keeps of a value: text for
  keys, lists for tuples. That the keys are kept is `KeysArrive`, which does not hold.
- `OneKind` is about imports that succeed or load nothing (section 6).

Runs that find a disagreement, with the line that is contradicted in `findings`:

- `hub_cleanup`: the clean-up of a replaced handler closes the connection that replaced
  it (`app.py:243`).
- `hub_session_init`: a `session.init` that names a device closes its connection instead
  of registering it (`app.py:179`). As a consequence every device is registered as
  "unknown", and each new device closes the previous one.
- `build_wheel`: the wheel that is signed may be another job's (`compiler.py:71`).
- `install_hit`: an error page is stored, and found valid, as a wheel (`installer.py:207`).
- `values_keys`: a dictionary with numbers for keys arrives with strings for keys
  (`serialization.py:45`, `protocol.py:113`).

Deadlock is checked except for the farm, where all workers may have been stopped.

### Fairness

Weak fairness for what asyncio or the operating system runs on its own account: a ready
task, a sleep that ends, a thread, a compiler process (killed after an hour), a request
(it has a timeout), a pip process, an attempt to connect, the passing of time in the sync manager.
None for devices, servers, users or signals: a device need not answer or leave, the
server need not close a connection, the cloud need not answer. `CallsEnd` therefore
rests on the client's own 300 s and nothing else. The lock of the hub needs no strong
fairness in the instances: each locked section is entered once per registration or
removal, so it is not contended for ever.

## 4. Proofs

For every value of the constants, from the named assumptions of the modules
(`HubAssumption`, `UnknownAssumption`, `QueueAssumption`, `WorkerAssumption`,
`DaemonAssumption`, `SessionAssumption`, `SyncAssumption`, `FallbackAssumption`,
`ApiAssumption`, `ServerSessionsAssumption`, `CacheAssumption`, `InstallAssumption`,
`LayerAssumption`, `ConfigAssumption`, `ExchangeAssumption`, `StreamAssumption`,
`DepthAssumption`, `TextAssumption`, `ValueAssumption`): distinct names, positive intervals and limits,
finite sets where the code has them, values that are well-formed and of finite depth. TLC
evaluates all of them. Every safety property that a passing run checks is a theorem: each
invariant, each action property and both refinements.

*Hub* (`DeviceEndpointProofs`). `TypeCorrect`; then `HubInvariant`: `HubInv` is
inductive. The properties are not inductive by themselves: that a live connection is
listed depends on nobody changing the entry between the close and the registration,
hence on the lock. `HubInv` says who holds the lock (`LockInv`), that only "unknown" is
registered (`OnlyUnknown`), that the listed connection has a handler that serves it
(`RegisteredServes`), that it is closed exactly while another one replaces it
(`ClosedByReplacement`), and which application state goes with which place of a handler
(`AppInv`). `LiveConnectionsAreListed`, `ListedConnectionsAreOpen` and
`ReturnedHandlersAreForgotten` follow.

*Farm* (`BuildWorkerProofs`). `TypeCorrect`. `QueueStaysSorted` needs `ListInv`: besides
the order, that no job is listed twice and that a job noted as being processed is not in
the list, so that changing its priority does not spoil the order; it needs nothing of
the request ids. `JobsAreKept` assumes `DistinctIds` (ids are uuids unless a client sets
them) and uses `FarmInv`: where a job can be, and that the worker which builds it finds
it under its id. `FarmImplementsLifecycle` is the refinement: each action maps to a step
of `JobLifecycle` or to no change, through lemmas that compute the status of a job
before and after.

*Lists* (`ListTheorems`). A recursive function is what its definition says only after an
induction, and the library's induction theorems take an operator. `Least` and `Induct`
state induction for a set of numbers instead, which is first-order: `Least` comes from
the well-foundedness of `<`, and `Recursion` from it. From these come `SubListPicks` (a
sublist is what some increasing list of positions picks), `SubListCount`,
`RemoveFirstMembers`, and the sums of a prefix, of a sublist and of a list with one
more.

*Limiter, builds, sessions* (`CloudApiProofs`). `RateIsBounded` compares two lists: the
requests that `check` remembers, and the history of what was let through with the class
of each. `WindowCounts` relates them: for every age below the window, the first list has
exactly as many members younger than that as the second. The limiter counts the requests
of all classes against each limit, so a class's own requests are fewer than that
(`Bounded`). `RetryIsAdmitted` follows from the same relation, since a request that is
refused leaves no trace. `QueuedBuildsAreListed` is inductive with the type: an id
submitted again is listed twice, and a cancel takes out one of those whose status it
changes and no other id. `SessionsInvariant` has `AgeInv`: none is idle for longer than
the limit and the time since the last pass; `IdleSessionsGo` follows.

*Values* (`CloudApiProofs`). `CanSend`, `Serialize`, `Deserialize`, `Normal` and
`Settable` are recursive functions on values and not on numbers. That each is what its
definition says goes by `Induct` over the depth; what holds of a value when it holds of
all that is in it holds of every value by `ByDepth`. `ValueSurvives` is proved that way:
for a value that can be sent, deserializing what was serialized gives `Normal` of it, or
raises when a set would get a member that cannot be hashed. Lists and dictionaries go
alike over their `Content`, which for a dictionary has an entry for each text.
`ValuesArrive` adds what cannot be sent, the bare list of arguments and the way back,
which rests on `NormalTwice`: what has arrived once can be sent and changes no more,
since a text is its own text (`TextAssumption`).

*Client in memory* (`ClientRuntimeProofs`). Daemon: `DaemonTypeCorrect` and
`StoppedStaysStopped`, the action property. Session: `AnswersArrive` is an action
property (no timeout of a call whose answer is there). It rests on `SessionInv`, that
each place of a coroutine goes with what it has found or made so far (`CallOK`), and
that a connection which is the session's only one is the socket in use, and its receive
loop is about to start, reads it, or has left nothing unread (`WireOK`). `CallsGetOn` is
the safety half of `CallsEnd`: every step of a session is a step of one call, lowers what
that call still has before it (`CallLeft`: its coroutine, loop thread, receive loop,
connection and answer), and changes no other call's. Sync:
`OneLoopAtMost` with `LoopsInv`, that only a task that is not over is being cancelled; a
stop waits for its task, but a new loop may be started before that one ends. Breaker:
`BreakerConsistent`, that state, counter and clock agree, survives calls that end in any
order because each of them only records; with `PlacesOK` (which attempt and delay go
with which place of a coroutine) it gives `BreakerAdmitsExactly`. Hooks:
`HooksTypeCorrect` includes that flag and `sys.meta_path` agree, without which the
finder could be there twice; `PackagesAreOneThing` rests on it and on a package being
settled when it is first imported.

*Client on disk* (`ClientDiskProofs`). Layers: `LayersInv` says that a composed tree is
made of the layers of its list, that a mounted package's tree is there, and that the
package being composed is not mounted. `NoPathIsLeft` adds that the path has no
repetition, so `list.remove` takes out all there is of a tree. `ContentIsRight` needs
`ContentOK`: every directory and copy is named by its own hash, also those that are
parts. Configurations: `ConfigInv` bounds what is in files and memories to what the
dialogues can produce, each of which is read back as it was written, and `Knows` says
that a manager beside which nobody wrote has in memory what is in whole files, and that
the file it is saving is still torn. `MemoryAgreesWithDisk` and `NoneOverwrittenUnasked`
follow. Settings: `StandingOK` says that as long as a choice stands at most one command
is at work, that it has the choice in memory unless its environment overrides it, and
that the file has it and can be read, or that command is about to write it in a form that
gives it back.

*Cache and installs* (`PackageInstallProofs`). The cache's part of the invariant is
stated for any set of entries: `CacheOK(U)` says that memory and disk have indexes over
`U`, with one entry for a key, no larger than the limit and one wheel. `RestOK` says
which key, plan and counters go with a place of a process. Eviction is the hard step:
`Evicted` is a `CHOOSE` of the fewest entries that make room, and removing all always
does. `InstallTypeCorrect` and `CacheIsBounded` follow with `U` all entries;
`CloudIsLast` adds the plans. `PartsAreNotFound` takes as `U` the entries that were not
made for a part, and that a process about to store has a whole file. It assumes
`[]NoOverlap`: no two installs fetch one file at a time, the overlap for which the
property is not claimed (section 3). With one process, as in the run, it always holds;
with several it leaves all other interleavings, and evictions, losses of the index and
interrupts are not restricted. `InstallsGetOn` is the safety half of `InstallEnds`:
`Rank` counts what an install still has before it (the strategies of its plan and the
polls that are left), every step of the process lowers it, and no step of
another process, no eviction and no lost index raises it. So an install that goes on ends
after `5 * (4 + MaxPolls) + 3` steps at most.

*Messages* (`RpcProofs`). `MessageSurvives`: a message with a type and an id comes out
of its JSON form as it went in, although what is missing or empty is left out.
`CallsAreKept` proves `NoCallLost` with `WireInv` (what is on the connection is a call
or an answer to it), and `ExchangeTypeCorrect` that a call ends with its own answer.
`ExchangeImplementsCalls` is the refinement: the stage of a call is where it is while it
waits, so it has to be in one place only. `OncePlaced` says that: no id is twice on one
direction, none is on both or on one and served, and a call that was not made is in none
of these places. `KnownWaits` says that the daemon's table has everyone who waits, also
after a loss; without it an answer could be dropped. Each action then is one step of
`CallLifecycle`, or, for a call that was given up, none.
`StreamsArriveWhole` needs `StreamInv`: the messages of a stream are numbered, those on
the connection are the next ones in order (`Feed`), and the receiver has exactly the
pieces before them (`Received`); a connection that breaks cuts the rest, and such a
stream never ends. The proof has to compute `on_chunk`, holes included, hence
`StreamTypeCorrect`.

*Side by side* (`ClientRuntimeProofs`, `ClientDiskProofs`, `RpcProofs`). A behaviour of
a composed specification is one of each part's own specification, which is so by the
definition of the compositions, whose parts share no variable. With it the type
invariants of the parts give `RuntimeTypeCorrect`, `DiskTypeCorrect` and
`ServicesTypeCorrect`.

Only model-checked: liveness under fairness, which is out of the prover's reach
(`SilentIsRemoved`, `HandlerReturns`, `NoStarvation`, `InstallEnds`, `StopEndsDaemon`,
`CallsEnd`, `KeepsSyncing`). Of `InstallEnds` and `CallsEnd` what is left to TLC is that
a call or an install that is not over has a step that its fairness makes it take. That
the sums of the runs are nothing but their parts, one at a time, is by reading the `MC`
modules. `JobsAreKept` and `FarmImplementsLifecycle` assume distinct request ids and
`PartsAreNotFound` that installs of one file do not overlap, as said above.

## 5. Noticed while reading, not checked by a run

Server and build farm
- `packages.py:67` declares `/catalog` after `/{name}`, which matches first.
- Nothing takes a build out of `BuildService._queue`, so none leaves "queued".
- `execution_service.py:71` can cancel nothing: results are stored when they are final.
- Two jobs with one request id: the second overwrites the first in `_processing`
  (`queue.py:33`) and one of them is not queued again after a failure; hence `DistinctIds`.
- `app.py:210` and `222` call `make_error`, which is not imported there, with `msg_id=`.
- `rpc.py:63` registers `ping` and `echo` only, while proxies send `exec.call`
  (`interceptor.py:122`): the cloud execution that `hooks.py:118` describes has no handler.

Client
- `installer.py:137` asks for a build without a token and `builds.py:19` requires one.
- A package registered as cloud-only (`cli.py:83`, `installer.py:170`) is registered in
  the process of the install command, and forgotten when it ends.
- Two `daemon start` commands may both start one, and `is_running` removes a pid file
  that it reads while it is being written (`daemon.py:181`).
- The daemon never connects with a `websockets` that has `websockets.asyncio`
  (`daemon.py:69`, section 2). With an older call that takes `extra_headers=`, a stop that
  meets it in the handshake would leave it serving without a pid file (`daemon.py:57-61`
  does not find the socket, and the reading loop at line 83 does not look at `_running`).
- Saving the settings drops a float (`config.py:146-151`), and a string with a quote or a
  backslash makes a file that `_load_toml` takes for empty (`config.py:133`): all settings
  are then at their defaults, also for the next save.
- `config.py:206` saves what came from the environment into the file, where it stays;
  `auto_cleanup` is saved and never loaded; a login with a development token keeps the
  refresh token and the user of the account before.
- A configuration manager that has been open for a while overwrites or brings back what
  another has changed, without asking: it asks about what is in its memory.
- A sync that is triggered may run next to the loop's, and may write back metadata that
  was invalidated meanwhile.

Runtime
- Two coroutines that both connect (`interceptor.py:58`): the second's connection takes
  the place of the first's, whose receive loop goes on reading the second's. A future
  that is set from another loop's thread wakes nobody.
- After an orderly close by the server `_connected` stays true, and calls are sent on a
  closed websocket until one raises; `_pending` keeps the entries of calls that timed out.
- Every proxy module opens a session, with a thread and a connection, of its own.
- Half-open, the breaker lets every call through, not one (`fallback.py:92`).
- A receiver that comes late gets None for the pieces it missed; an error message never
  ends a stream; pieces of bytes are sent as their repr (`default=str`).
- Of the keys 1 and "1" of one dictionary only one entry arrives; a tuple as a key, or a
  lambda in an argument (`serialization.py:61`: its module is on the list), raises before
  the call is sent.
- A set with a tuple in it cannot be deserialized: the tuple has become a list
  (`serialization.py:101`).
- The flag `hybrid` of a registered package is never read.
- `scheduler.py:62` looks for "npu" in the method's name and finds it in "input".

Virtual packages
- A directory that an interrupted extraction leaves counts as the layer ever after
  (`layers.py:65`), a tree copied in part as composed (86); missing layers are skipped
  (92); the simple download is not checked against a hash.
- Unmounting removes from `sys.path` a tree that another mounted package shares
  (`mount.py:38`).
- A lazy module whose first fetch fails stays empty (`loader.py:34`).

## 6. Not modelled

- *Execution scheduler*: a pure choice by names and sizes with no caller.
- *Imports that raise half way*: a local package whose import fails after it has loaded
  some of its modules leaves these in `sys.modules`, and a later registration for the
  cloud would mix them with proxies.
- *Linker* of the virtual packages: a wrapper of `ldd`, `patchelf` and a variable.
- *Layers of the cache* (`get_layer`, `store_layer`), `CloudSession.close`: nothing calls
  them. `get_module_dir` is an `execute` whose errors are swallowed. `ProxyCallable`
  builds a dotted name and `ProxyFactory` is a dictionary that nothing uses.
- *Server configuration*: read once at start; the constants of the models.
- *Authentication*: stateless; the requests of the API model are those that were let in.
- *Database*: tables and an engine that no request handler uses.
- *Executors*: wrappers of docker and a subprocess without a caller in the server.
- *Security, agent, platform detection, errors, user interface*: primitives, prompt
  routing, pure functions, classes and output, without protocol state.
- *Go service*: a health endpoint that shares nothing with the Python system.

## 7. What could come next

- The composition of `RpcExchange` with the hub, where two daemons replace each other's
  connection in the middle of a call.
- That the indexes of two processes differ only in what was stored or evicted since one
  of them was loaded.
- One process of the installer next to the doctor's verification in `PartIsNoHit`'s run.
