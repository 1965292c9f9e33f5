# TLA+ models of the WLS ingress controller

`wls-ingress` is a Kubernetes ingress controller for WebLogic. Several
controller pods proxy HTTP requests; a request with a `JSESSIONID` cookie must
go to the upstream that made up the session, so the controllers share a table
of sessions in redis. This directory holds TLA+ models of that program, the TLC
configurations that check them on small instances, and TLAPS proofs of the
properties that matter most. `PROJECT.json` lists runs, mutants, the map from
definitions to source lines, findings, hazards and theorems.

Paths below are relative to `src/internal/` unless they start with `cmd/`.

## The system

| Part | State | Operations | Hard because |
|---|---|---|---|
| task queue (`task/queue.go`) | work queue, `lastSync`, `workerDone` | `EnqueueTask`, `EnqueueSkippableTask`, `worker`, `Shutdown` | items are skipped by comparing wall-clock stamps taken in different goroutines; failures are retried later; several calls of `Run` share one queue |
| redis manager (`redis/redis.go`) | the shared table, a mutex per process | `AddCookie`, `GetEndpoint`, `Clean`, `RemoveEndpoint` | a cleaning pass is many commands; other processes write between any two, each may fail |
| HTTP handler (`ingress/handler/http/handler.go`) | `targetConfig`, `proxyMap` | the root handler, `UpdateConfiguration` | the session is registered after the response; every controller has its own caches and proxies |
| sync loop (`ingress/controller/controller.go`, `wls.go`) | `runningConfig` | `syncIngress`, `OnUpdate`, the event loop of `Start` | reads one lister after the other while they change |
| configuration generation (`controller.go`, `endpoints.go`, `util.go`) and equality (`types_equals.go`, `config_equals.go`, `sets/match.go`) | none | `getConfiguration`, `Equal` | maps are walked in random order; an equal configuration is dropped |
| store (`ingress/controller/store/*.go`), annotations and class (`ingress/annotations`) | informer caches, the lister of annotated ingresses, the ring channel | event handlers, `Informer.Run`, `Extract`, `ListIngresses` | the ring drops events; watches break; the class may change in an update; an annotation may be malformed |
| leader election (`ingress/controller/status.go`) | `stopCh`, `currentLeader` | `OnStartedLeading`, `OnStoppedLeading` | the callbacks of two terms run in different goroutines and share both variables |
| status syncer (`ingress/status/status.go`) | its queue, the `Status` of the Ingress in the API server | `Run`, `sync`, `updateStatus`, `Shutdown` | old leaders, caches behind, conflicts, shutdown beside a sync |
| life cycle (`wls.go`, `cmd/wls/main.go`) | client, listener, channels | `Start`, `Stop`, `handleSigterm` | `Stop` runs beside `Start` and beside requests, without locks |
| start of the process (`cmd/wls/main.go`, `cmd/wls/flags.go`, `k8s/main.go`, `net/net.go`) | flags, API client, ports, the pod's labels | `parseFlags`, `createApiserverClient`, `startHTTPServer`, `GetPodDetails`, `NetworkingIngressAvailable` | the API server and the ports are asked at different moments; some errors end the process, some are retried, some dropped |

How they interact: informers call the store's handlers, which update the lister
and send an event into the ring; the loop in `Start` moves events into the task
queue; its worker calls `syncIngress`, which reads the listers and gives a new
configuration to the handler through `OnUpdate`, which also cleans redis in the
leader. The status syncer of the leader polls, cleans redis too and keeps the
status of the ingresses. `main` brings the process up, with a goroutine for the
health server and one for SIGTERM; `Stop` takes all of it down, and the kubelet
starts the container again.

What makes each part correct:

* queue: when nothing is left to do, the last successful sync has read the newest data; shutdown is acknowledged once.
* redis manager: a pass removes what it was told to, nothing else, and always unlocks.
* handler and cleaning: a session goes to its upstream, survives while that stays behind an ingress, and disappears afterwards.
* store and sync loop: the configuration follows the cluster; no event is lost for good; the lister holds exactly the valid ingresses, with the annotations as they were written.
* generation: each host is served by the oldest rule's service, whatever the order of maps; an unchanged cluster causes no reload.
* election: one status sync at a time on an open channel, no close of a nil or closed channel, a leader works and a non-leader knows it.
* status: under a lasting leader the status becomes the addresses of the running pods.
* life cycle: a signal ends the process, and not before accepted requests are answered.
* start: a pod with a usable configuration comes to serve, whatever failed before.

## Modules

| Module | Models | State and actions |
|---|---|---|
| `TaskQueue` | `task/queue.go` with client-go's work queue | `queue`, `dirty`, `processing` and `waiting` are the work queue; `clock` the wall clock; `version`, `fresh` count changes of the data and what the last sync read. `enqueue` is two steps (stamp, then `Add`); the worker is `Get`, `Skip` or `StartSync`, `ReadData`, `SyncOk` or `SyncErr`, and `GetQuit`, `isClosed`, `CloseWorkerDone`, `Until` at the end |
| `Publisher` | what the queue promises | `version`, `published`, `closed`: a newer version is published, never an older one, and the newest in the end |
| `RedisManager` | `redis/redis.go` | `redis` is the table by prefixed key; one thread per (process, caller) with `cpc` for its place in a pass; one action per redis command, in a succeeding and a failing form; `Crash` takes a process' threads and mutex away and leaves the table |
| `StickySessions` | `handler.go`, `OnUpdate`, `getActiveEndpoints` and the poll, several processes | extends `RedisManager`. The cluster is two logs (ingresses, endpoints of each service) of which every process has seen a prefix. A sync and a poll list the ingresses (`StartSync`, `StartPoll`) and then read one service after the other: `Reads` is what they may have found, each service at any state of the cache since the list. A sync ends in `OnUpdate` with the addresses of the ports that match, a poll in `PollClean` with all addresses of every rule's service, or in `PollGivesUp`. A request is one action per access to shared state; `CrashProcess` loses what one controller holds in memory; `Earlier` are sessions that processes of before have stored |
| `SessionService` | what the controllers promise together | `life` of a session (new, issued, stored, gone) and `route` of a request with one |
| `Annotations` | `ingress/annotations` with its parsers, errors and defaults, the class | operators over annotations whose values are lines of text with or without blanks around them |
| `SyncPipeline` | `store.go`, the event loop, `syncIngress` | extends `Annotations`. `api`, `cache` per object, `notes` per informer, `lister`, `updateCh` (its length), `dirty` (an item in the queue), and a sync of three reads |
| `ConfigGen` | generation and equality | the functions are operators over an arbitrary cluster; the order of a Go map is a choice; `syncIngress` applies them |
| `Election` | `setupLeaderElection` and the callbacks of `Start` | one goroutine of `elector.Run`, of `OnStartedLeading` and of `statusSync.Run` per term, one action per assignment, gauge or channel operation; a poll looks at its channel only between two passes |
| `StatusSync` | `ingress/status/status.go` in several pods | per pod a stopping goroutine and one worker for each term it has led (none ends before the queue does); `Compare`, `Get`, `Put` of an update are steps of their own, `fresh` says whether the version still is the last |
| `Lifecycle` | `Start`, `Stop`, `handleSigterm` | how far each of three goroutines has come, the pointers and channels they share, and the requests |
| `Process` | `main` and what it calls, the container around it | extends `Lifecycle`. `boot` is how far `main` has come, one action per call that can fail; `apiUp`, `upgraded`, `hasNamespace` and `taken` are the API server and the ports, of which `IsPortAvailable` sees only holders its dial reaches (`Unseen` are the others); `Restart` begins again |

The `*Proofs` modules extend the module they are named after and hold its
theorems (`ProcessProofs` those of `Lifecycle` too). `StickySessions` composes `RedisManager` with handlers, loops and polls, and is
proved to implement it. `Process` composes `main` and its goroutines with
`Lifecycle`. Two abstract specifications say what is promised to the outside:
`TaskQueue` implements `Publisher` (what is published is the version the last
successful sync read, and the promise ends with `Shutdown`), and
`StickySessions` implements `SessionService` (a session is issued while the
request that got it is to store it, stored while its key is in redis, and gone
when it is neither). The others abstract their neighbours: `StickySessions`
assumes that a sync follows a change (`NoLostUpdate` of `TaskQueue`,
`NoLostEvent` and `Converges` of `SyncPipeline`), `SyncPipeline` takes the
generated configuration for what it depends on (`ConfigGen` computes it),
`StatusSync` reduces the election to who has the lease and the queue to the
number of its items.

External code is modelled by what `src/` relies on: the work queue (an item is
once in line and goes back when it was added while being processed), informers
(the store is written first, handlers are called in order, deletions missed by
a broken watch come as tombstones), the elector (`OnStartedLeading` in a
goroutine, `OnStoppedLeading` before `Run` returns), redis (each command is
atomic), optimistic concurrency of the API server, `http.Server.Shutdown`.

The `MC*` modules give constants the values a configuration cannot express; `TaskQueue`
and `Election` need none. Operators called "Mutant of ..."
in a comment are the definition with a plausible bug; a mutation run puts one
in the place of the original and expects the property to fail. They are in no
specification.

## Runs

| Run | Checks | Bounds |
|---|---|---|
| `task_queue` | `TypeOK`, `NoLostUpdate`, `NoDoubleClose`, `ForcedNeverSkipped`, `Publishes`, `ShutdownAcknowledged` | 1 worker, 1 key, 3 instants, 2 changes, 1 forced item, 1 failure |
| `redis_manager` | `RedisTypeOK`, `CleanSparesListed`, `CleanComplete` | 1 process with 2 callers, 2 sessions, 2 addresses, 1 failure besides those after `Stop`, 1 expiry, 1 crash |
| `sticky_sessions` | `TypeOK`, `StickyAddress`, `StableSessionsKept` | 2 processes, 2 services, 3 sessions of 2 addresses, one of them stored before, 2 changes (an address moves to the second service, the Endpoints of the first are removed), 2 terms, 2 requests, 3 of these together (`MaxInputs`); no expiry or crash (they are in `sticky_live`) |
| `sticky_live` | `RequestsAnswered`, `StaleSessionsCleaned`, `CleanReturns`, `ServesSessions` | 1 process, 1 service, 1 session, 2 addresses, 1 change of ingresses or endpoints, 2 terms, 2 requests, 4 of these together, 1 failure, 1 expiry, 1 crash |
| `pipeline_safety` | `TypeOK`, `ListerFollows`, `NoLostEvent`, `NoConfigBeforeCaches` | 1 ingress of 3 kinds (class and annotations), 2 values of every other object, 2 changes, 1 new list, a ring of 1 |
| `pipeline_live` | `Converges` | the same with 1 change, a fourth kind of ingress, and `Stop` |
| `config_gen` | `RunningServes`, `NoIdleReload` | 2 ingresses of 4 kinds, 4 kinds of Service, 3 of Endpoints, 5 changes |
| `election` | `TypeOK`, `NoPanic`, `OnePoller`, `LeaderPolls`, `NonLeaderKnows` | 4 terms, 4 moves of the lease |
| `status_sync` | `TypeOK`, `WritersHaveLed`, `StatusFollows` | 2 pods, 2 starts, 1 stop, 2 terms, 1 failure, 1 item in a queue beside those being worked on |
| `lifecycle` | `TypeOK`, `NoRequestCutOff`, `ProcessTypeOK`, `SigtermEnds`, `Serves` | 5 configurations of the pod, 2 faults (outages, ports taken, signals), a backoff of 2 attempts, 2 requests |
| `election_flag` | `LeaderCleansOnUpdate`: violated | as `election` |
| `status_last` | `RemovedAtLastShutdown`: violated | 1 pod, 1 term, no failure |

What they show, and why the bounds are enough:

* `NoLostUpdate`: an item is skipped only if a later sync saw its change. It
  depends on the order of three clock readings, and on equal readings, which is
  why the clock ticks on its own and a second change may come in every phase of
  the first sync. The theorem covers every bound. `Publishes` says the same as a
  refinement: to its callers the queue is a `Publisher`, which knows of no
  stamps, skips or retries.
* `CleanSparesListed`, `CleanComplete`: each concerns one key and one pass, so
  two keys and two passes reach every interference. Processes that do not share
  a mutex are in `sticky_sessions`. Both are proved for all bounds.
* `StickyAddress`, `StableSessionsKept`: two controllers, one of which may know
  a change the other does not; the second term makes the other one leader while
  a pass of the first goes on. The two services let a list be torn: the first
  was read before a change and the second after another. `StableSessionsKept`
  is what the leader's cleaning guarantees: an address keeps its sessions if
  one service behind an ingress has had it all the time, whatever happens to
  it elsewhere. An address that moves from one service to another is not safe,
  although it is listed at every moment (below). That the Service is there and
  has the port of the rule is a constant (`Matched`); a Service that
  lost the port would count as one that lost its addresses. Three inputs are a change and two terms, or two changes that tear a
  list and the term that cleans with it; the theorem covers every bound.
* `ServesSessions`: a crash may fall between any two steps of a request and of a
  pass. A session may be lost that way; it never comes back and its requests
  are never sent elsewhere. One session suffices, as sessions meet only in a
  pass, which `redis_manager` covers with two.
* `CleanReturns`, `StaleSessionsCleaned`: a crash also falls in the middle of a
  pass, with the mutex held; the second term is then that of the process
  started again, and its passes finish and remove the rest.
* `NoLostEvent`, `Converges`: a ring of one drops more than one of 1024. Since
  any event causes a sync of everything, losing older events is harmless. The
  Service is left out because its changes make no event.
* `ListerFollows`: additions from the first list followed by two changes reach
  every pair of branches of the handlers. The ingresses have no annotations, a
  blank class, another class, or values with blanks, that are no number or
  belong to another controller; the lister must hold what such an ingress asks
  for, by a definition of its own that knows no parser and no error.
* `RunningServes` compares the generated configuration with a definition that
  uses sets and the oldest rule only; `NoIdleReload` needs hosts with one
  oldest ingress, as equal creation times leave the order to a map.
* `NoPanic`, `OnePoller`: with four terms up to three late goroutines overlap.
  `OnePoller` is about channels. `PollUntil` does not interrupt the function it
  calls, so a poll that was told to stop may still be in its pass, cleaning
  redis, when that of the next term begins; the mutex of the manager puts their
  passes one after the other, and the theorems about `StickySessions` hold for
  any number of polls in a process.
  `PromptStart` excludes one case: client-go starts `OnStartedLeading` in a
  goroutine and a renewal fails at the earliest 15 s later; if that goroutine
  had not made the channel by then, a nil or closed channel would be closed.
* `WritersHaveLed`: a sync only ever writes addresses, and only in a process that
  has led; a shutdown only ever empties the status, and asks for no leadership.
* `StatusFollows`: two pods suffice for an old leader's write to come late. A pod
  that leads twice has two workers, whose syncs overlap when the poll adds an
  item during the first.
* The invariants about stopping hold for a SIGTERM at any point of `Start`.
* `Serves`: the pods are usable, with or without a namespace to watch, or refused
  by `main` in one of three ways. Two faults let an outage begin after the
  backoff has succeeded, or let the API server come back at the last attempt
  and fail once more; every way out of `main` ends in a restart. Ports are taken by others
  only while the process is down, a dial reaches their holders, and
  `--http-port` is the port `Start` listens on: without these three the property
  fails (below).

Deadlock is not checked where the bounds, or a process that has ended, stop the
model (`CHECK_DEADLOCK FALSE`); `ConfigGen` can always sync.

### Fairness

Weak fairness of every goroutine's steps: the Go scheduler runs what can run.
Informers deliver what the API server has, timers of polls fire, and requests
end since the server has read and write timeouts. `Lock` of the mutex is
strongly fair: `sync.Mutex` hands over to a goroutine that waited a
millisecond. Nothing is assumed of clients, of the lease, of errors, of SIGTERM
or, in `SyncPipeline`, of the caches becoming synced; liveness of elections and of cleaning is
stated for a leader that lasts. In `Process` the kubelet starts a container that
has ended again, outages end, ports are given back and the namespace to watch
is created in the end; an upgrade of the API server is not assumed.

## Claims of the sources that do not hold

Two runs show a disagreement between a comment and the code:

* `election_flag`: wls.go:277 says the leader cleans redis immediately when the
  configuration changes. `OnStoppedLeading` starts the next `elector.Run` before
  `setLeader(false)`. If the lease record still names the process, the new term
  may call `setLeader(true)` first, and the late `false` stays for the term.
* `status_last`: status.go:116 says `Shutdown` removes the address if no other
  instance runs. A sync that has passed the test of `IsShuttingDown` writes it
  back, or a cache that has not seen the last write makes `Shutdown` skip. The
  same comment says that it is the leader that removes it, which the code does
  not test (`RemovedByLeader` below).

More statements are defined next to the models, each with a configuration that
makes TLC print the behaviour that refutes it; for three of them it is another
one with the change that is given:

| Statement | Configuration | What the code does |
|---|---|---|
| `NoLostUpdate` with a clock that is set back | `TaskQueueClockSet` | an item stamped earlier than `lastSync` is dropped (queue.go:118) |
| `OneWorker` | `TaskQueueTwoTerms` | the status queue has one worker more after each term (status.go:97) |
| `OnlyStaleCleaned` | `StickyLag` | a list made before an endpoint was seen removes that endpoint's new sessions (redis.go:52) |
| `MovedSessionsKept` | `StickyMoved` | a list is read service by service (status.go:264, controller.go:164) and misses an address that moves to a service that was read before |
| `StickyPort` | `StickyPort` | a controller without a proxy for the address uses port 7001 (handler.go:168) |
| `GoneMeansGone` | `StickyGone` | a client that is faster than `AddCookie` is told that its upstream went away (handler.go:144) |
| `ServiceUpdatesFollowed` | `PipelineService` | a change of a Service makes no event (store.go:359), against cmd/wls/flags.go:57 |
| `TombstonesDelete` | `PipelineTombstone` | a tombstone of an extensions Ingress is ignored (store.go:236) |
| `QueueWaitsForCaches` | `PipelineQueue` | the initial sync does not wait (wls.go:159), against store.go:119; `NoConfigBeforeCaches` shows that this is harmless |
| `BlankClassProcessed` | `PipelineClass` | with a class of its own the controller ignores blank ones, against class/main.go:24 |
| `AllClassesSatisfied` | `PipelineAllClasses` | without the flag only the default class is served, against cmd/wls/flags.go:48 |
| `BackendOfOwnService` | `ConfigGenNames` | names joined by dashes collide (util.go:35), against types.go:25 |
| `EveryServiceHasUpstream` | `ConfigGenPaths` | only the first path of a rule is read (controller.go:166) |
| `OnlyLeaderPolls` | `Election`, with this as its only `INVARIANT` and no `PROPERTIES` | a poll whose channel was closed is still in its function (status.go:104), against status.go:102 |
| `RemovedOnlyIfAlone` | `StatusAlone` | a failed list of pods counts as being alone (status.go:235) |
| `RemovedByLeader` | `StatusAlone`, with this as its `PROPERTY` | `Shutdown` does not ask who leads (status.go:118), against status.go:116: a pod that never led empties the status when it takes itself for the only one |
| `UpdateInOneNode` | `StatusOneNode` | an old leader's sync goes on (status.go:149), against status.go:78 |
| `StopWithoutPanic` | `LifecycleEarly` | a SIGTERM during `Start` meets a nil client or listener (wls.go:248) |
| `KnowsItsPod` | `ProcessPod` | the error of the `Get` of the pod is dropped and the empty `Pod` with it used (k8s/main.go:88), against k8s/main.go:73: the selector without labels matches every pod |
| `Serves` with another `--http-port` | `ProcessPort` | the flag's port is checked, 8080 is listened on (wls.go:197), against cmd/wls/flags.go:80 |
| `Serves` with a port taken after its check | `ProcessLate` | the error of `ListenAndServe` is only logged (wls.go:204) and the process stays healthy without serving, against wls.go:121 |
| `Serves` with a port held where a dial does not reach | `ProcessLate`, with `TakenLate = FALSE` and `Unseen = {8080}` | every error of the dial counts as "available" (net.go:29), against net.go:27; `ListenAndServe` then fails as above |
| `NoRequestFailedByStop` | `LifecycleGraceful` | redis is closed before the listener (wls.go:248), against wls.go:234 |

## Proofs

The proofs hold for every value of the constants that satisfies the named
assumptions (bounds are naturals; the names of ingresses are finitely many and
what the objects of the API server list is a sequence, `GenAssumption`; `None` is no element and no port; the names of
ingresses are no kinds of objects, and an annotation that is set has at least one
line, `ObjectsAssumption`; a run of the queue is shorter than the day by which
forced items are stamped ahead).

* `TaskQueueProofs`: `TypeCorrect` and `ForcedTasksRun` for any number of
  workers; `UpdatesKept` (`NoLostUpdate`) and `ClosedOnce` (`NoDoubleClose`) for
  one worker. `NoLostUpdate` is not inductive. `UpdateInv` adds that a change
  not yet published is *carried*: by a call still to be made, or an item in
  line, delayed or being processed whose stamp is not older than the change,
  or a sync that will read it; and that `lastSync` is not later than the
  change. `Implements`: every step is one of `Publisher` or changes nothing it
  sees (its safety part, `Abstract!Spec`). `ForcedInv` says a forced item's stamp is beyond every clock reading.
* `RedisManagerProofs`: `RedisTypeCorrect`, `SparesListed`, `PassComplete`.
  `TableInv` says an entry's value is the address that issued its session, so
  that a value read earlier still is right when `DEL` is sent; `PassInv` ties
  the entries a pass collected to the table; `SnapInv` accounts for every key
  of `KEYS`: still to be read, collected, not to be dropped, or failed;
  `MutexInv` says who holds the mutex. `NamespaceOnce` is about the prefix.
* `StickySessionsProofs`: `ImplementsRedis` (every step of the composed system
  is a step of `RedisManager` or leaves its variables alone), and from it
  `SparesListedInSystem`; `SessionsStick` (`StickyAddress`). `RequestInv` says
  that a registration carries the address its request was sent to and a session
  is registered once. `ImplementsSessions` (`ServesSessions`) follows from it,
  from `TableInv` and from `IssuedInv` (a stored session was issued), action by
  action; a crash, an expiry and a removal are all `Lose`. `StableKept`
  (`StableSessionsKept`): whatever a thread has read of a service is one of the
  states the log had since the thread began (`ReadsType`, `ReadsCover`), and logs
  only grow (`LogsGrow`, `LogsKeep`), so a list contains every address that one
  service had in all of them (`Covers`), and an address a pass may drop is one
  that no service has had all the time (`DropInv`); with `TableInv` a `DEL` of the
  pass meets no other. `StickyTypes` (`TypeOK`) needs that a request that reloads its
  proxy finds one in the table, which only a crash of its process empties
  (`ProxyInv`).
* `SyncPipelineProofs`: `PipelineTypes` (`TypeOK`), from `TypeInv`, which types
  each notification by its informer. `CachesFirst` (`NoConfigBeforeCaches`):
  `StartInv` says the ingress informer is off until the two others have synced,
  and that lister and configuration are empty until then. `EventsKept`
  (`NoLostEvent`): `EventInv` says that while there is no event in the ring and
  no item in the queue, the lister is what the last sync, or the one under way,
  has read; and that the Endpoints of the configuration are those of the store,
  unless a sync is still to read them or a notification that makes an event is
  waiting. A full ring drops an event only while it holds another, which is why
  dropping is harmless.
  `ListerCorrect` (`ListerFollows`) holds with the networking API: the handler of
  the extensions API ignores tombstones (`PipelineTombstone.cfg` shows the
  ingress that stays). `ListerInv` says that the notifications about an ingress form
  a chain (`ChainOf`): the first starts from what the lister shows, each from
  where the one before ends, the last ends at what the store holds. Lemmas about
  `Extract` (`StoredShows`, `NormalizedTexts`, `TextsOf`) give that the stored
  settings are those asked for; the copy keeps its class (`StoredValid`).
* `StatusSyncProofs`: `StatusTypes` (`TypeOK`) and `OnlyLeadersWrite`
  (`WritersHaveLed`, an action property) for any set of pods and any number of
  terms and workers. `HasLed` says that each process with a running sync has led
  in its present life, that a sync has an address to write (that of its own pod,
  at least), and that the stopping goroutine carries the empty list.
* `ElectionProofs`: `ElectionNeverPanics` (`NoPanic`) and `ElectionOnePoller`
  (`OnePoller`) for any number of terms, if `PromptStart` holds; without it
  `close(stopCh)` can meet the nil channel. `ElectionInv` follows the channel:
  `stopCh` is that of the term under way from the moment it is made, the closed
  ones are those of the terms that are over (`ChannelOfTerm`), and a poll
  belongs to a term that was led (`PollerOfTerm`), so all earlier channels are
  closed when one begins. Nothing is proved of how long a poll goes on after its
  channel is closed. `ElectionTypes` (`TypeOK`) rests on the same invariant.
* `ConfigGenProofs`: `RunningServesHosts` (`RunningServes`) and
  `NoReloadWithoutChange` (`NoIdleReload`) for any ingresses, Services and
  Endpoints, if no two services have the same `namespace-service-port`
  (`NamesDistinct`; without it `ConfigGenNames.cfg` shows the wrong backend, and
  which of two colliding upstreams stays depends on the order of the list).
  `EqualIsSameContent` is what the second rests on: on lists without
  duplicates `Compare`'s greedy search succeeds just when each element has its
  equal in the other list, so `Equal` is equality of contents. `GenInv` says that
  the running configuration is such a list (`WellFormed`) and, while in sync, says
  of every host what the rule of one of its owners says (`SaysOf`);
  that is more than `RunningServes` asks, which leaves out names, services and
  targets: by these too the next sync decides whether to replace the
  configuration.
  Along the way: `ServingRuleIsOwners` (the first rule visited is one of the
  oldest ingress), `UpstreamAgrees` (the upstream left under its name is its
  own), `ServiceEndpoints` and `GetEndpoints` (flattening, filtering and dropping
  duplicates lose no server). What the recursive functions compute is shown by
  `SetInduction`, which follows from `FS_StrictSubsetOrderingWellFounded` and takes a set in
  the place of a predicate.
* `ProcessProofs`, of `Lifecycle`: `LifecycleTypes` (`TypeOK`) and
  `LifecycleSafe` (`TypeOK`, `NoRequestCutOff`) for any set
  of requests and SIGTERM at any time. `NoRequestCutOff` needs that nothing is
  accepted from `Shutdown` on (`NothingAccepted`), hence that a listener that
  was shut down is not made again (`ListenerMade`). Of `Process`: `ProcessSafe`
  (`TypeOK`, `NoRequestCutOff`, `ProcessTypeOK`)
  for the whole process, any flags, ports and outages. A step of `Process` is a
  step of `Lifecycle`, a restart into its initial state, a failing
  `ListenAndServe`, or leaves its variables alone, so the invariant is that of
  `Lifecycle` and `ProcessTypeOK`.

Only model-checked: everything under fairness (the liveness of `Publishes`,
`ShutdownAcknowledged`, `CleanReturns`, `RequestsAnswered`,
`StaleSessionsCleaned`, `Converges`, `LeaderPolls`, `NonLeaderKnows`,
`StatusFollows`, `SigtermEnds`, `Serves`), since the provers do not reason about
`ENABLED`. Every invariant and every other action property that a passing run
checks is a theorem.

## Not modelled

* What the parsed annotations do: they are stored with the ingress and read by no
  code, so `proxy-read-timeout` and the others have no effect. `Annotations` ends
  at the lister.
* Code no caller reaches: `parseBool` and the `Denied` branch of `Extract`,
  the resolver, `removeProxy`, `IncCookieCount`, the class-lookup branch of
  the handler (a test prefix).
* Metrics beyond the gauge of the leader, which is set but not exported by
  `Collect`; version, file system, the settings of a health check that nothing
  reads, the IPv6 test: no state that other code reads.
* Conversion of an extensions Ingress (`toIngress`): an encoding to the wire format
  and back that keeps the fields read here.
* `--publish-service` in `runningAddresses`: another source of the same list. A
  node lookup that fails makes an empty address in that list; with this failure
  `StatusSync` is too large for TLC.
* Changes of a Service in `StickySessions` (`SyncPipeline` has them), and the
  stamps by which the queue of the status syncer may skip an item
  (`TaskQueue` has them).
* The pool of ten workers in `updateStatus`: with one ingress it has one job.
* Flags that only carry a value to another part are constants of its module.
* Helm chart and Dockerfile.

## Plan

Done: the inventory, the components above, the abstract specifications, one run
per question, and the proofs listed. Next, in this order:

1. `StatusSync` with several ingresses, the batch of `updateStatus` and failing
   node lookups, each of which needs a smaller instance of the rest.
2. `Election` composed with `TaskQueue` for the queue of the status syncer, to
   follow the stamps of several workers' items.
3. The Service as a third log of `StickySessions`, so that `Matched` may change.
