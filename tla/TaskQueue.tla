----------------------------- MODULE TaskQueue -----------------------------
(***************************************************************************)
(* internal/task/queue.go: the timed work queue in front of the two sync   *)
(* functions of the controller (the configuration sync of controller.go    *)
(* and the status sync of status.go), together with the client-go          *)
(* rate-limiting workqueue it wraps, as far as the code relies on it.      *)
(*                                                                         *)
(* The sync function reads some data (the informer caches) and publishes   *)
(* what it read.  `version' counts the changes of that data and `fresh' is *)
(* the version the last successful sync published, so that "the queue      *)
(* skipped a sync it should not have skipped" is fresh < version with      *)
(* nothing left to do.                                                     *)
(***************************************************************************)
EXTENDS Integers, Sequences

CONSTANTS Workers,     \* goroutines that call Queue.Run, one per call
          Keys,        \* what fn returns for the enqueued objects
          None,        \* no Element
          Day,         \* 24 * time.Hour
          MaxClock,    \* bound: last instant
          MaxVersion,  \* bound: changes of the data
          MaxTasks,    \* bound: calls of EnqueueTask
          MaxErrors    \* bound: failing calls of sync

(* A run of the model lasts less than a day: no item waits that long.      *)
ASSUME BoundsAssumption == /\ MaxClock \in Nat /\ MaxVersion \in Nat
                           /\ MaxTasks \in Nat /\ MaxErrors \in Nat
                           /\ Day \in Nat /\ MaxClock < Day

Stamps == 0 .. MaxClock + Day

Element == [key : Keys, timestamp : Stamps]

ASSUME NoneAssumption == None \notin Element

VARIABLES
  clock,         \* time.Now().UnixNano()
  version,       \* how often the data behind sync has changed
  lastChange,    \* when it last changed (history)
  fresh,         \* the version the last successful sync published
  owed,          \* changes whose EnqueueSkippableTask call is outstanding
  tasks,         \* calls of EnqueueTask still to be made
  forced,        \* the Elements that EnqueueTask has built (history)
  caller,        \* the Element an enqueue call has built and not yet added
  queue,         \* workqueue: items in order
  dirty,         \* workqueue: items that need processing
  waiting,       \* delaying queue: items of AddRateLimited not yet due
  shuttingDown,  \* workqueue: ShutDown was called
  lastSync,      \* Queue.lastSync
  pc,            \* where each worker is
  item,          \* the Element each worker holds between Get and Done
  ts,            \* the worker's local ts
  seen,          \* the version the worker's sync call has read
  stopCh,        \* whether the stop channel given to Run is closed
  workerDone,    \* whether Queue.workerDone is closed
  waiter,        \* the goroutine in Queue.Shutdown
  panicked,      \* workerDone was closed twice
  errors         \* failing calls of sync so far

dataVars == <<version, lastChange, fresh>>
callVars == <<owed, tasks, forced, caller>>
wqVars == <<queue, dirty, waiting, shuttingDown>>
workerVars == <<lastSync, pc, item, ts, seen>>
stopVars == <<stopCh, workerDone, waiter, panicked>>
vars == <<clock, dataVars, callVars, wqVars, workerVars, stopVars, errors>>

(***************************************************************************)
(* A worker is off (Run not called), waiting in Get, has got an item, is   *)
(* inside sync before or after sync read its data, has been told to quit,  *)
(* is about to close workerDone, has returned to wait.Until, or is gone.   *)
(***************************************************************************)
Busy == {"got", "sync", "read"}
WorkerStates == Busy \cup {"off", "get", "quit", "close", "returned", "gone"}

processing == {item[w] : w \in Workers} \ {None}

---------------------------------------------------------------------------
(* The workqueue of client-go. *)

(* Add: ignored after ShutDown and for an item that is already dirty; an   *)
(* item being processed is queued again only by its Done.                  *)
Add(e) ==
  IF shuttingDown \/ e \in dirty
  THEN UNCHANGED <<queue, dirty>>
  ELSE /\ dirty' = dirty \cup {e}
       /\ queue' = IF e \in processing THEN queue ELSE Append(queue, e)

(* Done: an item that was added while it was processed goes back in line.  *)
Done(e) == queue' = IF e \in dirty THEN Append(queue, e) ELSE queue

---------------------------------------------------------------------------
Init ==
  /\ clock = 0
  /\ version = 0 /\ lastChange = 0 /\ fresh = 0
  /\ owed = 0 /\ tasks = MaxTasks /\ forced = {} /\ caller = None
  /\ queue = <<>> /\ dirty = {} /\ waiting = {} /\ shuttingDown = FALSE
  /\ lastSync = 0
  /\ pc = [w \in Workers |-> "off"]
  /\ item = [w \in Workers |-> None]
  /\ ts = [w \in Workers |-> 0]
  /\ seen = [w \in Workers |-> 0]
  /\ stopCh = [w \in Workers |-> FALSE]
  /\ workerDone = FALSE /\ waiter = "idle" /\ panicked = FALSE
  /\ errors = 0

Tick ==
  /\ clock < MaxClock
  /\ clock' = clock + 1
  /\ UNCHANGED <<dataVars, callVars, wqVars, workerVars, stopVars, errors>>

(* The data changes; the event loop of the controller will be told.        *)
Change ==
  /\ version < MaxVersion
  /\ version' = version + 1
  /\ lastChange' = clock
  /\ owed' = owed + 1
  /\ UNCHANGED <<clock, fresh, tasks, forced, caller, wqVars, workerVars, stopVars, errors>>

(* Mutants of Stamp: the day is counted twice; every item is skippable.    *)
StampTwoDays(skippable) == IF skippable THEN clock ELSE clock + 2 * Day
StampAlwaysNow(skippable) == clock

(* The time an enqueue call writes into its Element. *)
Stamp(skippable) == IF skippable THEN clock ELSE clock + Day

(* enqueue up to its call of queue.Add.  fn never fails: both queues are   *)
(* only given objects that have a key.                                     *)
enqueue(key, skippable) ==
  /\ caller = None
  /\ caller' = IF shuttingDown THEN None
               ELSE [key |-> key, timestamp |-> Stamp(skippable)]
  /\ UNCHANGED <<clock, dataVars, wqVars, workerVars, stopVars, errors>>

EnqueueTask(key) ==
  /\ tasks > 0
  /\ tasks' = tasks - 1
  /\ enqueue(key, FALSE)
  /\ forced' = forced \cup ({caller'} \ {None})
  /\ UNCHANGED owed

EnqueueSkippableTask(key) ==
  /\ owed > 0
  /\ owed' = owed - 1
  /\ enqueue(key, TRUE)
  /\ UNCHANGED <<tasks, forced>>

(* The call of queue.Add at the end of enqueue. *)
EnqueueAdd ==
  /\ caller # None
  /\ Add(caller)
  /\ caller' = None
  /\ UNCHANGED <<clock, dataVars, owed, tasks, forced, waiting, shuttingDown, workerVars,
                 stopVars, errors>>

(* The delaying queue adds an item whose back-off is over. *)
AddDelayed ==
  \E e \in waiting :
    /\ waiting' = waiting \ {e}
    /\ Add(e)
    /\ UNCHANGED <<clock, dataVars, callVars, shuttingDown, workerVars, stopVars, errors>>

---------------------------------------------------------------------------
(* The worker. *)

(* Run: wait.Until calls worker for the first time.  A later Run is made   *)
(* only after the stop channel of the earlier ones has been closed.        *)
Run(w) ==
  /\ pc[w] = "off"
  /\ \A v \in Workers : pc[v] # "off" => stopCh[v]
  /\ pc' = [pc EXCEPT ![w] = "get"]
  /\ UNCHANGED <<clock, dataVars, callVars, wqVars, lastSync, item, ts, seen, stopVars, errors>>

CloseStopCh(w) ==
  /\ pc[w] # "off" /\ ~stopCh[w]
  /\ stopCh' = [stopCh EXCEPT ![w] = TRUE]
  /\ UNCHANGED <<clock, dataVars, callVars, wqVars, workerVars, workerDone, waiter,
                 panicked, errors>>

(* Get returns an item. *)
Get(w) ==
  /\ pc[w] = "get" /\ queue # <<>>
  /\ item' = [item EXCEPT ![w] = Head(queue)]
  /\ queue' = Tail(queue)
  /\ dirty' = dirty \ {Head(queue)}
  /\ pc' = [pc EXCEPT ![w] = "got"]
  /\ UNCHANGED <<clock, dataVars, callVars, waiting, shuttingDown, lastSync, ts, seen,
                 stopVars, errors>>

(* The end of an iteration: Done, and the worker's locals are gone.        *)
Finish(w) ==
  /\ Done(item[w])
  /\ item' = [item EXCEPT ![w] = None]
  /\ ts' = [ts EXCEPT ![w] = 0]
  /\ seen' = [seen EXCEPT ![w] = 0]
  /\ pc' = [pc EXCEPT ![w] = "get"]

(* Mutant of Outdated: ties are skipped. *)
OutdatedOrEqual(e) == lastSync >= e.timestamp

(* The test that decides whether an item is skipped. *)
Outdated(e) == lastSync > e.timestamp

Skip(w) ==
  /\ pc[w] = "got" /\ Outdated(item[w])
  /\ Finish(w)
  /\ UNCHANGED <<clock, dataVars, callVars, dirty, waiting, shuttingDown, lastSync, stopVars,
                 errors>>

StartSync(w) ==
  /\ pc[w] = "got" /\ ~Outdated(item[w])
  /\ ts' = [ts EXCEPT ![w] = clock]
  /\ pc' = [pc EXCEPT ![w] = "sync"]
  /\ UNCHANGED <<clock, dataVars, callVars, wqVars, lastSync, item, seen, stopVars, errors>>

(* sync reads the data it publishes. *)
ReadData(w) ==
  /\ pc[w] = "sync"
  /\ seen' = [seen EXCEPT ![w] = version]
  /\ pc' = [pc EXCEPT ![w] = "read"]
  /\ UNCHANGED <<clock, dataVars, callVars, wqVars, lastSync, item, ts, stopVars, errors>>

(* sync returns nil: Forget, lastSync = ts, Done. *)
SyncOk(w) ==
  /\ pc[w] = "read"
  /\ fresh' = seen[w]
  /\ lastSync' = ts[w]
  /\ Finish(w)
  /\ UNCHANGED <<clock, version, lastChange, callVars, dirty, waiting, shuttingDown, stopVars,
                 errors>>

(* Mutant of SyncErr: the failed item is not queued again. *)
SyncErrForgets(w) ==
  /\ pc[w] \in {"sync", "read"} /\ errors < MaxErrors
  /\ errors' = errors + 1
  /\ Finish(w)
  /\ UNCHANGED <<clock, dataVars, callVars, dirty, waiting, shuttingDown, lastSync, stopVars>>

(* sync fails: a new Element, stamped now, is added after a back-off.      *)
SyncErr(w) ==
  /\ pc[w] \in {"sync", "read"} /\ errors < MaxErrors
  /\ errors' = errors + 1
  /\ waiting' = IF shuttingDown THEN waiting
                ELSE waiting \cup {[key |-> item[w].key, timestamp |-> clock]}
  /\ Finish(w)
  /\ UNCHANGED <<clock, dataVars, callVars, dirty, shuttingDown, lastSync, stopVars>>

(* Get reports quit: the queue was shut down and is drained. *)
GetQuit(w) ==
  /\ pc[w] = "get" /\ queue = <<>> /\ shuttingDown
  /\ pc' = [pc EXCEPT ![w] = "quit"]
  /\ UNCHANGED <<clock, dataVars, callVars, wqVars, lastSync, item, ts, seen, stopVars, errors>>

(* Mutants of isClosed: the test is missing; the test is inverted.         *)
NeverClosed(w) ==
  /\ pc[w] = "quit"
  /\ pc' = [pc EXCEPT ![w] = "close"]
  /\ UNCHANGED <<clock, dataVars, callVars, wqVars, lastSync, item, ts, seen, stopVars, errors>>
isOpen(w) ==
  /\ pc[w] = "quit"
  /\ pc' = [pc EXCEPT ![w] = IF workerDone THEN "close" ELSE "returned"]
  /\ UNCHANGED <<clock, dataVars, callVars, wqVars, lastSync, item, ts, seen, stopVars, errors>>

(* if !isClosed(t.workerDone): the test, before the close it guards.       *)
isClosed(w) ==
  /\ pc[w] = "quit"
  /\ pc' = [pc EXCEPT ![w] = IF workerDone THEN "returned" ELSE "close"]
  /\ UNCHANGED <<clock, dataVars, callVars, wqVars, lastSync, item, ts, seen, stopVars, errors>>

CloseWorkerDone(w) ==
  /\ pc[w] = "close"
  /\ panicked' = (panicked \/ workerDone)
  /\ workerDone' = TRUE
  /\ pc' = [pc EXCEPT ![w] = "returned"]
  /\ UNCHANGED <<clock, dataVars, callVars, wqVars, lastSync, item, ts, seen, stopCh, waiter,
                 errors>>

(* wait.Until: call worker again, or return when the channel is closed.    *)
Until(w) ==
  /\ pc[w] = "returned"
  /\ pc' = [pc EXCEPT ![w] = IF stopCh[w] THEN "gone" ELSE "get"]
  /\ UNCHANGED <<clock, dataVars, callVars, wqVars, lastSync, item, ts, seen, stopVars, errors>>

---------------------------------------------------------------------------
(* Shutdown, called once, from a goroutine of its own. *)
Shutdown ==
  /\ waiter = "idle"
  /\ shuttingDown' = TRUE
  /\ waiter' = "waiting"
  /\ UNCHANGED <<clock, dataVars, callVars, queue, dirty, waiting, workerVars, stopCh,
                 workerDone, panicked, errors>>

(* <-t.workerDone *)
ShutdownReturns ==
  /\ waiter = "waiting" /\ workerDone
  /\ waiter' = "done"
  /\ UNCHANGED <<clock, dataVars, callVars, wqVars, workerVars, stopCh, workerDone, panicked,
                 errors>>

---------------------------------------------------------------------------
WorkerStep(w) ==
  \/ Get(w) \/ Skip(w) \/ StartSync(w) \/ ReadData(w) \/ SyncOk(w) \/ SyncErr(w)
  \/ GetQuit(w) \/ isClosed(w) \/ CloseWorkerDone(w) \/ Until(w)

CallerStep == \/ \E k \in Keys : EnqueueTask(k)
              \/ \E k \in Keys : EnqueueSkippableTask(k)
              \/ EnqueueAdd

Next == \/ Tick
        \/ Change
        \/ CallerStep
        \/ AddDelayed
        \/ \E w \in Workers : Run(w) \/ CloseStopCh(w) \/ WorkerStep(w)
        \/ Shutdown
        \/ ShutdownReturns

Spec == Init /\ [][Next]_vars

(* The Go scheduler runs every runnable goroutine: the event loop, the     *)
(* workers, the delaying queue and the goroutine blocked on workerDone.    *)
Fairness == /\ WF_vars(CallerStep)
            /\ WF_vars(AddDelayed)
            /\ WF_vars(ShutdownReturns)
            /\ \A w \in Workers : WF_vars(Run(w)) /\ WF_vars(WorkerStep(w))

FairSpec == Spec /\ Fairness

(* time.Now().UnixNano() drops the monotonic reading of the clock, so the  *)
(* value may also step back when the host's clock is set.                  *)
ClockSet == /\ clock > 0
            /\ clock' = clock - 1
            /\ UNCHANGED <<dataVars, callVars, wqVars, workerVars, stopVars, errors>>

UnsteadySpec == Init /\ [][Next \/ ClockSet]_vars

---------------------------------------------------------------------------
(* Every variable has its type, for any set of workers. *)
TypeOK ==
  /\ clock \in 0 .. MaxClock
  /\ version \in 0 .. MaxVersion
  /\ lastChange \in 0 .. MaxClock
  /\ fresh \in 0 .. MaxVersion
  /\ owed \in 0 .. MaxVersion
  /\ tasks \in 0 .. MaxTasks
  /\ forced \subseteq Element
  /\ caller \in Element \cup {None}
  /\ queue \in Seq(Element)
  /\ dirty \subseteq Element
  /\ waiting \subseteq Element
  /\ shuttingDown \in BOOLEAN
  /\ lastSync \in 0 .. MaxClock
  /\ pc \in [Workers -> WorkerStates]
  /\ item \in [Workers -> Element \cup {None}]
  /\ ts \in [Workers -> 0 .. MaxClock]
  /\ seen \in [Workers -> 0 .. MaxVersion]
  /\ stopCh \in [Workers -> BOOLEAN]
  /\ workerDone \in BOOLEAN
  /\ waiter \in {"idle", "waiting", "done"}
  /\ panicked \in BOOLEAN
  /\ errors \in 0 .. MaxErrors

(* Nothing is left to do: no call outstanding, no item anywhere. *)
Settled == /\ owed = 0 /\ caller = None
           /\ dirty = {} /\ waiting = {} /\ processing = {}

(* Skipping items by their timestamp (worker, queue.go:118) never loses an *)
(* update: once the queue has nothing left to do, the last successful sync *)
(* has read the newest data.  The order of the stamp taken in enqueue, the *)
(* ts the worker takes after Get and the moment sync reads is what matters.*)
NoLostUpdate == Settled /\ ~shuttingDown => fresh = version

(* An item of EnqueueTask is never skipped (queue.go:81, "make sure the    *)
(* timestamp is bigger than lastSync").                                    *)
ForcedNeverSkipped ==
  [][\A w \in Workers : Skip(w) => item[w] \notin forced]_vars

(* The worker that wait.Until calls again after the shutdown never closes  *)
(* workerDone a second time, which would panic (queue.go:109-111).         *)
NoDoubleClose == ~panicked

(* "Queue manages a time work queue through an independent worker"         *)
(* (queue.go:32): at most one goroutine works on the queue at any time.    *)
OneWorker ==
  \A v, w \in Workers : pc[v] \notin {"off", "gone"} /\ pc[w] \notin {"off", "gone"} => v = w

(* With one worker the queue is a Publisher: the timestamps, the skips, the*)
(* failing syncs and their retries (queue.go:64-143) can neither publish an*)
(* older version after a newer one nor leave the newest one unpublished    *)
(* while the queue is open.                                                *)
Abstract == INSTANCE Publisher WITH published <- fresh, closed <- shuttingDown
Publishes == Abstract!FairSpec

(* Shutdown returns when a worker runs ("waits for the worker to ACK",     *)
(* queue.go:151), whatever the queue still holds.                          *)
ShutdownAcknowledged ==
  (waiter = "waiting" /\ \E w \in Workers : pc[w] # "off") ~> waiter = "done"
=============================================================================
