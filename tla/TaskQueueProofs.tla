-------------------------- MODULE TaskQueueProofs --------------------------
(***************************************************************************)
(* What TLAPS proves of TaskQueue, for every choice of the constants: the  *)
(* types and ForcedNeverSkipped for any number of workers, NoLostUpdate    *)
(* and NoDoubleClose for the single worker of the configuration queue.     *)
(***************************************************************************)
EXTENDS TaskQueue, TLAPS

(* A busy worker holds an item, and no more calls are owed than the data   *)
(* has changes: what TypeOK needs to be inductive.                         *)
TypeInv == /\ TypeOK
           /\ owed <= version
           /\ \A w \in Workers : pc[w] \in Busy => item[w] # None

(* Adding an Element keeps the workqueue well typed. *)
LEMMA AddType ==
  ASSUME TypeInv, NEW e \in Element, Add(e)
  PROVE  queue' \in Seq(Element) /\ dirty' \subseteq Element
<1>1. queue \in Seq(Element) /\ dirty \subseteq Element
  BY DEF TypeInv, TypeOK
<1>2. Append(queue, e) \in Seq(Element)
  BY <1>1
<1>. QED  BY <1>1, <1>2 DEF Add

(* So does Done, and the worker's locals are back at their initial values. *)
LEMMA FinishType ==
  ASSUME TypeInv, NEW w \in Workers, pc[w] \in Busy, Finish(w)
  PROVE  /\ queue' \in Seq(Element)
         /\ item' \in [Workers -> Element \cup {None}]
         /\ ts' \in [Workers -> 0 .. MaxClock]
         /\ seen' \in [Workers -> 0 .. MaxVersion]
         /\ pc' \in [Workers -> WorkerStates]
         /\ \A v \in Workers : pc'[v] \in Busy => item'[v] # None
<1>1. item[w] \in Element
  BY DEF TypeInv, TypeOK
<1>2. queue' \in Seq(Element)
  BY <1>1 DEF TypeInv, TypeOK, Finish, Done
<1>3. 0 \in 0 .. MaxClock /\ 0 \in 0 .. MaxVersion
  BY BoundsAssumption
<1>4. "get" \in WorkerStates /\ "get" \notin Busy
  BY DEF WorkerStates, Busy
<1>. QED  BY <1>2, <1>3, <1>4 DEF TypeInv, TypeOK, Finish

(* Every initial state is well typed. *)
LEMMA InitTypeInv == Init => TypeInv
<1>. SUFFICES ASSUME Init PROVE TypeInv
  OBVIOUS
<1>1. "off" \in WorkerStates /\ "off" \notin Busy
  BY DEF WorkerStates, Busy
<1>2. <<>> \in Seq(Element)
  OBVIOUS
<1>3. pc \in [Workers -> WorkerStates] /\ stopCh \in [Workers -> BOOLEAN]
  BY <1>1, Zenon DEF Init
<1>4. \A w \in Workers : pc[w] \notin Busy
  BY <1>1 DEF Init
<1>5. /\ item \in [Workers -> Element \cup {None}]
      /\ ts \in [Workers -> 0 .. MaxClock]
      /\ seen \in [Workers -> 0 .. MaxVersion]
  BY BoundsAssumption DEF Init
<1>6. /\ clock \in 0 .. MaxClock /\ version \in 0 .. MaxVersion /\ lastChange \in 0 .. MaxClock
      /\ fresh \in 0 .. MaxVersion /\ owed \in 0 .. MaxVersion /\ tasks \in 0 .. MaxTasks
      /\ lastSync \in 0 .. MaxClock /\ errors \in 0 .. MaxErrors /\ owed <= version
  BY BoundsAssumption DEF Init
<1>7. /\ forced \subseteq Element /\ caller \in Element \cup {None} /\ queue \in Seq(Element)
      /\ dirty \subseteq Element /\ waiting \subseteq Element
      /\ shuttingDown \in BOOLEAN /\ workerDone \in BOOLEAN /\ panicked \in BOOLEAN
      /\ waiter \in {"idle", "waiting", "done"}
  BY <1>2, Zenon DEF Init
<1>. QED  BY <1>3, <1>4, <1>5, <1>6, <1>7 DEF TypeInv, TypeOK

(* Every step keeps the types. *)
LEMMA NextTypeInv == TypeInv /\ [Next]_vars => TypeInv'
<1>. SUFFICES ASSUME TypeInv, [Next]_vars PROVE TypeInv'
  OBVIOUS
<1>. USE BoundsAssumption DEF TypeInv, TypeOK
<1>1. CASE Tick
  BY <1>1 DEF Tick, dataVars, callVars, wqVars, workerVars, stopVars
<1>2. CASE Change
  BY <1>2 DEF Change, wqVars, workerVars, stopVars
<1>3. ASSUME NEW k \in Keys, NEW b \in BOOLEAN, enqueue(k, b)
      PROVE  caller' \in Element \cup {None}
  BY <1>3 DEF enqueue, Stamp, Element, Stamps
<1>4. ASSUME NEW k \in Keys, EnqueueTask(k) PROVE TypeInv'
  <2>1. caller' \in Element \cup {None}
    BY <1>3, <1>4 DEF EnqueueTask
  <2>2. forced' \subseteq Element
    BY <2>1, <1>4 DEF EnqueueTask
  <2>3. tasks' \in 0 .. MaxTasks
    BY <1>4 DEF EnqueueTask
  <2>4. UNCHANGED <<clock, owed, dataVars, wqVars, workerVars, stopVars, errors>>
    BY <1>4 DEF EnqueueTask, enqueue
  <2>. QED  BY <2>1, <2>2, <2>3, <2>4 DEF dataVars, wqVars, workerVars, stopVars
<1>5. ASSUME NEW k \in Keys, EnqueueSkippableTask(k) PROVE TypeInv'
  <2>1. caller' \in Element \cup {None}
    BY <1>3, <1>5 DEF EnqueueSkippableTask
  <2>2. owed' \in 0 .. MaxVersion /\ owed' <= version
    BY <1>5 DEF EnqueueSkippableTask
  <2>3. UNCHANGED <<clock, tasks, forced, dataVars, wqVars, workerVars, stopVars, errors>>
    BY <1>5 DEF EnqueueSkippableTask, enqueue
  <2>. QED  BY <2>1, <2>2, <2>3 DEF dataVars, wqVars, workerVars, stopVars
<1>6. CASE EnqueueAdd
  <2>1. caller \in Element
    BY <1>6 DEF EnqueueAdd
  <2>2. queue' \in Seq(Element) /\ dirty' \subseteq Element
    BY <1>6, <2>1, AddType DEF EnqueueAdd
  <2>. QED  BY <1>6, <2>2 DEF EnqueueAdd, dataVars, workerVars, stopVars
<1>7. CASE AddDelayed
  <2>1. PICK e \in waiting : /\ waiting' = waiting \ {e}
                             /\ Add(e)
                             /\ UNCHANGED <<clock, dataVars, callVars, shuttingDown,
                                            workerVars, stopVars, errors>>
    BY <1>7 DEF AddDelayed
  <2>2. queue' \in Seq(Element) /\ dirty' \subseteq Element
    BY <2>1, AddType
  <2>. QED  BY <2>1, <2>2 DEF dataVars, callVars, workerVars, stopVars
<1>8. ASSUME NEW w \in Workers, Run(w) \/ CloseStopCh(w) \/ WorkerStep(w) PROVE TypeInv'
  <2>. USE DEF dataVars, callVars, wqVars, workerVars, stopVars
  <2>. /\ {"get", "got", "sync", "read", "quit", "close", "returned", "gone"} \subseteq WorkerStates
       /\ \A s \in {"get", "quit", "close", "returned", "gone"} : s \notin Busy
    BY DEF WorkerStates, Busy
  <2>1. CASE Run(w)
    BY <2>1 DEF Run
  <2>2. CASE CloseStopCh(w)
    BY <2>2 DEF CloseStopCh
  <2>3. CASE Get(w)
    <3>1. Head(queue) \in Element /\ Tail(queue) \in Seq(Element)
      BY <2>3 DEF Get
    <3>2. Head(queue) # None
      BY <3>1, NoneAssumption
    <3>. QED  BY <2>3, <3>1, <3>2 DEF Get
  <2>4. CASE Skip(w)
    <3>1. pc[w] \in Busy
      BY <2>4 DEF Skip, Busy
    <3>. QED  BY <2>4, <3>1, FinishType DEF Skip
  <2>5. CASE StartSync(w)
    <3>1. item[w] # None
      BY <2>5 DEF StartSync, Busy
    <3>. QED  BY <2>5, <3>1 DEF StartSync
  <2>6. CASE ReadData(w)
    <3>1. item[w] # None
      BY <2>6 DEF ReadData, Busy
    <3>. QED  BY <2>6, <3>1 DEF ReadData
  <2>7. CASE SyncOk(w)
    <3>1. pc[w] \in Busy
      BY <2>7 DEF SyncOk, Busy
    <3>. QED  BY <2>7, <3>1, FinishType DEF SyncOk
  <2>8. CASE SyncErr(w)
    <3>1. pc[w] \in Busy
      BY <2>8 DEF SyncErr, Busy
    <3>2. item[w] \in Element
      BY <3>1
    <3>3. [key |-> item[w].key, timestamp |-> clock] \in Element
      BY <3>2 DEF Element, Stamps
    <3>4. waiting' \subseteq Element
      BY <2>8, <3>3 DEF SyncErr
    <3>5. errors' \in 0 .. MaxErrors
      BY <2>8 DEF SyncErr
    <3>6. Finish(w) /\ UNCHANGED <<clock, dataVars, callVars, dirty, shuttingDown, lastSync, stopVars>>
      BY <2>8 DEF SyncErr
    <3>. QED  BY <3>1, <3>4, <3>5, <3>6, FinishType
  <2>9. CASE GetQuit(w)
    BY <2>9 DEF GetQuit
  <2>10. CASE isClosed(w)
    BY <2>10 DEF isClosed
  <2>11. CASE CloseWorkerDone(w)
    BY <2>11 DEF CloseWorkerDone
  <2>12. CASE Until(w)
    BY <2>12 DEF Until
  <2>. QED  BY <1>8, <2>1, <2>2, <2>3, <2>4, <2>5, <2>6, <2>7, <2>8, <2>9, <2>10, <2>11, <2>12
            DEF WorkerStep
<1>9. CASE Shutdown
  BY <1>9 DEF Shutdown, dataVars, callVars, workerVars
<1>10. CASE ShutdownReturns
  BY <1>10 DEF ShutdownReturns, dataVars, callVars, wqVars, workerVars
<1>11. CASE UNCHANGED vars
  BY <1>11 DEF vars, dataVars, callVars, wqVars, workerVars, stopVars
<1>. QED  BY <1>1, <1>2, <1>4, <1>5, <1>6, <1>7, <1>8, <1>9, <1>10, <1>11 DEF Next, CallerStep

(* TypeOK holds in every reachable state, for any number of workers. *)
THEOREM TypeCorrect == Spec => []TypeOK
<1>1. TypeInv => TypeOK
  BY DEF TypeInv
<1>. QED  BY <1>1, InitTypeInv, NextTypeInv, PTL DEF Spec

---------------------------------------------------------------------------
(* Forced items are stamped a day ahead and no worker's time is. *)
ForcedInv == /\ lastSync <= clock
             /\ \A w \in Workers : ts[w] <= clock
             /\ \A e \in forced : e.timestamp >= Day

(* Every step keeps ForcedInv. *)
LEMMA NextForcedInv == TypeInv /\ ForcedInv /\ [Next]_vars => ForcedInv'
<1>. SUFFICES ASSUME TypeInv, ForcedInv, [Next]_vars PROVE ForcedInv'
  OBVIOUS
<1>. USE BoundsAssumption DEF TypeInv, TypeOK, ForcedInv, dataVars, callVars, wqVars,
         workerVars, stopVars
<1>1. CASE Tick
  BY <1>1 DEF Tick
<1>2. CASE Change
  BY <1>2 DEF Change
<1>3. ASSUME NEW k \in Keys, EnqueueTask(k) PROVE ForcedInv'
  <2>1. caller' # None => caller'.timestamp = clock + Day
    BY <1>3 DEF EnqueueTask, enqueue, Stamp
  <2>2. \A e \in forced' : e.timestamp >= Day
    BY <1>3, <2>1 DEF EnqueueTask
  <2>3. UNCHANGED <<clock, lastSync, ts>>
    BY <1>3 DEF EnqueueTask, enqueue
  <2>. QED  BY <2>2, <2>3
<1>4. ASSUME NEW k \in Keys, EnqueueSkippableTask(k) PROVE ForcedInv'
  BY <1>4 DEF EnqueueSkippableTask, enqueue
<1>5. CASE EnqueueAdd
  BY <1>5 DEF EnqueueAdd
<1>6. CASE AddDelayed
  BY <1>6 DEF AddDelayed
<1>7. ASSUME NEW w \in Workers, Run(w) \/ CloseStopCh(w) \/ WorkerStep(w) PROVE ForcedInv'
  <2>1. UNCHANGED <<clock, forced>>
    BY <1>7 DEF WorkerStep, Run, CloseStopCh, Get, Skip, StartSync, ReadData, SyncOk, SyncErr,
                GetQuit, isClosed, CloseWorkerDone, Until
  <2>2. ts' = ts \/ ts' = [ts EXCEPT ![w] = clock] \/ ts' = [ts EXCEPT ![w] = 0]
    BY <1>7 DEF WorkerStep, Run, CloseStopCh, Get, Skip, StartSync, ReadData, SyncOk, SyncErr,
                GetQuit, isClosed, CloseWorkerDone, Until, Finish
  <2>3. lastSync' = lastSync \/ lastSync' = ts[w]
    BY <1>7 DEF WorkerStep, Run, CloseStopCh, Get, Skip, StartSync, ReadData, SyncOk, SyncErr,
                GetQuit, isClosed, CloseWorkerDone, Until
  <2>4. \A v \in Workers : ts'[v] <= clock
    <3>1. /\ clock \in Nat /\ ts \in [Workers -> 0 .. MaxClock]
          /\ \A v \in Workers : ts[v] <= clock
      OBVIOUS
    <3>2. \A v \in Workers : ts'[v] \in {ts[v], clock, 0}
      BY <2>2, <3>1, Zenon
    <3>. HIDE DEF TypeInv, ForcedInv
    <3>. QED  BY <3>1, <3>2
  <2>. QED  BY <2>1, <2>3, <2>4
<1>8. CASE Shutdown
  BY <1>8 DEF Shutdown
<1>9. CASE ShutdownReturns
  BY <1>9 DEF ShutdownReturns
<1>10. CASE UNCHANGED vars
  BY <1>10 DEF vars
<1>. QED  BY <1>1, <1>2, <1>3, <1>4, <1>5, <1>6, <1>7, <1>8, <1>9, <1>10 DEF Next, CallerStep

(* worker never skips an item that EnqueueTask built. *)
THEOREM ForcedTasksRun == Spec => ForcedNeverSkipped
<1>1. Init => TypeInv /\ ForcedInv
  BY InitTypeInv, BoundsAssumption DEF Init, ForcedInv
<1>2. TypeInv /\ ForcedInv /\ [Next]_vars => (TypeInv /\ ForcedInv)'
  BY NextTypeInv, NextForcedInv
<1>3. TypeInv /\ ForcedInv /\ [Next]_vars
        => [\A w \in Workers : Skip(w) => item[w] \notin forced]_vars
  <2>. SUFFICES ASSUME TypeInv, ForcedInv, NEW w \in Workers, Skip(w), item[w] \in forced
                PROVE  FALSE
    OBVIOUS
  <2>1. lastSync < Day
    BY BoundsAssumption DEF TypeInv, TypeOK, ForcedInv
  <2>2. lastSync > item[w].timestamp
    BY DEF Skip, Outdated
  <2>3. item[w] \in Element /\ item[w].timestamp >= Day
    BY DEF ForcedInv, TypeInv, TypeOK
  <2>. QED  BY <2>1, <2>2, <2>3, BoundsAssumption DEF TypeInv, TypeOK, Element, Stamps
<1>. QED  BY <1>1, <1>2, <1>3, PTL DEF Spec, ForcedNeverSkipped

---------------------------------------------------------------------------
(* The configuration queue has one worker. *)
SingleWorker == \A v, w \in Workers : v = w

(* Somebody still carries a sync that will see the newest data: a call or  *)
(* an item stamped after the last change, or a sync that read after it.    *)
Carried ==
  \/ owed > 0
  \/ caller # None /\ caller.timestamp >= lastChange
  \/ \E e \in dirty \cup waiting : e.timestamp >= lastChange
  \/ \E w \in Workers : \/ pc[w] = "got" /\ item[w].timestamp >= lastChange
                        \/ pc[w] = "sync"
                        \/ pc[w] = "read" /\ seen[w] = version

(* No time lies ahead of the clock and no reader ahead of the data; while  *)
(* the newest data is unpublished, lastSync is not past the last change,   *)
(* so an item stamped after that change is not skipped.                    *)
UpdateInv ==
  /\ lastSync <= clock /\ lastChange <= clock /\ fresh <= version
  /\ \A w \in Workers : /\ ts[w] <= clock /\ seen[w] <= version
                        /\ pc[w] = "read" => fresh <= seen[w]
                        /\ pc[w] = "read" /\ seen[w] < version => ts[w] <= lastChange
  /\ fresh < version => lastSync <= lastChange
  /\ fresh < version /\ ~shuttingDown => Carried

(* Every step keeps UpdateInv when there is a single worker.  Each case    *)
(* shows which carrier of the newest data the step leaves behind.          *)
LEMMA NextUpdateInv ==
  ASSUME SingleWorker, TypeInv, UpdateInv, [Next]_vars
  PROVE  UpdateInv'
<1>. USE BoundsAssumption DEF TypeInv, TypeOK, dataVars, callVars, wqVars, workerVars, stopVars
<1>1. CASE Tick
  BY <1>1 DEF Tick, UpdateInv, Carried
<1>2. CASE Change
  <2>1. Carried'
    BY <1>2 DEF Change, Carried
  <2>. QED  BY <1>2, <2>1 DEF Change, UpdateInv
<1>3. ASSUME NEW k \in Keys, EnqueueTask(k) PROVE UpdateInv'
  <2>1. caller = None /\ UNCHANGED <<clock, owed, dataVars, wqVars, workerVars>>
    BY <1>3 DEF EnqueueTask, enqueue
  <2>2. Carried => Carried'
    BY <2>1 DEF Carried
  <2>. QED  BY <2>1, <2>2 DEF UpdateInv
<1>4. ASSUME NEW k \in Keys, EnqueueSkippableTask(k) PROVE UpdateInv'
  <2>1. caller = None /\ UNCHANGED <<clock, dataVars, wqVars, workerVars>>
    BY <1>4 DEF EnqueueSkippableTask, enqueue
  <2>2. ~shuttingDown => caller' = [key |-> k, timestamp |-> clock]
    BY <1>4 DEF EnqueueSkippableTask, enqueue, Stamp
  <2>3. ~shuttingDown => caller' \in Element /\ caller'.timestamp >= lastChange'
    BY <2>1, <2>2 DEF UpdateInv, Element, Stamps
  <2>4. ~shuttingDown => Carried'
    BY <2>3, NoneAssumption DEF Carried
  <2>. QED  BY <2>1, <2>4 DEF UpdateInv
<1>5. CASE EnqueueAdd
  <2>1. UNCHANGED <<clock, dataVars, owed, waiting, shuttingDown, workerVars>>
    BY <1>5 DEF EnqueueAdd
  <2>2. ~shuttingDown => dirty' = dirty \cup {caller}
    BY <1>5 DEF EnqueueAdd, Add
  <2>3. ~shuttingDown /\ Carried => Carried'
    BY <2>1, <2>2 DEF Carried
  <2>. QED  BY <2>1, <2>3 DEF UpdateInv
<1>6. CASE AddDelayed
  <2>1. PICK e \in waiting : /\ waiting' = waiting \ {e}
                             /\ Add(e)
                             /\ UNCHANGED <<clock, dataVars, callVars, shuttingDown, workerVars>>
    BY <1>6 DEF AddDelayed
  <2>2. ~shuttingDown => dirty' \cup waiting' = dirty \cup waiting
    BY <2>1 DEF Add
  <2>3. ~shuttingDown /\ Carried => Carried'
    BY <2>1, <2>2 DEF Carried
  <2>. QED  BY <2>1, <2>3 DEF UpdateInv
<1>7. ASSUME NEW w \in Workers, Run(w) \/ CloseStopCh(w) \/ WorkerStep(w) PROVE UpdateInv'
  <2>. \A v \in Workers : v = w
    BY DEF SingleWorker
  <2>1. ASSUME \/ Run(w) \/ CloseStopCh(w) \/ GetQuit(w)
               \/ isClosed(w) \/ CloseWorkerDone(w) \/ Until(w)
        PROVE  UpdateInv'
    <3>1. /\ UNCHANGED <<clock, dataVars, callVars, wqVars, lastSync, item, ts, seen>>
          /\ \/ pc' = pc
             \/ pc[w] \notin Busy /\ pc'[w] \notin Busy
      <4>1. CASE Run(w)
        BY <4>1 DEF Run, Busy
      <4>2. CASE CloseStopCh(w)
        BY <4>2 DEF CloseStopCh
      <4>3. CASE GetQuit(w)
        BY <4>3 DEF GetQuit, Busy
      <4>4. CASE isClosed(w)
        BY <4>4 DEF isClosed, Busy
      <4>5. CASE CloseWorkerDone(w)
        BY <4>5 DEF CloseWorkerDone, Busy
      <4>6. CASE Until(w)
        BY <4>6 DEF Until, Busy
      <4>. QED  BY <2>1, <4>1, <4>2, <4>3, <4>4, <4>5, <4>6
    <3>2. Carried => Carried'
      BY <3>1 DEF Carried, Busy
    <3>. QED  BY <3>1, <3>2 DEF UpdateInv, Busy
  <2>2. CASE Get(w)
    <3>1. /\ item' = [item EXCEPT ![w] = Head(queue)]
          /\ dirty' = dirty \ {Head(queue)}
          /\ pc' = [pc EXCEPT ![w] = "got"]
          /\ pc[w] = "get"
          /\ UNCHANGED <<clock, dataVars, callVars, waiting, shuttingDown, lastSync, ts, seen>>
      BY <2>2 DEF Get
    <3>2. Carried => Carried'
      BY <3>1 DEF Carried
    <3>. QED  BY <3>1, <3>2 DEF UpdateInv
  <2>3. CASE Skip(w)
    <3>1. /\ pc[w] = "got" /\ lastSync > item[w].timestamp
          /\ pc' = [pc EXCEPT ![w] = "get"]
          /\ ts' = [ts EXCEPT ![w] = 0] /\ seen' = [seen EXCEPT ![w] = 0]
          /\ UNCHANGED <<clock, dataVars, callVars, dirty, waiting, shuttingDown, lastSync>>
      BY <2>3 DEF Skip, Finish, Outdated
    <3>2. item[w] \in Element
      BY <3>1 DEF Busy
    <3>3. fresh < version => ~(item[w].timestamp >= lastChange)
      BY <3>1, <3>2 DEF UpdateInv, Element, Stamps
    <3>4. fresh < version /\ Carried => Carried'
      BY <3>1, <3>3 DEF Carried
    <3>. QED  BY <3>1, <3>4 DEF UpdateInv
  <2>4. CASE StartSync(w)
    <3>1. /\ ts' = [ts EXCEPT ![w] = clock]
          /\ pc' = [pc EXCEPT ![w] = "sync"]
          /\ UNCHANGED <<clock, dataVars, callVars, wqVars, lastSync, seen>>
      BY <2>4 DEF StartSync
    <3>2. Carried'
      BY <3>1 DEF Carried
    <3>. QED  BY <3>1, <3>2 DEF UpdateInv
  <2>5. CASE ReadData(w)
    <3>1. /\ seen' = [seen EXCEPT ![w] = version]
          /\ pc' = [pc EXCEPT ![w] = "read"]
          /\ UNCHANGED <<clock, dataVars, callVars, wqVars, lastSync, ts>>
      BY <2>5 DEF ReadData
    <3>2. Carried'
      BY <3>1 DEF Carried
    <3>. QED  BY <3>1, <3>2 DEF UpdateInv
  <2>6. CASE SyncOk(w)
    <3>1. /\ pc[w] = "read" /\ fresh' = seen[w] /\ lastSync' = ts[w]
          /\ pc' = [pc EXCEPT ![w] = "get"]
          /\ ts' = [ts EXCEPT ![w] = 0] /\ seen' = [seen EXCEPT ![w] = 0]
          /\ UNCHANGED <<clock, version, lastChange, callVars, dirty, waiting, shuttingDown>>
      BY <2>6 DEF SyncOk, Finish
    <3>2. fresh' < version => fresh < version /\ seen[w] # version
      BY <3>1 DEF UpdateInv
    <3>3. fresh' < version /\ Carried => Carried'
      BY <3>1, <3>2 DEF Carried
    <3>. QED  BY <3>1, <3>2, <3>3 DEF UpdateInv
  <2>7. CASE SyncErr(w)
    <3>1. /\ pc' = [pc EXCEPT ![w] = "get"]
          /\ ts' = [ts EXCEPT ![w] = 0] /\ seen' = [seen EXCEPT ![w] = 0]
          /\ UNCHANGED <<clock, dataVars, callVars, dirty, shuttingDown, lastSync>>
          /\ ~shuttingDown => [key |-> item[w].key, timestamp |-> clock] \in waiting'
      BY <2>7 DEF SyncErr, Finish
    <3>2. ~shuttingDown => Carried'
      BY <3>1 DEF Carried, UpdateInv
    <3>. QED  BY <3>1, <3>2 DEF UpdateInv
  <2>. QED  BY <1>7, <2>1, <2>2, <2>3, <2>4, <2>5, <2>6, <2>7 DEF WorkerStep
<1>8. CASE Shutdown
  BY <1>8 DEF Shutdown, UpdateInv
<1>9. CASE ShutdownReturns
  BY <1>9 DEF ShutdownReturns, UpdateInv, Carried
<1>10. CASE UNCHANGED vars
  BY <1>10 DEF vars, UpdateInv, Carried
<1>. QED  BY <1>1, <1>2, <1>3, <1>4, <1>5, <1>6, <1>7, <1>8, <1>9, <1>10 DEF Next, CallerStep

(* With one worker, no update is lost by skipping items. *)
THEOREM UpdatesKept == SingleWorker => (Spec => []NoLostUpdate)
<1>. SUFFICES ASSUME SingleWorker PROVE Spec => []NoLostUpdate
  OBVIOUS
<1>1. Init => TypeInv /\ UpdateInv
  BY InitTypeInv, BoundsAssumption DEF Init, UpdateInv
<1>2. TypeInv /\ UpdateInv /\ [Next]_vars => (TypeInv /\ UpdateInv)'
  BY NextTypeInv, NextUpdateInv
<1>3. TypeInv /\ UpdateInv => NoLostUpdate
  <2>. SUFFICES ASSUME TypeInv, UpdateInv, Settled, ~shuttingDown PROVE fresh = version
    BY DEF NoLostUpdate
  <2>1. \A w \in Workers : item[w] = None
    BY DEF Settled, processing
  <2>2. \A w \in Workers : pc[w] \notin Busy
    BY <2>1 DEF TypeInv
  <2>3. ~Carried
    BY <2>2 DEF Settled, Carried, Busy
  <2>. QED  BY <2>3 DEF UpdateInv, TypeInv, TypeOK
<1>. QED  BY <1>1, <1>2, <1>3, PTL DEF Spec

(* A sync that succeeds publishes what it read, which is no older than what*)
(* was published before; no other step publishes anything.                 *)
LEMMA StepPublishes ==
  ASSUME SingleWorker, TypeInv, UpdateInv, [Next]_vars
  PROVE  [Abstract!Next]_Abstract!vars
<1>. USE DEF TypeInv, TypeOK, dataVars, callVars, wqVars, workerVars, stopVars, Abstract!vars
<1>1. CASE Change
  BY <1>1 DEF Change, Abstract!Next, Abstract!NewVersion
<1>2. CASE Shutdown
  BY <1>2 DEF Shutdown, Abstract!Next, Abstract!Close
<1>3. ASSUME NEW w \in Workers, SyncOk(w) PROVE [Abstract!Next]_Abstract!vars
  <2>1. pc[w] = "read" /\ fresh' = seen[w] /\ UNCHANGED <<version, shuttingDown>>
    BY <1>3 DEF SyncOk
  <2>2. fresh <= seen[w] /\ seen[w] <= version
    BY <2>1 DEF UpdateInv
  <2>3. CASE seen[w] = fresh
    BY <2>1, <2>3
  <2>4. CASE seen[w] # fresh
    <3>1. fresh < version /\ fresh' \in fresh + 1 .. version
      BY <2>1, <2>2, <2>4, BoundsAssumption
    <3>. QED  BY <2>1, <3>1 DEF Abstract!Next, Abstract!Publish
  <2>. QED  BY <2>3, <2>4
<1>4. CASE Tick \/ CallerStep \/ AddDelayed \/ ShutdownReturns
  <2>1. UNCHANGED <<version, fresh, shuttingDown>>
    BY <1>4 DEF Tick, CallerStep, EnqueueTask, EnqueueSkippableTask, EnqueueAdd, enqueue,
                AddDelayed, ShutdownReturns
  <2>. QED  BY <2>1
<1>5. ASSUME NEW w \in Workers, Run(w) \/ CloseStopCh(w) \/ (WorkerStep(w) /\ ~SyncOk(w))
      PROVE [Abstract!Next]_Abstract!vars
  <2>1. UNCHANGED <<version, fresh, shuttingDown>>
    BY <1>5 DEF Run, CloseStopCh, WorkerStep, Get, Skip, StartSync, ReadData, SyncErr, GetQuit,
                isClosed, CloseWorkerDone, Until
  <2>. QED  BY <2>1
<1>6. CASE UNCHANGED vars
  BY <1>6 DEF vars
<1>. QED  BY <1>1, <1>2, <1>3, <1>4, <1>5, <1>6 DEF Next

(* With one worker every behaviour of the queue is one of Publisher: what  *)
(* is published only gets newer and was there to be read.  That the newest *)
(* version is published in the end is the liveness part, left to TLC.      *)
THEOREM Implements == SingleWorker => (Spec => Abstract!Spec)
<1>. SUFFICES ASSUME SingleWorker PROVE Spec => Abstract!Spec
  OBVIOUS
<1>1. Init => TypeInv /\ UpdateInv /\ Abstract!Init
  BY InitTypeInv, BoundsAssumption DEF Init, UpdateInv, Abstract!Init
<1>2. TypeInv /\ UpdateInv /\ [Next]_vars => (TypeInv /\ UpdateInv)'
  BY NextTypeInv, NextUpdateInv
<1>3. TypeInv /\ UpdateInv /\ [Next]_vars => [Abstract!Next]_Abstract!vars
  BY StepPublishes
<1>. QED  BY <1>1, <1>2, <1>3, PTL DEF Spec, Abstract!Spec

---------------------------------------------------------------------------
(* A worker that is about to close workerDone has found it open. *)
CloseInv == /\ ~panicked
            /\ \A w \in Workers : pc[w] = "close" => ~workerDone

(* With one worker, workerDone is closed at most once. *)
THEOREM ClosedOnce == SingleWorker => (Spec => []NoDoubleClose)
<1>. SUFFICES ASSUME SingleWorker PROVE Spec => []NoDoubleClose
  OBVIOUS
<1>1. Init => TypeInv /\ CloseInv
  BY InitTypeInv DEF Init, CloseInv
<1>2. TypeInv /\ CloseInv /\ [Next]_vars => CloseInv'
  <2>. SUFFICES ASSUME TypeInv, CloseInv, [Next]_vars PROVE CloseInv'
    OBVIOUS
  <2>. USE DEF TypeInv, TypeOK, CloseInv, workerVars, stopVars
  <2>1. ASSUME NEW w \in Workers, Run(w) \/ CloseStopCh(w) \/ WorkerStep(w) PROVE CloseInv'
    <3>. \A v \in Workers : v = w
      BY DEF SingleWorker
    <3>1. CASE CloseWorkerDone(w)
      BY <3>1 DEF CloseWorkerDone
    <3>2. CASE isClosed(w)
      BY <3>2 DEF isClosed
    <3>3. CASE Skip(w) \/ SyncOk(w) \/ SyncErr(w)
      BY <3>3 DEF Skip, SyncOk, SyncErr, Finish
    <3>4. CASE Run(w) \/ CloseStopCh(w) \/ Get(w) \/ StartSync(w) \/ ReadData(w) \/ GetQuit(w)
               \/ Until(w)
      BY <3>4 DEF Run, CloseStopCh, Get, StartSync, ReadData, GetQuit, Until
    <3>. QED  BY <2>1, <3>1, <3>2, <3>3, <3>4 DEF WorkerStep
  <2>2. CASE Tick \/ Change \/ EnqueueAdd \/ AddDelayed \/ Shutdown \/ ShutdownReturns
    <3>1. UNCHANGED <<pc, workerDone, panicked>>
      BY <2>2 DEF Tick, Change, EnqueueAdd, AddDelayed, Shutdown, ShutdownReturns
    <3>. QED  BY <3>1
  <2>3. ASSUME NEW k \in Keys, EnqueueTask(k) \/ EnqueueSkippableTask(k) PROVE CloseInv'
    <3>1. UNCHANGED <<pc, workerDone, panicked>>
      BY <2>3 DEF EnqueueTask, EnqueueSkippableTask, enqueue
    <3>. QED  BY <3>1
  <2>4. CASE UNCHANGED vars
    BY <2>4 DEF vars
  <2>. QED  BY <2>1, <2>2, <2>3, <2>4 DEF Next, CallerStep
<1>3. CloseInv => NoDoubleClose
  BY DEF CloseInv, NoDoubleClose
<1>. QED  BY <1>1, <1>2, <1>3, NextTypeInv, PTL DEF Spec
=============================================================================
