----------------------------- MODULE StatusSync -----------------------------
(***************************************************************************)
(* The controllers' updates of the load-balancer status of an Ingress      *)
(* (internal/ingress/status/status.go): the sync of the leader and the     *)
(* removal at shutdown, of several pods that each work on a cached copy of *)
(* the Ingress.  The election is reduced to who has the lease (Election),  *)
(* the queue to the number of its items (TaskQueue).                       *)
(***************************************************************************)
EXTENDS Integers, FiniteSets

CONSTANTS Pods,
          NodeOf,      \* the address of the node a pod runs on
          None,
          MaxStarts,   \* bound: pods that are created
          MaxStops,    \* bound: pods that are stopped
          MaxTerms,    \* bound: terms of leadership
          MaxItems,    \* bound: items in a queue
          MaxErrors    \* bound: calls of the API server that fail

ASSUME StatusAssumption ==
  /\ MaxStarts \in Nat /\ MaxStops \in Nat /\ MaxTerms \in Nat
  /\ MaxItems \in Nat \ {0} /\ MaxErrors \in Nat
  /\ None \notin Pods

Addrs == {NodeOf[p] : p \in Pods}

(* Of a process, the goroutine in Stop, and the workers of syncQueue: each *)
(* term of leadership starts one more, and none ends before the queue does.*)
Stop == 0
Workers == 1 .. MaxTerms
Threads == Pods \X ({Stop} \cup Workers)

VARIABLES pod,      \* "none", "pending", "running" or, after SIGTERM, "stopping"
          leader,   \* the pod that holds the lease
          led,      \* how often each process has had it
          status,   \* the addresses in the status of the Ingress
          cached,   \* the same, in the lister of each process
          queued,   \* the number of items in syncQueue
          down,     \* whether syncQueue is shut down
          pc, val,  \* per thread, where it is and what it is to write
          fresh,    \* per thread, whether the Ingress it got is the last version
          starts, stops, terms, errors

vars == <<pod, leader, led, status, cached, queued, down, pc, val, fresh, starts, stops,
          terms, errors>>

podVars == <<pod, starts, stops>>
leaderVars == <<leader, led, terms>>
queueVars == <<queued, down>>
threadVars == <<pc, val, fresh>>

Alive(p) == pod[p] \in {"running", "stopping"}

(* runningAddresses: those of the pods in phase Running, without           *)
(* --publish-service; a pod that was sent SIGTERM still is in that phase.  *)
RunningAddresses == {NodeOf[p] : p \in {p \in Pods : Alive(p)}}

Init ==
  /\ pod = [p \in Pods |-> "none"] /\ leader = None /\ led = [p \in Pods |-> 0]
  /\ status = {} /\ cached = [p \in Pods |-> {}]
  /\ queued = [p \in Pods |-> 0] /\ down = [p \in Pods |-> FALSE]
  /\ pc = [t \in Threads |-> "idle"] /\ val = [t \in Threads |-> {}]
  /\ fresh = [t \in Threads |-> FALSE]
  /\ starts = 0 /\ stops = 0 /\ terms = 0 /\ errors = 0

---------------------------------------------------------------------------
(* Pods, the lease and the cache. *)

CreatePod(p) ==
  /\ pod[p] = "none" /\ starts < MaxStarts
  /\ pod' = [pod EXCEPT ![p] = "pending"]
  /\ starts' = starts + 1
  /\ UNCHANGED <<stops, leaderVars, status, cached, queueVars, threadVars, errors>>

(* The process starts and lists the ingresses. *)
PodRuns(p) ==
  /\ pod[p] = "pending"
  /\ pod' = [pod EXCEPT ![p] = "running"]
  /\ cached' = [cached EXCEPT ![p] = status]
  /\ UNCHANGED <<starts, stops, leaderVars, status, queueVars, threadVars, errors>>

Enqueue(p) == queued' = [queued EXCEPT ![p] = IF down[p] \/ @ = MaxItems THEN @ ELSE @ + 1]

(* OnStartedLeading: Run starts a worker and adds an item to the queue. *)
Elect(p) ==
  /\ Alive(p) /\ leader = None /\ terms < MaxTerms
  /\ leader' = p /\ led' = [led EXCEPT ![p] = @ + 1] /\ terms' = terms + 1
  /\ Enqueue(p)
  /\ UNCHANGED <<podVars, status, cached, down, threadVars, errors>>

LoseLease ==
  /\ leader # None
  /\ leader' = None
  /\ UNCHANGED <<podVars, led, terms, status, cached, queueVars, threadVars, errors>>

SeeStatus(p) ==
  /\ Alive(p) /\ cached[p] # status
  /\ cached' = [cached EXCEPT ![p] = status]
  /\ UNCHANGED <<podVars, leaderVars, status, queueVars, threadVars, errors>>

(* The poll of the leader. *)
Poll(p) ==
  /\ Alive(p) /\ leader = p /\ ~down[p] /\ queued[p] < MaxItems
  /\ Enqueue(p)
  /\ UNCHANGED <<podVars, leaderVars, status, cached, down, threadVars, errors>>

---------------------------------------------------------------------------
(* The threads.  A thread that ends forgets what it was to write. *)

Goto(t, state) == pc' = [pc EXCEPT ![t] = state]

(* Mutant of End: a goroutine in Stop goes back to where it came from. *)
EndIdle(t) ==
  /\ Goto(t, "idle")
  /\ val' = [val EXCEPT ![t] = {}]
  /\ fresh' = [fresh EXCEPT ![t] = FALSE]

End(t) ==
  /\ Goto(t, IF t[2] = Stop THEN "done" ELSE "idle")
  /\ val' = [val EXCEPT ![t] = {}]
  /\ fresh' = [fresh EXCEPT ![t] = FALSE]

APIError == errors < MaxErrors /\ errors' = errors + 1

(* sync, by the k-th worker *)
Sync(p, k) ==
  LET t == <<p, k>> IN
  /\ Alive(p) /\ k <= led[p] /\ pc[t] = "idle" /\ queued[p] > 0
  /\ queued' = [queued EXCEPT ![p] = @ - 1]
  /\ IF down[p] THEN UNCHANGED <<pc, val>>
     ELSE Goto(t, "compare") /\ val' = [val EXCEPT ![t] = RunningAddresses]
  /\ UNCHANGED <<podVars, leaderVars, status, cached, down, fresh, errors>>

(* runningAddresses fails: the item is added again. *)
SyncFails(p, k) ==
  /\ Alive(p) /\ k <= led[p] /\ pc[<<p, k>>] = "idle" /\ queued[p] > 0 /\ ~down[p]
  /\ APIError
  /\ UNCHANGED <<podVars, leaderVars, status, cached, queueVars, threadVars>>

(* Mutant of Compare: ingressSliceEqual only compares the lengths. *)
CompareLengths(t) ==
  /\ pc[t] = "compare"
  /\ IF Cardinality(cached[t[1]]) = Cardinality(val[t]) THEN End(t)
     ELSE Goto(t, "get") /\ UNCHANGED <<val, fresh>>
  /\ UNCHANGED <<podVars, leaderVars, status, cached, queueVars, errors>>

(* updateStatus: a status that is right in the cache is left alone. *)
Compare(t) ==
  /\ pc[t] = "compare"
  /\ IF cached[t[1]] = val[t] THEN End(t) ELSE Goto(t, "get") /\ UNCHANGED <<val, fresh>>
  /\ UNCHANGED <<podVars, leaderVars, status, cached, queueVars, errors>>

(* runUpdate *)
Get(t) ==
  /\ pc[t] = "get"
  /\ fresh' = [fresh EXCEPT ![t] = TRUE]
  /\ Goto(t, "put")
  /\ UNCHANGED <<podVars, leaderVars, status, cached, queueVars, val, errors>>

(* UpdateStatus: it fails if the Ingress has changed since Get. *)
Put(t) ==
  /\ pc[t] = "put"
  /\ IF fresh[t]
     THEN /\ status' = val[t]
          /\ fresh' = [u \in Threads |-> FALSE]
     ELSE UNCHANGED status /\ fresh' = [fresh EXCEPT ![t] = FALSE]
  /\ Goto(t, IF t[2] = Stop THEN "done" ELSE "idle")
  /\ val' = [val EXCEPT ![t] = {}]
  /\ UNCHANGED <<podVars, leaderVars, cached, queueVars, errors>>

(* Get or UpdateStatus fails: the error is logged or dropped. *)
UpdateFails(t) ==
  /\ pc[t] \in {"get", "put"}
  /\ APIError
  /\ End(t)
  /\ UNCHANGED <<podVars, leaderVars, status, cached, queueVars>>

---------------------------------------------------------------------------
(* Stop, as far as Shutdown of the status sync. *)

Sigterm(p) ==
  /\ pod[p] = "running" /\ stops < MaxStops
  /\ pod' = [pod EXCEPT ![p] = "stopping"]
  /\ stops' = stops + 1
  /\ Goto(<<p, Stop>>, "addrs")
  /\ UNCHANGED <<starts, leaderVars, status, cached, queueVars, val, fresh, errors>>

(* go s.syncQueue.Shutdown() *)
QueueShutdown(p) ==
  /\ pod[p] = "stopping" /\ ~down[p]
  /\ down' = [down EXCEPT ![p] = TRUE]
  /\ UNCHANGED <<podVars, leaderVars, status, cached, queued, threadVars, errors>>

(* Shutdown: more than one address, and the job is left to the next leader.*)
ShutdownAddrs(p) ==
  LET t == <<p, Stop>> IN
  /\ pc[t] = "addrs"
  /\ IF Cardinality(RunningAddresses) > 1 THEN End(t)
     ELSE Goto(t, "pods") /\ UNCHANGED <<val, fresh>>
  /\ UNCHANGED <<podVars, leaderVars, status, cached, queueVars, errors>>

ShutdownAddrsFails(p) ==
  /\ pc[<<p, Stop>>] = "addrs"
  /\ APIError
  /\ End(<<p, Stop>>)
  /\ UNCHANGED <<podVars, leaderVars, status, cached, queueVars>>

(* Mutant of ShutdownPods: updateStatus is given the running addresses. *)
ShutdownPodsWritesAddrs(p) ==
  LET t == <<p, Stop>> IN
  /\ pc[t] = "pods"
  /\ IF Cardinality({q \in Pods : pod[q] # "none"}) > 1 THEN End(t)
     ELSE Goto(t, "compare") /\ val' = [val EXCEPT ![t] = RunningAddresses] /\ UNCHANGED fresh
  /\ UNCHANGED <<podVars, leaderVars, status, cached, queueVars, errors>>

(* isRunningMultiplePods, then updateStatus with no address. *)
ShutdownPods(p) ==
  LET t == <<p, Stop>> IN
  /\ pc[t] = "pods"
  /\ IF Cardinality({q \in Pods : pod[q] # "none"}) > 1 THEN End(t)
     ELSE Goto(t, "compare") /\ UNCHANGED <<val, fresh>>
  /\ UNCHANGED <<podVars, leaderVars, status, cached, queueVars, errors>>

(* An error is taken for "no other pod". *)
ShutdownPodsFails(p) ==
  /\ pc[<<p, Stop>>] = "pods"
  /\ APIError
  /\ Goto(<<p, Stop>>, "compare")
  /\ UNCHANGED <<podVars, leaderVars, status, cached, queueVars, val, fresh>>

(* The process ends and its pod is deleted; sooner or later its lease ends.*)
Exit(p) ==
  /\ pc[<<p, Stop>>] = "done"
  /\ pod' = [pod EXCEPT ![p] = "none"]
  /\ leader' = IF leader = p THEN None ELSE leader
  /\ led' = [led EXCEPT ![p] = 0]
  /\ queued' = [queued EXCEPT ![p] = 0]
  /\ down' = [down EXCEPT ![p] = FALSE]
  /\ pc' = [t \in Threads |-> IF t[1] = p THEN "idle" ELSE pc[t]]
  /\ val' = [t \in Threads |-> IF t[1] = p THEN {} ELSE val[t]]
  /\ fresh' = [t \in Threads |-> IF t[1] = p THEN FALSE ELSE fresh[t]]
  /\ cached' = [cached EXCEPT ![p] = {}]
  /\ UNCHANGED <<starts, stops, terms, status, errors>>

---------------------------------------------------------------------------
ThreadStep(t) == Compare(t) \/ Get(t) \/ Put(t)
StopStep(p) == ShutdownAddrs(p) \/ ShutdownPods(p) \/ Exit(p)

Next ==
  \/ LoseLease
  \/ \E p \in Pods : \/ CreatePod(p) \/ PodRuns(p) \/ Elect(p) \/ SeeStatus(p) \/ Poll(p)
                     \/ \E k \in Workers : Sync(p, k) \/ SyncFails(p, k)
                     \/ Sigterm(p) \/ QueueShutdown(p) \/ StopStep(p)
                     \/ ShutdownAddrsFails(p) \/ ShutdownPodsFails(p)
  \/ \E t \in Threads : ThreadStep(t) \/ UpdateFails(t)

Spec == Init /\ [][Next]_vars

(* Goroutines run, the poll's timer fires, informers deliver, and a pod    *)
(* that was created starts.  Nothing is assumed of the election.           *)
FairSpec ==
  /\ Spec
  /\ \A p \in Pods : /\ WF_vars(PodRuns(p)) /\ WF_vars(SeeStatus(p)) /\ WF_vars(Poll(p))
                     /\ WF_vars(\E k \in Workers : Sync(p, k))
                     /\ WF_vars(QueueShutdown(p)) /\ WF_vars(StopStep(p))
  /\ \A t \in Threads : WF_vars(ThreadStep(t))

---------------------------------------------------------------------------
ThreadStates == {"idle", "addrs", "pods", "compare", "get", "put", "done"}

(* The types; a thread only runs in a process that is alive, and the       *)
(* goroutine in Stop only after SIGTERM.                                   *)
TypeOK ==
  /\ pod \in [Pods -> {"none", "pending", "running", "stopping"}]
  /\ leader \in Pods \cup {None} /\ led \in [Pods -> 0 .. MaxTerms]
  /\ status \subseteq Addrs /\ cached \in [Pods -> SUBSET Addrs]
  /\ queued \in [Pods -> 0 .. MaxItems] /\ down \in [Pods -> BOOLEAN]
  /\ pc \in [Threads -> ThreadStates]
  /\ val \in [Threads -> SUBSET Addrs] /\ fresh \in [Threads -> BOOLEAN]
  /\ \A t \in Threads : pc[t] # "idle" => Alive(t[1])
  /\ \A p \in Pods : pc[<<p, Stop>>] # "idle" <=> pod[p] = "stopping"
  /\ starts \in 0 .. MaxStarts /\ stops \in 0 .. MaxStops /\ terms \in 0 .. MaxTerms /\ errors \in 0 .. MaxErrors

(* Addresses are written only by a worker of a process that has led since  *)
(* it started (wls.go:175-177), and the status is emptied only by a        *)
(* process in Stop (status.go:118-147), which need not have led.           *)
WritersHaveLed ==
  [][status' # status =>
       \E p \in Pods : IF status' = {} THEN Put(<<p, Stop>>) /\ pod[p] = "stopping"
                       ELSE \E k \in Workers : Put(<<p, k>>) /\ led[p] > 0]_vars

(* Whatever older syncs and shutdowns of other processes still write, and  *)
(* however late the caches are, under a lasting leader the status ends up  *)
(* with the addresses of the running pods (status.go:149-162, 284-306).    *)
StatusFollows ==
  \A p \in Pods : <>[](leader = p /\ pod[p] = "running") => <>[](status = RunningAddresses)

---------------------------------------------------------------------------
(* "Shutdown stops the sync. In case the instance is the leader it will    *)
(* remove the current IP if there is no other instances running."          *)
(* (status.go:116-117): when the last pod has gone, so have the addresses. *)
RemovedAtLastShutdown == (\A p \in Pods : pod[p] = "none") => status = {}

(* The same sentence: the addresses are removed only if there is no other  *)
(* instance running when Shutdown looks.                                   *)
RemovedOnlyIfAlone ==
  [][\A p \in Pods :
       pc[<<p, Stop>>] = "pods" /\ pc'[<<p, Stop>>] = "compare"
         => \A q \in Pods \ {p} : ~Alive(q)]_vars

(* The same sentence: it is the leader that removes them, or at least an   *)
(* instance that has been the leader.                                      *)
RemovedByLeader ==
  [][status' # status /\ status' = {} => \E p \in Pods : Put(<<p, Stop>>) /\ led[p] > 0]_vars

(* "leader election is used so the update is executed only in one node"    *)
(* (status.go:78-79).                                                      *)
UpdateInOneNode ==
  \A t, u \in Pods \X Workers : pc[t] \in {"get", "put"} /\ pc[u] \in {"get", "put"} => t[1] = u[1]
=============================================================================
