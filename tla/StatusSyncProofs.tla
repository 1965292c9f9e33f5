-------------------------- MODULE StatusSyncProofs --------------------------
(***************************************************************************)
(* What TLAPS proves of StatusSync, for any number of pods, of terms of    *)
(* leadership and of failed calls: the types, and who writes the status.   *)
(***************************************************************************)
EXTENDS StatusSync, TLAPS

(* A process has led before an item is in its queue or a worker is busy,   *)
(* a sync has the address of its own process to write, and a shutdown only *)
(* ever has the empty list of addresses.                                   *)
HasLed ==
  /\ \A p \in Pods : led[p] <= terms
  /\ \A t \in Threads : pc[t] # "idle" /\ t[2] # Stop => led[t[1]] > 0 /\ val[t] # {}
  /\ \A t \in Threads : t[2] = Stop => val[t] = {}

StatusInv == TypeOK /\ HasLed

---------------------------------------------------------------------------
LEMMA ThreadOf ==
  /\ \A t \in Threads : /\ t[1] \in Pods /\ t[2] \in {Stop} \cup Workers
                        /\ t = <<t[1], t[2]>>
  /\ \A p \in Pods, k \in {Stop} \cup Workers :
       /\ <<p, k>> \in Threads /\ <<p, k>>[1] = p /\ <<p, k>>[2] = k
  /\ \A k \in Workers : k # Stop
BY DEF Threads, Workers, Stop

LEMMA AddressesOfNodes ==
  /\ RunningAddresses \subseteq Addrs
  /\ \A p \in Pods : Alive(p) => RunningAddresses # {}
BY DEF RunningAddresses, Addrs

LEMMA InitStatusInv == Init => StatusInv
<1>. SUFFICES ASSUME Init PROVE StatusInv
  OBVIOUS
<1>0. /\ pc \in [Threads -> ThreadStates]
      /\ val \in [Threads -> SUBSET Addrs] /\ fresh \in [Threads -> BOOLEAN]
      /\ \A t \in Threads : pc[t] = "idle"
  BY DEF Init, ThreadStates
<1>1. TypeOK
  <2>1. \A p \in Pods : pc[<<p, Stop>>] = "idle" /\ pod[p] # "stopping"
    BY <1>0, ThreadOf DEF Init
  <2>2. /\ starts \in 0 .. MaxStarts /\ stops \in 0 .. MaxStops
        /\ terms \in 0 .. MaxTerms /\ errors \in 0 .. MaxErrors
    BY StatusAssumption DEF Init
  <2>3. /\ pod \in [Pods -> {"none", "pending", "running", "stopping"}]
        /\ leader \in Pods \cup {None} /\ led \in [Pods -> 0 .. MaxTerms]
        /\ status \subseteq Addrs /\ cached \in [Pods -> SUBSET Addrs]
        /\ queued \in [Pods -> 0 .. MaxItems] /\ down \in [Pods -> BOOLEAN]
    BY StatusAssumption DEF Init
  <2>. QED  BY <1>0, <2>1, <2>2, <2>3 DEF TypeOK
<1>2. HasLed
  BY <1>0, ThreadOf DEF Init, HasLed
<1>. QED  BY <1>1, <1>2 DEF StatusInv

---------------------------------------------------------------------------
(* Pods, the lease and the cache. *)
LEMMA PodsKeep ==
  ASSUME StatusInv, NEW p \in Pods,
         \/ CreatePod(p) \/ PodRuns(p) \/ Elect(p) \/ LoseLease
         \/ SeeStatus(p) \/ Poll(p) \/ QueueShutdown(p)
  PROVE  StatusInv'
<1>. USE ThreadOf, StatusAssumption
     DEF StatusInv, TypeOK, HasLed, Alive, podVars, leaderVars, queueVars, threadVars
<1>1. CASE CreatePod(p)
  BY <1>1 DEF CreatePod
<1>2. CASE PodRuns(p)
  BY <1>2 DEF PodRuns
<1>3. CASE Elect(p)
  BY <1>3 DEF Elect, Enqueue
<1>4. CASE LoseLease
  BY <1>4 DEF LoseLease
<1>5. CASE SeeStatus(p)
  BY <1>5 DEF SeeStatus
<1>6. CASE Poll(p)
  BY <1>6 DEF Poll, Enqueue
<1>7. CASE QueueShutdown(p)
  BY <1>7 DEF QueueShutdown
<1>. QED  BY <1>1, <1>2, <1>3, <1>4, <1>5, <1>6, <1>7

(* A thread that moves on from a state it is in, or ends. *)
LEMMA ThreadMoves ==
  ASSUME StatusInv, NEW t \in Threads, NEW s \in ThreadStates, pc[t] # "idle",
         t[2] = Stop => s # "idle",
         Goto(t, s),
         UNCHANGED val \/ (val' = [val EXCEPT ![t] = {}] /\ (t[2] # Stop => s = "idle")),
         fresh' \in [Threads -> BOOLEAN], status' \subseteq Addrs, errors' \in 0 .. MaxErrors,
         UNCHANGED <<podVars, leaderVars, cached, queueVars>>
  PROVE  StatusInv'
<1>. USE ThreadOf
     DEF StatusInv, TypeOK, HasLed, Alive, podVars, leaderVars, queueVars, threadVars
<1>1. pc' \in [Threads -> ThreadStates] /\ \A u \in Threads : u # t => pc'[u] = pc[u]
  BY DEF Goto
<1>2. pc'[t] = s
  BY DEF Goto
<1>3. val' \in [Threads -> SUBSET Addrs]
  OBVIOUS
<1>4. \A u \in Threads : pc'[u] # "idle" => Alive(u[1])'
  BY <1>1
<1>5. \A p \in Pods : pc'[<<p, Stop>>] # "idle" <=> pod'[p] = "stopping"
  <2>. SUFFICES ASSUME NEW p \in Pods
                PROVE  pc'[<<p, Stop>>] # "idle" <=> pod'[p] = "stopping"
    OBVIOUS
  <2>1. CASE <<p, Stop>> = t
    <3>1. t[2] = Stop
      BY <2>1
    <3>2. pc[<<p, Stop>>] # "idle" /\ pc'[<<p, Stop>>] # "idle"
      BY <1>2, <2>1, <3>1
    <3>. QED  BY <3>2
  <2>2. CASE <<p, Stop>> # t
    <3>1. <<p, Stop>> \in Threads
      OBVIOUS
    <3>2. pc'[<<p, Stop>>] = pc[<<p, Stop>>] /\ pod' = pod
      BY <1>1, <2>2, <3>1
    <3>. QED  BY <3>2
  <2>. QED  BY <2>1, <2>2
<1>6. HasLed'
  <2>1. \A u \in Threads : u # t => val'[u] = val[u] /\ pc'[u] = pc[u]
    BY <1>1
  <2>2. /\ t[2] # Stop => pc'[t] = "idle" \/ val'[t] = val[t]
        /\ t[2] = Stop => val'[t] = {}
    BY <1>2
  <2>. QED  BY <2>1, <2>2
<1>. QED  BY <1>1, <1>3, <1>4, <1>5, <1>6

LEMMA EndMoves ==
  ASSUME StatusInv, NEW t \in Threads, pc[t] # "idle", End(t), status' \subseteq Addrs,
         errors' \in 0 .. MaxErrors, UNCHANGED <<podVars, leaderVars, cached, queueVars>>
  PROVE  StatusInv'
<1>. DEFINE s == IF t[2] = Stop THEN "done" ELSE "idle"
<1>1. s \in ThreadStates /\ (t[2] = Stop => s # "idle") /\ (t[2] # Stop => s = "idle")
  BY DEF ThreadStates
<1>2. /\ Goto(t, s) /\ val' = [val EXCEPT ![t] = {}]
      /\ fresh' \in [Threads -> BOOLEAN]
  BY DEF End, StatusInv, TypeOK
<1>. HIDE DEF s
<1>. QED  BY <1>1, <1>2, ThreadMoves

(* The worker of the queue and the writing of the status. *)
LEMMA ThreadsKeep ==
  ASSUME StatusInv, NEW t \in Threads, ThreadStep(t) \/ UpdateFails(t)
  PROVE  StatusInv'
<1>0. /\ status \subseteq Addrs /\ errors \in 0 .. MaxErrors /\ fresh \in [Threads -> BOOLEAN]
      /\ val[t] \subseteq Addrs
      /\ {"idle", "get", "put", "done"} \subseteq ThreadStates
  BY DEF StatusInv, TypeOK, ThreadStates
<1>1. CASE Compare(t)
  <2>1. CASE End(t)
    BY <1>0, <1>1, <2>1, EndMoves DEF Compare
  <2>2. CASE Goto(t, "get") /\ UNCHANGED <<val, fresh>>
    BY <1>0, <1>1, <2>2, ThreadMoves DEF Compare
  <2>. QED  BY <1>1, <2>1, <2>2 DEF Compare
<1>2. CASE Get(t)
  BY <1>0, <1>2, ThreadMoves DEF Get
<1>3. CASE Put(t)
  <2>. DEFINE s == IF t[2] = Stop THEN "done" ELSE "idle"
  <2>1. s \in ThreadStates /\ (t[2] = Stop => s # "idle") /\ (t[2] # Stop => s = "idle")
    BY <1>0
  <2>2. /\ pc[t] # "idle" /\ Goto(t, s) /\ val' = [val EXCEPT ![t] = {}]
        /\ fresh' \in [Threads -> BOOLEAN] /\ status' \subseteq Addrs
        /\ UNCHANGED <<podVars, leaderVars, cached, queueVars, errors>>
    BY <1>0, <1>3 DEF Put
  <2>. HIDE DEF s
  <2>. QED  BY <1>0, <2>1, <2>2, ThreadMoves
<1>4. CASE UpdateFails(t)
  <2>1. errors' \in 0 .. MaxErrors
    BY <1>0, <1>4, StatusAssumption DEF UpdateFails, APIError
  <2>. QED  BY <1>0, <1>4, <2>1, EndMoves DEF UpdateFails
<1>. QED  BY <1>1, <1>2, <1>3, <1>4 DEF ThreadStep

LEMMA SyncKeeps ==
  ASSUME StatusInv, NEW p \in Pods, NEW k \in Workers, Sync(p, k) \/ SyncFails(p, k)
  PROVE  StatusInv'
<1>. USE DEF podVars, leaderVars, queueVars, threadVars
<1>1. CASE SyncFails(p, k)
  BY <1>1, StatusAssumption DEF SyncFails, APIError, StatusInv, TypeOK, HasLed, Alive
<1>2. CASE Sync(p, k)
  <2>. DEFINE t == <<p, k>>
  <2>1. /\ t \in Threads /\ t[1] = p /\ t[2] = k /\ k # Stop /\ Alive(p)
        /\ "compare" \in ThreadStates
    BY <1>2, ThreadOf DEF Sync, ThreadStates
  <2>2. led[p] > 0 /\ queued' \in [Pods -> 0 .. MaxItems]
    BY <1>2, StatusAssumption DEF Sync, StatusInv, TypeOK, Workers
  <2>3. CASE down[p]
    BY <1>2, <2>2, <2>3, ThreadOf DEF Sync, StatusInv, TypeOK, HasLed, Alive
  <2>4. CASE ~down[p]
    <3>1. /\ pc' = [pc EXCEPT ![t] = "compare"]
          /\ val' = [val EXCEPT ![t] = RunningAddresses]
          /\ UNCHANGED <<podVars, leaderVars, status, cached, down, fresh, errors>>
      BY <1>2, <2>4 DEF Sync, Goto
    <3>2. \A q \in Pods : <<q, Stop>> \in Threads /\ <<q, Stop>> # t
      BY <2>1, ThreadOf
    <3>3. \A u \in Threads : u # t => pc'[u] = pc[u] /\ val'[u] = val[u]
      BY <3>1 DEF StatusInv, TypeOK
    <3>4. val'[t] = RunningAddresses /\ RunningAddresses # {}
      BY <2>1, <3>1, AddressesOfNodes DEF StatusInv, TypeOK
    <3>. HIDE DEF t
    <3>5. HasLed'
      BY <2>1, <2>2, <3>1, <3>3, <3>4 DEF StatusInv, TypeOK, HasLed
    <3>6. TypeOK'
      <4>1. pc' \in [Threads -> ThreadStates] /\ val' \in [Threads -> SUBSET Addrs]
        BY <2>1, <3>1, AddressesOfNodes DEF StatusInv, TypeOK
      <4>2. \A u \in Threads : pc'[u] # "idle" => Alive(u[1])'
        BY <2>1, <3>1, <3>3 DEF StatusInv, TypeOK, Alive
      <4>3. \A q \in Pods : pc'[<<q, Stop>>] # "idle" <=> pod'[q] = "stopping"
        BY <3>1, <3>2, <3>3 DEF StatusInv, TypeOK
      <4>. QED  BY <2>2, <3>1, <4>1, <4>2, <4>3 DEF StatusInv, TypeOK
    <3>. QED  BY <3>5, <3>6 DEF StatusInv
  <2>. QED  BY <2>3, <2>4
<1>. QED  BY <1>1, <1>2

(* SIGTERM and the goroutine in Stop. *)
LEMMA StopKeeps ==
  ASSUME StatusInv, NEW p \in Pods,
         \/ ShutdownAddrs(p) \/ ShutdownPods(p)
         \/ ShutdownAddrsFails(p) \/ ShutdownPodsFails(p)
  PROVE  StatusInv'
<1>. DEFINE t == <<p, Stop>>
<1>0. /\ status \subseteq Addrs /\ errors \in 0 .. MaxErrors /\ fresh \in [Threads -> BOOLEAN]
      /\ t \in Threads /\ {"pods", "compare"} \subseteq ThreadStates
  BY ThreadOf DEF StatusInv, TypeOK, ThreadStates
<1>1. /\ pc[t] # "idle" /\ status' \subseteq Addrs /\ errors' \in 0 .. MaxErrors
      /\ UNCHANGED <<podVars, leaderVars, cached, queueVars>>
  BY <1>0, StatusAssumption
  DEF ShutdownAddrs, ShutdownPods, ShutdownAddrsFails, ShutdownPodsFails, APIError
<1>2. \/ End(t)
      \/ \E s \in {"pods", "compare"} : Goto(t, s) /\ UNCHANGED <<val, fresh>>
  BY DEF ShutdownAddrs, ShutdownPods, ShutdownAddrsFails, ShutdownPodsFails
<1>. HIDE DEF t
<1>. QED  BY <1>0, <1>1, <1>2, EndMoves, ThreadMoves

LEMMA SigtermKeeps ==
  ASSUME StatusInv, NEW p \in Pods, Sigterm(p)
  PROVE  StatusInv'
<1>. DEFINE t == <<p, Stop>>
<1>. USE DEF podVars, leaderVars, queueVars
<1>1. /\ pod' = [pod EXCEPT ![p] = "stopping"] /\ pc' = [pc EXCEPT ![t] = "addrs"]
      /\ pod[p] = "running" /\ stops < MaxStops /\ stops' = stops + 1
      /\ UNCHANGED <<starts, leaderVars, status, cached, queueVars, val, fresh, errors>>
  BY DEF Sigterm, Goto
<1>2. /\ t \in Threads /\ t[1] = p /\ "addrs" \in ThreadStates
      /\ t[2] = Stop
      /\ \A q \in Pods : <<q, Stop>> \in Threads /\ (<<q, Stop>> = t <=> q = p)
  BY ThreadOf DEF ThreadStates
<1>3. pc' \in [Threads -> ThreadStates] /\ pc'[t] = "addrs"
      /\ \A u \in Threads : u # t => pc'[u] = pc[u]
  BY <1>1, <1>2 DEF StatusInv, TypeOK
<1>. HIDE DEF t
<1>4. \A u \in Threads : pc'[u] # "idle" => Alive(u[1])'
  BY <1>1, <1>2, <1>3, ThreadOf DEF StatusInv, TypeOK, Alive
<1>5. \A q \in Pods : pc'[<<q, Stop>>] # "idle" <=> pod'[q] = "stopping"
  BY <1>1, <1>2, <1>3 DEF StatusInv, TypeOK
<1>6. TypeOK'
  BY <1>1, <1>3, <1>4, <1>5, StatusAssumption DEF StatusInv, TypeOK
<1>7. HasLed'
  BY <1>1, <1>2, <1>3 DEF StatusInv, TypeOK, HasLed
<1>. QED  BY <1>6, <1>7 DEF StatusInv

LEMMA ExitKeeps ==
  ASSUME StatusInv, NEW p \in Pods, Exit(p)
  PROVE  StatusInv'
<1>. USE DEF podVars, leaderVars, queueVars
<1>1. /\ pod' = [pod EXCEPT ![p] = "none"]
      /\ pc' = [t \in Threads |-> IF t[1] = p THEN "idle" ELSE pc[t]]
      /\ val' = [t \in Threads |-> IF t[1] = p THEN {} ELSE val[t]]
      /\ fresh' = [t \in Threads |-> IF t[1] = p THEN FALSE ELSE fresh[t]]
      /\ cached' = [cached EXCEPT ![p] = {}]
      /\ queued' = [queued EXCEPT ![p] = 0] /\ down' = [down EXCEPT ![p] = FALSE]
      /\ leader' = (IF leader = p THEN None ELSE leader) /\ led' = [led EXCEPT ![p] = 0]
      /\ UNCHANGED <<starts, stops, terms, status, errors>>
  BY DEF Exit
<1>2. /\ pc' \in [Threads -> ThreadStates] /\ val' \in [Threads -> SUBSET Addrs]
      /\ fresh' \in [Threads -> BOOLEAN]
  BY <1>1 DEF StatusInv, TypeOK, ThreadStates
<1>3. \A u \in Threads : pc'[u] # "idle" => Alive(u[1])'
  BY <1>1, ThreadOf DEF StatusInv, TypeOK, Alive
<1>4. \A q \in Pods : pc'[<<q, Stop>>] # "idle" <=> pod'[q] = "stopping"
  BY <1>1, ThreadOf DEF StatusInv, TypeOK
<1>5. TypeOK'
  <2>1. /\ pod' \in [Pods -> {"none", "pending", "running", "stopping"}]
        /\ leader' \in Pods \cup {None} /\ status' \subseteq Addrs
        /\ cached' \in [Pods -> SUBSET Addrs] /\ down' \in [Pods -> BOOLEAN]
    BY <1>1 DEF StatusInv, TypeOK
  <2>2. led' \in [Pods -> 0 .. MaxTerms] /\ queued' \in [Pods -> 0 .. MaxItems]
    BY <1>1, StatusAssumption DEF StatusInv, TypeOK
  <2>. QED  BY <1>1, <1>2, <1>3, <1>4, <2>1, <2>2 DEF StatusInv, TypeOK
<1>6. HasLed'
  BY <1>1, ThreadOf, StatusAssumption DEF StatusInv, TypeOK, HasLed
<1>. QED  BY <1>5, <1>6 DEF StatusInv

LEMMA NextStatusInv == StatusInv /\ [Next]_vars => StatusInv'
<1>. SUFFICES ASSUME StatusInv, [Next]_vars PROVE StatusInv'
  OBVIOUS
<1>1. CASE UNCHANGED vars
  BY <1>1 DEF vars, StatusInv, TypeOK, HasLed, Alive
<1>2. CASE LoseLease
  BY <1>2 DEF LoseLease, podVars, queueVars, threadVars, StatusInv, TypeOK, HasLed, Alive
<1>. QED
  BY <1>1, <1>2, PodsKeep, ThreadsKeep, SyncKeeps, StopKeeps, SigtermKeeps, ExitKeeps
  DEF Next, StopStep

(* Whatever starts, stops, fails and expires, the types hold; a thread is  *)
(* only ever busy in a process that is alive, and Stop only after SIGTERM. *)
THEOREM StatusTypes == Spec => []TypeOK
BY InitStatusInv, NextStatusInv, PTL DEF Spec, StatusInv

(* However late a write is, addresses are written by a process that has    *)
(* led in this life, and by no shutdown; the empty list is written by a    *)
(* shutdown (status.go:118-147), whether its process has led or not, and   *)
(* by no sync.                                                             *)
THEOREM OnlyLeadersWrite == Spec => WritersHaveLed
<1>. DEFINE Written ==
       \E p \in Pods : IF status' = {} THEN Put(<<p, Stop>>) /\ pod[p] = "stopping"
                       ELSE \E k \in Workers : Put(<<p, k>>) /\ led[p] > 0
<1>1. ASSUME StatusInv, [Next]_vars
      PROVE  [status' # status => Written]_vars
  <2>. SUFFICES ASSUME status' # status PROVE Written
    OBVIOUS
  <2>1. PICK t \in Threads : Put(t)
    BY <1>1 DEF Next, vars, LoseLease, CreatePod, PodRuns, Elect, SeeStatus, Poll, Sync, SyncFails,
                Sigterm, QueueShutdown, StopStep, ShutdownAddrs, ShutdownPods, Exit,
                ShutdownAddrsFails, ShutdownPodsFails, ThreadStep, Compare, Get, UpdateFails
  <2>2. t[1] \in Pods /\ t[2] \in {Stop} \cup Workers /\ t = <<t[1], t[2]>>
    BY ThreadOf
  <2>3. pc[t] = "put" /\ status' = val[t]
    BY <2>1 DEF Put
  <2>4. CASE t[2] = Stop
    <3>1. status' = {} /\ pod[t[1]] = "stopping"
      BY <1>1, <2>2, <2>3, <2>4 DEF StatusInv, TypeOK, HasLed
    <3>. QED  BY <2>1, <2>2, <2>4, <3>1
  <2>5. CASE t[2] # Stop
    <3>1. status' # {} /\ led[t[1]] > 0 /\ t[2] \in Workers
      BY <1>1, <2>2, <2>3, <2>5 DEF StatusInv, HasLed
    <3>. QED  BY <2>1, <2>2, <3>1
  <2>. QED  BY <2>4, <2>5
<1>. QED  BY <1>1, InitStatusInv, NextStatusInv, PTL DEF Spec, WritersHaveLed
=============================================================================
