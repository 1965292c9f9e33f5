--------------------------- MODULE ProcessProofs ---------------------------
(***************************************************************************)
(* What TLAPS proves of Lifecycle for any set of requests, with SIGTERM at *)
(* any time: Stop does not go on, nor the process end, while a request is  *)
(* in flight.  Then of Process, for any flags, requests and bounds: what   *)
(* holds of Start and Stop survives main, fatal errors, failed listeners   *)
(* and restarts, and main calls Start only once it is through, with an API *)
(* the server has.                                                         *)
(***************************************************************************)
EXTENDS Process, TLAPS

---------------------------------------------------------------------------
(* Lifecycle: Start and Stop. *)

(* httpListener is nil until MakeListener. *)
ListenerMade == httpListener = "nil" <=> http \in {"none", "channel", "listener"}

(* From Shutdown on the listener accepts nothing, unless the process has   *)
(* panicked and does nothing any more.                                     *)
NothingAccepted ==
  stop \in {"drain", "idle", "sleep", "exited"} => panicked \/ httpListener = "shutdown"

(* Start has got further than the redis client before there is a server.   *)
MadeInOrder ==
  /\ http # "none" => start = "loop"
  /\ start \in {"http", "loop"} => client # "nil"
  /\ http \notin {"none", "channel"} => idleConnsClosed # "nil"

LifecycleInv ==
  /\ TypeOK /\ NoRequestCutOff
  /\ ~panicked => ListenerMade /\ MadeInOrder
  /\ NothingAccepted

(* Nothing is made yet, and nothing accepted. *)
LEMMA LifecycleInitially == Init => LifecycleInv
<1>. SUFFICES ASSUME Init PROVE LifecycleInv
  OBVIOUS
<1>1. TypeOK
  <2>1. {caches, stopCh, isShuttingDown, panicked} \subseteq BOOLEAN
    BY DEF Init
  <2>2. count \in 0 .. MaxRequests
    BY LifecycleAssumption DEF Init
  <2>3. req \in [Requests -> {"none", "accepted", "found", "answered", "failed"}]
    BY DEF Init
  <2>. QED  BY <2>1, <2>2, <2>3 DEF Init, TypeOK
<1>2. NoRequestCutOff /\ ListenerMade /\ NothingAccepted /\ MadeInOrder
  BY DEF Init, NoRequestCutOff, ListenerMade, NothingAccepted, MadeInOrder
<1>. QED  BY <1>1, <1>2 DEF LifecycleInv

(* Start and the server leave what Stop waits for alone. *)
LEMMA StartKeeps ==
  ASSUME LifecycleInv, CachesSync \/ StartStep \/ ServerStep
  PROVE  LifecycleInv'
<1>. USE DEF LifecycleInv, TypeOK, NoRequestCutOff, ListenerMade, NothingAccepted, MadeInOrder,
             InFlight, Running, shared, requestVars
<1>1. CASE CachesSync
  BY <1>1 DEF CachesSync
<1>2. CASE StartStep
  BY <1>2 DEF StartStep, StoreRun, StartRedis, StartHTTP
<1>3. CASE MakeChannel \/ MakeListener
  BY <1>3 DEF MakeChannel, MakeListener
<1>4. CASE ListenAndServe
  BY <1>4 DEF ListenAndServe
<1>5. CASE ServeReturns \/ ServerDone
  BY <1>5 DEF ServeReturns, ServerDone
<1>. QED  BY <1>1, <1>2, <1>3, <1>4, <1>5 DEF ServerStep

(* A request is accepted by a listener that serves, hence not after        *)
(* Shutdown; what is in flight after that only ends.                       *)
LEMMA RequestKeeps ==
  ASSUME LifecycleInv, NEW r \in Requests, Accept(r) \/ RequestStep(r)
  PROVE  LifecycleInv'
<1>. USE DEF LifecycleInv, TypeOK, NoRequestCutOff, ListenerMade, NothingAccepted, MadeInOrder,
             InFlight, Running, shared, startVars
<1>1. CASE Accept(r)
  BY <1>1, LifecycleAssumption DEF Accept
<1>2. CASE Lookup(r)
  BY <1>2 DEF Lookup
<1>3. CASE Proxied(r)
  BY <1>3 DEF Proxied
<1>4. CASE NextRequest(r)
  BY <1>4 DEF NextRequest
<1>. QED  BY <1>1, <1>2, <1>3, <1>4 DEF RequestStep

(* Stop goes on from Shutdown only when nothing is in flight. *)
LEMMA StopKeeps ==
  ASSUME LifecycleInv, Sigterm \/ StopStep
  PROVE  LifecycleInv'
<1>. USE DEF LifecycleInv, TypeOK, NoRequestCutOff, ListenerMade, NothingAccepted, MadeInOrder,
             InFlight, Running, shared, startVars, requestVars
<1>1. CASE Sigterm
  BY <1>1 DEF Sigterm
<1>2. CASE CloseStopCh
  BY <1>2 DEF CloseStopCh
<1>3. CASE StopRedis
  BY <1>3 DEF StopRedis
<1>4. CASE ShutdownListener
  BY <1>4 DEF ShutdownListener
<1>5. CASE ShutdownReturns
  BY <1>5 DEF ShutdownReturns
<1>6. CASE CloseIdle \/ Exit
  BY <1>6 DEF CloseIdle, Exit
<1>. QED  BY <1>1, <1>2, <1>3, <1>4, <1>5, <1>6 DEF StopStep

(* A step that changes nothing keeps the invariant. *)
LEMMA LifecycleStutter == LifecycleInv /\ UNCHANGED vars => LifecycleInv'
  BY DEF vars, LifecycleInv, TypeOK, NoRequestCutOff, ListenerMade, NothingAccepted,
         MadeInOrder, InFlight

(* No request is cut off by Stop and the exit of handleSigterm             *)
(* (wls.go:250-254, main.go:138-147), whenever SIGTERM arrives and         *)
(* whatever the requests are; the fields have their types, and there is no *)
(* listener without a redis client and a channel.                          *)
THEOREM LifecycleSafe == Spec => [](TypeOK /\ NoRequestCutOff)
<1>1. LifecycleInv /\ [Next]_vars => LifecycleInv'
  BY StartKeeps, RequestKeeps, StopKeeps, LifecycleStutter DEF Next
<1>2. LifecycleInv => TypeOK /\ NoRequestCutOff
  BY DEF LifecycleInv
<1>. QED  BY LifecycleInitially, <1>1, <1>2, PTL DEF Spec

(* The first half by itself: whenever SIGTERM arrives, what Start and Stop *)
(* share has its types, and a listener only exists, short of a panic, with *)
(* the channel (handler.go) and the redis client its requests need.        *)
THEOREM LifecycleTypes == Spec => []TypeOK
BY LifecycleSafe, PTL

---------------------------------------------------------------------------
(* Process: main and the process around them. *)

ProcessInv == LifecycleInv /\ ProcessTypeOK

(* The process as it is started. *)
LEMMA ProcessInitially == ProcessInit => ProcessInv
<1>. SUFFICES ASSUME ProcessInit PROVE ProcessInv
  OBVIOUS
<1>1. LifecycleInv
  BY LifecycleInitially DEF ProcessInit
<1>2. {networking, labelled, notified, health, apiUp, upgraded, hasNamespace} \subseteq BOOLEAN
  BY DEF ProcessInit, MainInit
<1>3. retries \in 0 .. Steps - 1 /\ faults \in 0 .. MaxFaults
  BY ProcessAssumption DEF ProcessInit, MainInit
<1>. QED  BY <1>1, <1>2, <1>3 DEF ProcessInv, ProcessTypeOK, ProcessInit, MainInit, BootSteps

(* Start and Stop keep their invariant when ListenAndServe fails. *)
LEMMA ListenFailsKeeps == LifecycleInv /\ ListenFails => LifecycleInv'
  BY DEF ListenFails, LifecycleInv, TypeOK, NoRequestCutOff, ListenerMade, NothingAccepted,
         MadeInOrder, InFlight, Running, shared, requestVars

(* A process that is started again is as it was at first. *)
LEMMA RestartInit == Restart => Init'
  BY DEF Restart, Init

(* What Start and Stop rest on holds again after a restart. *)
LEMMA RestartKeeps == Restart => LifecycleInv'
<1>. SUFFICES ASSUME Restart PROVE LifecycleInv'
  OBVIOUS
<1>1. TypeOK'
  <2>1. ({caches, stopCh, isShuttingDown, panicked} \subseteq BOOLEAN)'
    BY DEF Restart
  <2>2. (count \in 0 .. MaxRequests)'
    BY LifecycleAssumption DEF Restart
  <2>3. (req \in [Requests -> {"none", "accepted", "found", "answered", "failed"}])'
    BY DEF Restart
  <2>. QED  BY <2>1, <2>2, <2>3 DEF Restart, TypeOK
<1>2. (NoRequestCutOff /\ ListenerMade /\ NothingAccepted /\ MadeInOrder)'
  BY DEF Restart, NoRequestCutOff, ListenerMade, NothingAccepted, MadeInOrder
<1>. QED  BY <1>1, <1>2 DEF LifecycleInv

(* Every other step is one of Lifecycle, or leaves its variables alone.    *)
LEMMA StepLifecycle ==
  ASSUME LifecycleInv, [ProcessNext]_processVars
  PROVE  LifecycleInv'
<1>1. CASE UNCHANGED vars
  BY <1>1, LifecycleStutter
<1>2. CASE InformersList \/ StartGoesOn
  BY <1>2, StartKeeps DEF InformersList, StartGoesOn
<1>3. CASE ServerGoesOn
  BY <1>3, StartKeeps, ListenFailsKeeps DEF ServerGoesOn, ServerStep
<1>4. CASE StopGoesOn \/ SigtermHandled
  BY <1>4, StopKeeps DEF StopGoesOn, SigtermHandled
<1>5. ASSUME NEW r \in Requests, RequestArrives(r) \/ RequestGoesOn(r)
      PROVE  LifecycleInv'
  BY <1>5, RequestKeeps DEF RequestArrives, RequestGoesOn
<1>6. CASE Restart
  BY <1>6, RestartKeeps
<1>7. CASE MainStep
  BY <1>7, <1>1 DEF MainStep, ParseFlags, CreateApiserverClient, ServerVersion, CheckNamespace,
                    NetworkingIngressAvailable, NewWLSController, Come, Die
<1>8. CASE Notify \/ StartHTTPServer
  BY <1>8, <1>1 DEF Notify, StartHTTPServer, Die
<1>9. CASE Killed \/ APIDown \/ APIUp \/ Upgrade \/ CreateNamespace
  BY <1>9, <1>1 DEF Killed, APIDown, APIUp, Upgrade, CreateNamespace
<1>10. CASE \E p \in Ports : TakePort(p) \/ FreePort(p)
  BY <1>10, <1>1 DEF TakePort, FreePort
<1>11. CASE UNCHANGED processVars
  BY <1>11, <1>1 DEF processVars
<1>. QED
  BY <1>2, <1>3, <1>4, <1>5, <1>6, <1>7, <1>8, <1>9, <1>10, <1>11 DEF ProcessNext, EnvNext

(* main takes its steps with nothing of Start under way. *)
LEMMA MainTypeOK ==
  ASSUME ProcessTypeOK, MainStep
  PROVE  ProcessTypeOK'
<1>. USE DEF ProcessTypeOK, BootSteps, Come, Die, envVars
<1>1. UNCHANGED vars /\ UNCHANGED <<flags, apiUp, upgraded, hasNamespace, taken, faults, notified, health>>
  BY DEF MainStep, ParseFlags, CreateApiserverClient, ServerVersion, CheckNamespace,
         NetworkingIngressAvailable, NewWLSController
<1>2. Init => Init'
  BY <1>1 DEF Init, vars
<1>3. CASE ParseFlags \/ CreateApiserverClient \/ CheckNamespace
  BY <1>3, <1>1, <1>2, ProcessAssumption DEF ParseFlags, CreateApiserverClient, CheckNamespace
<1>4. CASE ServerVersion
  BY <1>4, <1>1, <1>2, ProcessAssumption DEF ServerVersion
<1>5. CASE NetworkingIngressAvailable
  BY <1>5, <1>1, <1>2 DEF NetworkingIngressAvailable
<1>6. CASE NewWLSController
  BY <1>6, <1>1, <1>2 DEF NewWLSController, GetPodDetails
<1>. QED  BY <1>3, <1>4, <1>5, <1>6 DEF MainStep

(* What a step of a started process leaves of main's variables. *)
LEMMA StartedTypeOK ==
  ASSUME ProcessTypeOK, Started, Others
  PROVE  ProcessTypeOK'
  BY DEF ProcessTypeOK, BootSteps, Started, Others, mainVars, envVars

(* The other steps: the environment, and the goroutines of main. *)
LEMMA EnvTypeOK ==
  ASSUME ProcessTypeOK, EnvNext \/ Notify \/ StartHTTPServer
  PROVE  ProcessTypeOK'
<1>. USE DEF ProcessTypeOK, BootSteps, envVars, mainVars
<1>1. CASE Killed
  BY <1>1, ProcessAssumption DEF Killed, Fault
<1>2. CASE APIDown \/ APIUp \/ Upgrade \/ CreateNamespace
  <2>1. Init => Init'
    BY <1>2 DEF APIDown, APIUp, Upgrade, CreateNamespace, Init, vars
  <2>2. ({networking, labelled, notified, health, apiUp, upgraded, hasNamespace} \subseteq BOOLEAN)'
    BY <1>2 DEF APIDown, APIUp, Upgrade, CreateNamespace
  <2>3. (faults \in 0 .. MaxFaults)'
    BY <1>2, ProcessAssumption DEF APIDown, APIUp, Upgrade, CreateNamespace, Fault
  <2>4. (networking => upgraded)' /\ UNCHANGED <<flags, mainVars, taken>>
    BY <1>2 DEF APIDown, APIUp, Upgrade, CreateNamespace
  <2>. QED  BY <2>1, <2>2, <2>3, <2>4
<1>3. CASE \E p \in Ports : TakePort(p) \/ FreePort(p)
  <2>1. Init => Init'
    BY <1>3 DEF TakePort, FreePort, Init, vars
  <2>. QED  BY <1>3, <2>1, ProcessAssumption DEF TakePort, FreePort, Fault
<1>4. CASE Notify \/ StartHTTPServer
  BY <1>4 DEF Notify, StartHTTPServer, Started, Die
<1>5. CASE SigtermHandled
  BY <1>5, ProcessAssumption DEF SigtermHandled, Started, Fault
<1>6. CASE Restart
  <2>1. ({networking, labelled, notified, health, apiUp, upgraded, hasNamespace} \subseteq BOOLEAN)'
    BY <1>6 DEF Restart
  <2>2. (retries \in 0 .. Steps - 1)'
    BY <1>6, ProcessAssumption DEF Restart
  <2>3. (boot = "flags" /\ ~notified /\ ~health /\ ~networking)' /\ UNCHANGED envVars
    BY <1>6 DEF Restart
  <2>. QED  BY <1>6, RestartInit, <2>1, <2>2, <2>3
<1>. QED  BY <1>1, <1>2, <1>3, <1>4, <1>5, <1>6 DEF EnvNext

(* A step that changes nothing. *)
LEMMA ProcessStutter == ProcessTypeOK /\ UNCHANGED processVars => ProcessTypeOK'
  BY DEF ProcessTypeOK, processVars, vars, mainVars, envVars, Init

(* No request is cut off by Stop and the exit of handleSigterm             *)
(* (wls.go:250-254, main.go:131-148), and nothing of Start is under way    *)
(* before main is through (main.go:45-127), in every life of the process,  *)
(* whatever fails, is killed or is taken while it starts and runs.         *)
THEOREM ProcessSafe == ProcessSpec => [](TypeOK /\ NoRequestCutOff /\ ProcessTypeOK)
<1>1. ProcessInv /\ [ProcessNext]_processVars => ProcessInv'
  <2>. SUFFICES ASSUME ProcessInv, [ProcessNext]_processVars
                PROVE  ProcessInv'
    OBVIOUS
  <2>1. LifecycleInv'
    BY StepLifecycle DEF ProcessInv
  <2>2. ProcessTypeOK'
    BY MainTypeOK, StartedTypeOK, EnvTypeOK, ProcessStutter
       DEF ProcessInv, ProcessNext, InformersList, StartGoesOn, ServerGoesOn, StopGoesOn,
           RequestArrives, RequestGoesOn
  <2>. QED  BY <2>1, <2>2 DEF ProcessInv
<1>2. ProcessInv => TypeOK /\ NoRequestCutOff /\ ProcessTypeOK
  BY DEF ProcessInv, LifecycleInv
<1>. QED  BY ProcessInitially, <1>1, <1>2, PTL DEF ProcessSpec
=============================================================================
