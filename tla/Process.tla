------------------------------ MODULE Process ------------------------------
(***************************************************************************)
(* The whole process: main (cmd/wls/main.go) from the flags to wls.Start,  *)
(* the goroutines it starts beside it, and Start and Stop (Lifecycle), in  *)
(* a container that is started again when the process ends.  The API       *)
(* server, the ports of the host and the signals are its environment.      *)
(***************************************************************************)
EXTENDS Lifecycle, FiniteSets

CONSTANTS Flags,      \* the possible flags and environments of the pod
          Steps,      \* attempts of the backoff; the code's are 10
          MaxFaults,  \* bound: outages, ports taken by others, and signals
          TakenLate,  \* bound: whether others may take a port while the process runs
          Unseen      \* ports whose holders a dial does not reach

(* version: --version; kubeConfig: a configuration of the API client can   *)
(* be built; namespace: --watch-namespace names one; podEnv: POD_NAME and  *)
(* POD_NAMESPACE are set.                                                  *)
ASSUME ProcessAssumption ==
  /\ Flags \subseteq [version : BOOLEAN, kubeConfig : BOOLEAN, namespace : BOOLEAN,
                      podEnv : BOOLEAN, httpPort : Nat]
  /\ Steps \in Nat \ {0} /\ MaxFaults \in Nat /\ TakenLate \in BOOLEAN
  /\ Unseen \subseteq Nat

DefaultPort == 8181   \* --default-server-port
HealthPort == 10254   \* --healthz-port
ProxyPort == 8080     \* the one Start listens on

VARIABLES
  flags,       \* those of this pod
  boot,        \* how far main has come; "down" when there is no process
  retries,     \* failed attempts to reach the API server
  networking,  \* k8s.IsNetworkingIngressAvailable
  labelled,    \* whether podInfo has the labels of the pod
  notified,    \* whether handleSigterm has called signal.Notify
  health,      \* whether the health server listens
  apiUp, upgraded, hasNamespace,  \* the API server answers, is 1.14, knows the namespace
  taken,       \* ports other processes listen on
  faults

mainVars == <<boot, retries, networking, labelled, notified, health>>
envVars == <<flags, apiUp, upgraded, hasNamespace, taken, faults>>
processVars == <<vars, mainVars, envVars>>

BootSteps == {"flags", "client", "version", "namespace", "networking", "controller"}
Ports == {f.httpPort : f \in Flags} \cup {DefaultPort, HealthPort, ProxyPort}

Started == boot = "started"
Dead == boot = "down" \/ ~Running

(* main at its first line. *)
MainInit ==
  /\ boot = "flags" /\ retries = 0 /\ networking = FALSE /\ labelled = FALSE
  /\ notified = FALSE /\ health = FALSE

ProcessInit ==
  /\ Init /\ MainInit
  /\ flags \in Flags
  /\ apiUp \in BOOLEAN /\ upgraded \in BOOLEAN /\ hasNamespace \in BOOLEAN
  /\ taken = {} /\ faults = 0

---------------------------------------------------------------------------
(* main.  Every step of it either comes to the next or ends the process,   *)
(* by os.Exit, klog.Fatal or a panic.                                      *)

Come(step) == boot' = step /\ UNCHANGED <<notified, health, vars, envVars>>
Die == boot' = "down" /\ UNCHANGED <<retries, networking, labelled, notified, health, vars, envVars>>

(* A port can be bound when nobody holds it.  IsPortAvailable dials it     *)
(* instead, and takes every error for "free": a holder that listens on     *)
(* another interface, or does not accept, is not seen.                     *)
CanBind(p) == p \notin taken
IsPortAvailable(p) == CanBind(p) \/ p \in Unseen

(* Mutant of ParseFlags: the ports are not checked. *)
ParseFlagsUnchecked ==
  /\ boot = "flags"
  /\ IF flags.version THEN Die
     ELSE Come("client") /\ UNCHANGED <<retries, networking, labelled>>

(* parseFlags; main exits at once for --version and on its error. *)
ParseFlags ==
  /\ boot = "flags"
  /\ IF flags.version \/ ~IsPortAvailable(flags.httpPort) \/ ~IsPortAvailable(DefaultPort)
     THEN Die
     ELSE Come("client") /\ UNCHANGED <<retries, networking, labelled>>

(* NewLocalFS, which cannot fail, and createApiserverClient as far as the  *)
(* client.                                                                 *)
CreateApiserverClient ==
  /\ boot = "client"
  /\ IF flags.kubeConfig
     THEN Come("version") /\ retries' = 0 /\ UNCHANGED <<networking, labelled>>
     ELSE Die

(* One attempt of the backoff around ServerVersion. *)
ServerVersion ==
  /\ boot = "version"
  /\ \/ apiUp /\ Come("namespace") /\ UNCHANGED <<retries, networking, labelled>>
     \/ /\ ~apiUp /\ retries + 1 < Steps
        /\ Come("version") /\ retries' = retries + 1 /\ UNCHANGED <<networking, labelled>>
     \/ ~apiUp /\ retries + 1 >= Steps /\ Die

(* The namespace to watch, if one is named; conf.DefaultService never is.  *)
CheckNamespace ==
  /\ boot = "namespace"
  /\ IF flags.namespace => apiUp /\ hasNamespace
     THEN Come("networking") /\ UNCHANGED <<retries, networking, labelled>>
     ELSE Die

(* Mutant of NetworkingIngressAvailable: no answer counts as a new server. *)
NetworkingIngressAssumed ==
  /\ boot = "networking"
  /\ Come("controller")
  /\ networking' = (apiUp => upgraded)
  /\ UNCHANGED <<retries, labelled>>

(* NetworkingIngressAvailable asks for the version again and drops the     *)
(* error: without an answer a nil pointer is followed.                     *)
NetworkingIngressAvailable ==
  /\ boot = "networking"
  /\ IF apiUp
     THEN /\ Come("controller")
          /\ networking' = upgraded
          /\ UNCHANGED <<retries, labelled>>
     ELSE Die

(* GetPodDetails drops the error of its Get; the Pod that comes with it is *)
(* empty, and not nil.                                                     *)
GetPodDetails == [err |-> ~flags.podEnv, labels |-> apiUp]

(* The collector and the controller are made, the goroutines of main       *)
(* started, and Start is called.                                           *)
NewWLSController ==
  /\ boot = "controller"
  /\ IF GetPodDetails.err THEN Die
     ELSE /\ Come("started")
          /\ labelled' = GetPodDetails.labels
          /\ UNCHANGED <<retries, networking>>

MainStep ==
  \/ ParseFlags \/ CreateApiserverClient \/ ServerVersion \/ CheckNamespace
  \/ NetworkingIngressAvailable \/ NewWLSController

---------------------------------------------------------------------------
(* The goroutines of main. *)

(* handleSigterm, as far as signal.Notify. *)
Notify ==
  /\ Started /\ Running /\ ~notified
  /\ notified' = TRUE
  /\ UNCHANGED <<boot, retries, networking, labelled, health, vars, envVars>>

(* startHTTPServer: klog.Fatal when the port is taken. *)
StartHTTPServer ==
  /\ Started /\ Running /\ ~health
  /\ IF CanBind(HealthPort)
     THEN /\ health' = TRUE
          /\ UNCHANGED <<boot, retries, networking, labelled, notified, vars, envVars>>
     ELSE Die

---------------------------------------------------------------------------
(* Start and Stop, in a process that main has brought so far. *)

Others == UNCHANGED <<mainVars, envVars>>

(* The informers list their objects; those of the ingresses need the API   *)
(* that main has chosen.                                                   *)
InformersList ==
  /\ Started /\ apiUp /\ (networking => upgraded)
  /\ CachesSync /\ Others

StartGoesOn == Started /\ StartStep /\ Others

(* ListenAndServe fails: the error is logged, and the goroutine waits.     *)
ListenFails ==
  /\ Running /\ http = "listen" /\ httpListener # "shutdown" /\ ~CanBind(ProxyPort)
  /\ http' = "wait"
  /\ UNCHANGED <<start, stop, caches, shared, requestVars, panicked>>

ServerGoesOn ==
  /\ Started /\ Others
  /\ \/ MakeChannel \/ MakeListener \/ ServeReturns \/ ServerDone
     \/ ListenAndServe /\ (httpListener = "shutdown" \/ CanBind(ProxyPort))
     \/ ListenFails

RequestArrives(r) == Started /\ Accept(r) /\ Others
RequestGoesOn(r) == Started /\ RequestStep(r) /\ Others
StopGoesOn == Started /\ StopStep /\ Others

---------------------------------------------------------------------------
(* The environment. *)

Fault == faults < MaxFaults /\ faults' = faults + 1

(* SIGTERM reaches handleSigterm. *)
SigtermHandled ==
  /\ Started /\ notified /\ Fault /\ Sigterm
  /\ UNCHANGED <<mainVars, flags, apiUp, upgraded, hasNamespace, taken>>

(* SIGTERM before signal.Notify ends the process at once, SIGKILL always. *)
Killed ==
  /\ ~Dead /\ Fault
  /\ boot' = "down"
  /\ UNCHANGED <<retries, networking, labelled, notified, health, vars, flags, apiUp, upgraded,
                 hasNamespace, taken>>

(* The container is started again, or the pod replaced. *)
Restart ==
  /\ Dead
  /\ boot' = "flags" /\ retries' = 0 /\ networking' = FALSE /\ labelled' = FALSE
  /\ notified' = FALSE /\ health' = FALSE
  /\ start' = "store" /\ http' = "none" /\ stop' = "none" /\ caches' = FALSE
  /\ client' = "nil" /\ httpListener' = "nil" /\ idleConnsClosed' = "nil"
  /\ stopCh' = FALSE /\ isShuttingDown' = FALSE
  /\ req' = [r \in Requests |-> "none"] /\ count' = 0
  /\ panicked' = FALSE
  /\ UNCHANGED envVars

APIDown ==
  /\ apiUp /\ Fault
  /\ apiUp' = FALSE
  /\ UNCHANGED <<mainVars, vars, flags, upgraded, hasNamespace, taken>>

APIUp ==
  /\ ~apiUp
  /\ apiUp' = TRUE
  /\ UNCHANGED <<mainVars, vars, flags, upgraded, hasNamespace, taken, faults>>

Upgrade ==
  /\ ~upgraded
  /\ upgraded' = TRUE
  /\ UNCHANGED <<mainVars, vars, flags, apiUp, hasNamespace, taken, faults>>

CreateNamespace ==
  /\ ~hasNamespace
  /\ hasNamespace' = TRUE
  /\ UNCHANGED <<mainVars, vars, flags, apiUp, upgraded, taken, faults>>

(* The ports this process listens on. *)
Held == IF Dead THEN {}
        ELSE {p \in {HealthPort} : health} \cup {p \in {ProxyPort} : httpListener = "serving"}

TakePort(p) ==
  /\ p \notin taken \cup Held /\ (TakenLate \/ Dead) /\ Fault
  /\ taken' = taken \cup {p}
  /\ UNCHANGED <<mainVars, vars, flags, apiUp, upgraded, hasNamespace>>

FreePort(p) ==
  /\ p \in taken
  /\ taken' = taken \ {p}
  /\ UNCHANGED <<mainVars, vars, flags, apiUp, upgraded, hasNamespace, faults>>

---------------------------------------------------------------------------
EnvNext ==
  \/ SigtermHandled \/ Killed \/ Restart
  \/ APIDown \/ APIUp \/ Upgrade \/ CreateNamespace
  \/ \E p \in Ports : TakePort(p) \/ FreePort(p)

ProcessNext ==
  \/ MainStep \/ Notify \/ StartHTTPServer
  \/ InformersList \/ StartGoesOn \/ ServerGoesOn \/ StopGoesOn
  \/ \E r \in Requests : RequestArrives(r) \/ RequestGoesOn(r)
  \/ EnvNext

ProcessSpec == ProcessInit /\ [][ProcessNext]_processVars

(* Goroutines run, the server's timeouts end every request, and the        *)
(* kubelet starts a container that has ended again.  Outages end, ports are*)
(* given back, and the namespace is created; an upgrade is not assumed.    *)
ProcessFairSpec ==
  /\ ProcessSpec
  /\ WF_processVars(MainStep) /\ WF_processVars(Notify) /\ WF_processVars(StartHTTPServer)
  /\ WF_processVars(InformersList) /\ WF_processVars(StartGoesOn)
  /\ WF_processVars(ServerGoesOn) /\ WF_processVars(StopGoesOn)
  /\ \A r \in Requests : WF_processVars(RequestGoesOn(r))
  /\ WF_processVars(Restart) /\ WF_processVars(APIUp) /\ WF_processVars(CreateNamespace)
  /\ \A p \in Ports : WF_processVars(FreePort(p))

---------------------------------------------------------------------------
(* The types; nothing of Start is under way before main has called it, and *)
(* the API main has chosen is one the server has.                          *)
ProcessTypeOK ==
  /\ flags \in Flags
  /\ boot \in BootSteps \cup {"started", "down"}
  /\ retries \in 0 .. Steps - 1
  /\ {networking, labelled, notified, health, apiUp, upgraded, hasNamespace} \subseteq BOOLEAN
  /\ taken \subseteq Ports /\ faults \in 0 .. MaxFaults
  /\ boot \in BootSteps => Init /\ ~notified /\ ~health
  /\ networking => upgraded

(* A pod with a usable configuration serves in the end, for good, whatever *)
(* outages of the API server, signals, failed attempts and fatal errors    *)
(* come before, and ports taken by a process before it, as far as a dial   *)
(* reaches the holder of the proxy's (main.go:45-127, 158-216,             *)
(* flags.go:121-128, net.go:28-35, wls.go:154-210); with any other         *)
(* configuration it never starts.                                          *)
Configured == ~flags.version /\ flags.kubeConfig /\ flags.podEnv
Serves ==
  IF Configured THEN <>[](http = "serving" /\ health) ELSE [](start = "store" /\ ~health)

(* After SIGTERM the process ends, by itself or by a panic; its requests   *)
(* cannot keep it (main.go:131-148).                                       *)
SigtermEnds == (stop # "none") ~> Dead

---------------------------------------------------------------------------
(* "Labels selectors of the running pod. This is used to search for other  *)
(* Ingress controller pods" (k8s/main.go:73-74): a controller that has     *)
(* started knows the labels of its pod.                                    *)
KnowsItsPod == Started => labelled
=============================================================================
