---------------------------- MODULE SyncPipeline ----------------------------
(***************************************************************************)
(* From the cluster to the running configuration of one controller: the    *)
(* informers and event handlers of internal/ingress/controller/store       *)
(* (store.go), with the ingress class and the parsed annotations of        *)
(* Annotations, the ring channel and event loop of Start (wls.go), and the *)
(* sync that reads the listers (controller.go).                            *)
(*                                                                         *)
(* The queue between the event loop and the sync is reduced to the flag    *)
(* `dirty': TaskQueue shows that an item that was added after a sync began *)
(* is followed by another sync.  What the sync computes is kept as the     *)
(* tuple of what it read; ConfigGen models the computation.                *)
(***************************************************************************)
EXTENDS Annotations

CONSTANTS Ingresses,     \* names of Ingress objects
          IngressValues, \* what an Ingress may be
          Values,        \* what the spec, subsets or phase of another object may be
          API,           \* "networking" or "extensions" Ingress objects
          InitAPI,       \* what the cluster may hold at first
          RingSize,      \* capacity of updateCh (1024)
          None,          \* no object
          MaxChanges,    \* bound: changes of objects
          MaxServiceChanges, \* bound: those of the Service
          MaxRelists,    \* bound: objects listed again after a lost watch
          MayStop        \* bound: whether Stop may be called

(* One Service with its Endpoints, and one other pod of the controller.    *)
Objects == Ingresses \cup {"endpoints", "service", "pod"}
Kinds == {"ingress", "endpoints", "service", "pod"}
Kind(o) == IF o \in Ingresses THEN "ingress" ELSE o

Object(o) == (IF o \in Ingresses THEN IngressValues ELSE Values) \cup {None}

ASSUME PipelineAssumption ==
  /\ API \in {"networking", "extensions"}
  /\ RingSize \in Nat \ {0}
  /\ MaxChanges \in Nat /\ MaxServiceChanges \in Nat /\ MaxRelists \in Nat
  /\ MayStop \in BOOLEAN
  /\ InitAPI \subseteq [Objects -> IngressValues \cup Values \cup {None}]
  /\ \A c \in InitAPI : \A o \in Objects : c[o] \in Object(o)

(* The names are names of ingresses only, None is no object, and what is   *)
(* set in an annotation has at least one line.                             *)
ASSUME ObjectsAssumption ==
  /\ Ingresses \cap Kinds = {}
  /\ None \notin Values \cup IngressValues
  /\ \A x \in IngressValues :
       /\ Stored(x) # None
       /\ \A key \in DOMAIN x.annotations :
            x.annotations[key] \in Seq([text : STRING, padded : BOOLEAN]) \ {<<>>}

VARIABLES
  api,        \* the objects in the cluster
  informer,   \* per kind: "off", "list" (running) or "synced" (HasSynced)
  cache,      \* the informers' stores
  notes,      \* per kind, notifications the handlers have not seen
  lister,     \* listers.IngressWithAnnotation
  updateCh,   \* number of events in the ring channel
  dirty,      \* an item is in the sync queue
  start,      \* how far Start has come
  isShuttingDown,
  spc, sings, ssvc,   \* the sync: where it is and what it has read
  config,     \* runningConfig
  changes, serviceChanges, relists

vars == <<api, informer, cache, notes, lister, updateCh, dirty, start, isShuttingDown,
          spc, sings, ssvc, config, changes, serviceChanges, relists>>

syncVars == <<spc, sings, ssvc, config>>
boundVars == <<changes, serviceChanges, relists>>

NoIngresses == [i \in Ingresses |-> None]

(* getConfiguration, as what it depends on: without ingresses there is no  *)
(* server, and without the Service its Endpoints are not looked up.        *)
EmptyConfig == [ings |-> NoIngresses, svc |-> None, eps |-> None]
Generated(ings, svc, eps) ==
  IF ings = NoIngresses THEN EmptyConfig
  ELSE [ings |-> ings, svc |-> svc, eps |-> IF svc = None THEN None ELSE eps]

---------------------------------------------------------------------------
Init ==
  /\ api \in InitAPI
  /\ informer = [k \in Kinds |-> "off"]
  /\ cache = [o \in Objects |-> None]
  /\ notes = [k \in Kinds |-> <<>>]
  /\ lister = NoIngresses
  /\ updateCh = 0 /\ dirty = FALSE /\ start = "begin" /\ isShuttingDown = FALSE
  /\ spc = "idle" /\ sings = NoIngresses /\ ssvc = None /\ config = EmptyConfig
  /\ changes = 0 /\ serviceChanges = 0 /\ relists = 0

(* Somebody creates, updates or deletes an object. *)
Change(o, x) ==
  /\ changes < MaxChanges /\ o # "service" /\ api[o] # x
  /\ api' = [api EXCEPT ![o] = x]
  /\ changes' = changes + 1
  /\ UNCHANGED <<informer, cache, notes, lister, updateCh, dirty, start, isShuttingDown, syncVars,
                 serviceChanges, relists>>

ChangeService(x) ==
  /\ changes < MaxChanges /\ serviceChanges < MaxServiceChanges /\ api["service"] # x
  /\ api' = [api EXCEPT !["service"] = x]
  /\ changes' = changes + 1
  /\ serviceChanges' = serviceChanges + 1
  /\ UNCHANGED <<informer, cache, notes, lister, updateCh, dirty, start, isShuttingDown, syncVars,
                 relists>>

---------------------------------------------------------------------------
(* The informers of client-go: the store is updated first, then the        *)
(* handlers are told, in order, by a goroutine of their own.               *)

Note(o, old, new, tomb) == [obj |-> o, old |-> old, new |-> new, tombstone |-> tomb]

Tell(n) == notes' = [notes EXCEPT ![Kind(n.obj)] = Append(@, n)]

(* The list or the watch brings the state of an object; only after a new   *)
(* list is a deletion told with a tombstone.                               *)
Deliver(o, tomb) ==
  /\ informer[Kind(o)] # "off" /\ cache[o] # api[o]
  /\ tomb => api[o] = None /\ relists < MaxRelists
  /\ cache' = [cache EXCEPT ![o] = api[o]]
  /\ Tell(Note(o, cache[o], api[o], tomb))
  /\ relists' = IF tomb THEN relists + 1 ELSE relists
  /\ UNCHANGED <<api, informer, lister, updateCh, dirty, start, isShuttingDown, syncVars,
                 changes, serviceChanges>>

(* An object that has not changed is listed again. *)
Relist(o) ==
  /\ informer[Kind(o)] = "synced" /\ cache[o] = api[o] /\ api[o] # None
  /\ relists < MaxRelists
  /\ relists' = relists + 1
  /\ Tell(Note(o, cache[o], cache[o], FALSE))
  /\ UNCHANGED <<api, informer, cache, lister, updateCh, dirty, start, isShuttingDown, syncVars,
                 changes, serviceChanges>>

(* The first list of a kind is in the store. *)
HasSynced(k) ==
  /\ informer[k] = "list"
  /\ \A o \in Objects : Kind(o) = k => cache[o] = api[o]
  /\ informer' = [informer EXCEPT ![k] = "synced"]
  /\ UNCHANGED <<api, cache, notes, lister, updateCh, dirty, start, isShuttingDown, syncVars,
                 boundVars>>

---------------------------------------------------------------------------
(* The event handlers of store.New; each handles the oldest notification   *)
(* of its kind.                                                            *)

(* Mutant of Emit: the channel has no limit. *)
EmitUnbounded == updateCh' = updateCh + 1

(* updateCh.In() <- Event: a full ring drops its oldest event. *)
Emit == updateCh' = IF updateCh < RingSize THEN updateCh + 1 ELSE updateCh

Handled(k) ==
  /\ notes[k] # <<>>
  /\ notes' = [notes EXCEPT ![k] = Tail(@)]
  /\ UNCHANGED <<api, informer, cache, dirty, start, isShuttingDown, syncVars, boundVars>>

Ignore == UNCHANGED <<lister, updateCh>>

(* store.syncIngress and the event that follows it. *)
StoreIngress(n) ==
  /\ lister' = [lister EXCEPT ![n.obj] = Stored(n.new)]
  /\ Emit

(* Mutant of ingDeleteHandler: no event follows the deletion. *)
ingDeleteQuietly(n) ==
  IF (n.tombstone /\ API = "extensions") \/ ~IsValid(n.old)
  THEN Ignore
  ELSE /\ lister' = [lister EXCEPT ![n.obj] = None]
       /\ UNCHANGED updateCh

(* ingDeleteHandler; a tombstone is only taken for a networking Ingress.   *)
ingDeleteHandler(n) ==
  IF (n.tombstone /\ API = "extensions") \/ ~IsValid(n.old)
  THEN Ignore
  ELSE /\ lister' = [lister EXCEPT ![n.obj] = None]
       /\ Emit

AddIngress ==
  /\ Handled("ingress")
  /\ LET n == Head(notes["ingress"]) IN
     /\ n.old = None
     /\ IF IsValid(n.new) THEN StoreIngress(n) ELSE Ignore

DeleteIngress ==
  /\ Handled("ingress")
  /\ LET n == Head(notes["ingress"]) IN
     /\ n.new = None
     /\ ingDeleteHandler(n)

(* Mutant of UpdateIngress: an ingress that changes its class is kept. *)
UpdateIngressKeeps ==
  /\ Handled("ingress")
  /\ LET n == Head(notes["ingress"]) IN
     /\ n.old # None /\ n.new # None
     /\ IF IsValid(n.new) /\ n.old # n.new THEN StoreIngress(n) ELSE Ignore

UpdateIngress ==
  /\ Handled("ingress")
  /\ LET n == Head(notes["ingress"])
         validOld == IsValid(n.old)
         validCur == IsValid(n.new)
     IN /\ n.old # None /\ n.new # None
        /\ \/ validCur /\ (~validOld \/ n.old # n.new) /\ StoreIngress(n)
           \/ validOld /\ ~validCur /\ ingDeleteHandler(n)
           \/ ~validOld /\ ~validCur /\ Ignore
           \/ validOld /\ validCur /\ n.old = n.new /\ Ignore

(* Mutant of HandleOther: updates make no event. *)
HandleOtherAddsOnly(k) ==
  /\ k # "ingress"
  /\ Handled(k)
  /\ UNCHANGED lister
  /\ IF k = "service" \/ None \notin {Head(notes[k]).old, Head(notes[k]).new}
     THEN UNCHANGED updateCh
     ELSE Emit

(* epEventHandler and podEventHandler: an update that changes neither the  *)
(* Subsets nor the Phase is no event.  The Service has no handlers.        *)
HandleOther(k) ==
  /\ k # "ingress"
  /\ Handled(k)
  /\ UNCHANGED lister
  /\ IF k = "service" \/ Head(notes[k]).old = Head(notes[k]).new
     THEN UNCHANGED updateCh
     ELSE Emit

---------------------------------------------------------------------------
(* Start and the event loop. *)

Begin ==
  /\ start = "begin"
  /\ start' = "caches"
  /\ dirty' = TRUE
  /\ informer' = [k \in Kinds |-> IF k = "ingress" THEN "off" ELSE "list"]
  /\ UNCHANGED <<api, cache, notes, lister, updateCh, isShuttingDown, syncVars, boundVars>>

(* Mutant of StartIngressInformer: nothing is waited for. *)
StartIngressAtOnce ==
  /\ start = "caches"
  /\ start' = "ingress"
  /\ informer' = [informer EXCEPT !["ingress"] = "list"]
  /\ UNCHANGED <<api, cache, notes, lister, updateCh, dirty, isShuttingDown, syncVars, boundVars>>

(* Informer.Run: the Ingress informer starts after the other two synced.   *)
StartIngressInformer ==
  /\ start = "caches" /\ informer["endpoints"] = "synced" /\ informer["service"] = "synced"
  /\ start' = "ingress"
  /\ informer' = [informer EXCEPT !["ingress"] = "list"]
  /\ UNCHANGED <<api, cache, notes, lister, updateCh, dirty, isShuttingDown, syncVars, boundVars>>

EnterLoop ==
  /\ start = "ingress" /\ informer["ingress"] = "synced"
  /\ start' = "loop"
  /\ UNCHANGED <<api, informer, cache, notes, lister, updateCh, dirty, isShuttingDown, syncVars,
                 boundVars>>

(* The event loop hands an event to the queue, or drops it when stopping.  *)
TakeEvent ==
  /\ start = "loop" /\ updateCh > 0
  /\ updateCh' = updateCh - 1
  /\ dirty' = (dirty \/ ~isShuttingDown)
  /\ UNCHANGED <<api, informer, cache, notes, lister, start, isShuttingDown, syncVars, boundVars>>

(* The first step of Stop. *)
Stop ==
  /\ MayStop /\ ~isShuttingDown
  /\ isShuttingDown' = TRUE
  /\ UNCHANGED <<api, informer, cache, notes, lister, updateCh, dirty, start, syncVars, boundVars>>

---------------------------------------------------------------------------
(* WLSController.syncIngress reads one lister after the other. *)

SyncList ==
  /\ spc = "idle" /\ dirty
  /\ dirty' = FALSE
  /\ sings' = lister
  /\ spc' = "service"
  /\ UNCHANGED <<api, informer, cache, notes, lister, updateCh, start, isShuttingDown, ssvc, config,
                 boundVars>>

(* GetService *)
SyncService ==
  /\ spc = "service"
  /\ ssvc' = cache["service"]
  /\ spc' = "endpoints"
  /\ UNCHANGED <<api, informer, cache, notes, lister, updateCh, dirty, start, isShuttingDown, sings,
                 config, boundVars>>

(* GetServiceEndpoints, Equal and OnUpdate: what was read becomes the      *)
(* configuration, or is it already.                                        *)
SyncEndpoints ==
  /\ spc = "endpoints"
  /\ config' = Generated(sings, ssvc, cache["endpoints"])
  /\ spc' = "idle"
  /\ sings' = NoIngresses
  /\ ssvc' = None
  /\ UNCHANGED <<api, informer, cache, notes, lister, updateCh, dirty, start, isShuttingDown,
                 boundVars>>

---------------------------------------------------------------------------
InformerStep ==
  \/ \E o \in Objects : Deliver(o, FALSE)
  \/ \E k \in Kinds : HasSynced(k)
HandlerStep(k) ==
  \/ k = "ingress" /\ (AddIngress \/ UpdateIngress \/ DeleteIngress)
  \/ HandleOther(k)
StartStep == Begin \/ StartIngressInformer \/ EnterLoop \/ TakeEvent
SyncStep == SyncList \/ SyncService \/ SyncEndpoints

Next ==
  \/ \E o \in Objects : \E x \in Object(o) : Change(o, x)
  \/ \E x \in Object("service") : ChangeService(x)
  \/ \E o \in Objects : Deliver(o, TRUE) \/ Relist(o)
  \/ InformerStep
  \/ \E k \in Kinds : HandlerStep(k)
  \/ StartStep
  \/ SyncStep
  \/ Stop

Spec == Init /\ [][Next]_vars

(* Informers, their handlers, the goroutine in Start and the worker of the *)
(* queue all run.                                                          *)
FairSpec ==
  /\ Spec
  /\ WF_vars(InformerStep) /\ WF_vars(StartStep) /\ WF_vars(SyncStep)
  /\ \A k \in Kinds : WF_vars(HandlerStep(k))

---------------------------------------------------------------------------
Notes(k) == [obj : {o \in Objects : Kind(o) = k},
             old : IngressValues \cup Values \cup {None},
             new : IngressValues \cup Values \cup {None}, tombstone : BOOLEAN]
Listed == [Ingresses -> {Stored(x) : x \in IngressValues} \cup {None}]

(* The types; the lister only holds ingresses of the controller's class.   *)
TypeOK ==
  /\ \A o \in Objects : api[o] \in Object(o) /\ cache[o] \in Object(o)
  /\ informer \in [Kinds -> {"off", "list", "synced"}]
  /\ \A k \in Kinds : notes[k] \in Seq(Notes(k))
  /\ lister \in Listed
  /\ \A i \in Ingresses : lister[i] # None => IsValid(lister[i])
  /\ updateCh \in 0 .. RingSize /\ dirty \in BOOLEAN /\ isShuttingDown \in BOOLEAN
  /\ start \in {"begin", "caches", "ingress", "loop"}
  /\ spc \in {"idle", "service", "endpoints"}
  /\ sings \in Listed /\ ssvc \in Values \cup {None}
  /\ config \in [ings : Listed, svc : Values \cup {None}, eps : Values \cup {None}]

(* The settings an Ingress asks for: each annotation of the controller by  *)
(* itself, if it has a content that can be used, or else its default.      *)
Content(ing, name) ==
  IF WithPrefix(name) \in DOMAIN ing.annotations THEN ing.annotations[WithPrefix(name)] ELSE <<>>
Texts(content) == [i \in DOMAIN content |-> content[i].text]
AsAsked(ing, proxy) ==
  LET timeouts == {t \in DOMAIN Atoi : Content(ing, "proxy-read-timeout") = Text(t)}
      size == Texts(Content(ing, "proxy-body-size"))
  IN /\ IF timeouts = {} THEN proxy.ReadTimeout = 300
        ELSE \E t \in timeouts : proxy.ReadTimeout = Atoi[t]
     /\ Texts(proxy.BodySize) = IF size \in {<<>>, <<"">>} THEN <<"10m">> ELSE size

(* Whether the lister holds what it should for an object. *)
Shows(x, y) ==
  IF x = None \/ ~IsValid(x) THEN y = None
  ELSE /\ y # None /\ y.annotations = x.annotations
       /\ AsAsked(x, y.ParsedAnnotations.Proxy)
       /\ \A r \in DOMAIN x.rules : \A p \in DOMAIN x.rules[r] :
            y.rules[r][p] = x.rules[r][p] \/ (x.rules[r][p] = "" /\ y.rules[r][p] = "/")

(* Whatever sequence of changes of spec and class, deletions and new lists *)
(* the handlers (store.go:227-302) were told, once they have heard of all  *)
(* of them the lister holds the ingresses of the class as they are in the  *)
(* informer's store, and no other, each with the settings it asks for: an  *)
(* annotation that cannot be used (proxy/main.go:63-71) spoils neither the *)
(* other one nor the ingress.                                              *)
ListerFollows ==
  notes["ingress"] = <<>> => \A i \in Ingresses : Shows(cache[i], lister[i])

(* No event is lost between the handlers and the sync, a full ring         *)
(* (wls.go:55) included: when no notification, event, item or sync is left,*)
(* the running configuration is the one of the caches.  A Service change   *)
(* makes no event, so the Service is left out of the comparison.           *)
NoLostEvent ==
  LET idle == /\ \A k \in Kinds : notes[k] = <<>>
              /\ updateCh = 0 /\ ~dirty /\ spc = "idle"
  IN idle /\ start = "loop" /\ ~isShuttingDown
       => config = Generated(lister, config.svc, cache["endpoints"])

(* "we can start syncing ingress objects only after other caches are ready"*)
(* (store.go:132): though the initial sync does not wait, no configuration *)
(* with ingresses was made while Services or Endpoints were not there yet. *)
NoConfigBeforeCaches ==
  config # EmptyConfig => informer["endpoints"] = "synced" /\ informer["service"] = "synced"

(* Once the cluster stops changing, the configuration is the one of its    *)
(* ingresses and Endpoints for good, unless the controller stops: store.go *)
(* makes an event of every change the sync needs, and none is skipped.     *)
(* The Service is the one the last sync read.                              *)
View(x) == IF x # None /\ IsValid(x) THEN Stored(x) ELSE None
Wanted(svc) == Generated([i \in Ingresses |-> View(api[i])], svc, api["endpoints"])
Converges == <>[](isShuttingDown \/ config = Wanted(config.svc))

---------------------------------------------------------------------------
(* "wait for all involved caches to be synced before processing items from *)
(* the queue" (store.go:119-120).                                          *)
QueueWaitsForCaches ==
  spc # "idle" => \A k \in {"ingress", "endpoints", "service"} : informer[k] = "synced"

(* "Namespace the controller watches for updates to Kubernetes objects.    *)
(* This includes Ingresses, Services and all configuration resources."     *)
(* (flags.go:57-58): an update of a Service reaches the configuration.     *)
ServiceUpdatesFollowed == <>[](isShuttingDown \/ config = Wanted(api["service"]))

(* "it means the ingress was deleted but its final state is unrecorded"    *)
(* (store.go:230): the deletion that a tombstone tells of is carried out.  *)
TombstonesDelete ==
  notes["ingress"] = <<>> => \A i \in Ingresses : cache[i] = None => lister[i] = None

Heard(i) == informer["ingress"] = "synced" /\ notes["ingress"] = <<>> /\ cache[i] # None

(* "The controller only processes Ingresses with this annotation either    *)
(* unset, or set to either the configured value or the empty string."      *)
(* (class/main.go:24-25): those are processed.                             *)
BlankClassProcessed ==
  \A i \in Ingresses : Heard(i) /\ Class(cache[i]) \in {Text(""), Text(IngressClass)} => lister[i] # None

(* "All ingress classes are satisfied if this parameter is left empty."    *)
(* (flags.go:48); with an empty parameter IngressClass stays the default.  *)
AllClassesSatisfied ==
  IngressClass = DefaultClass => \A i \in Ingresses : Heard(i) => lister[i] # None
=============================================================================
