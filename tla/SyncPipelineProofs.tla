------------------------ MODULE SyncPipelineProofs ------------------------
(***************************************************************************)
(* What TLAPS proves of SyncPipeline, for any ingresses, any number of     *)
(* changes and any capacity of the ring: the lister follows the informer's *)
(* store, no event is lost, and nothing is published before the caches of  *)
(* Services and Endpoints are there.                                       *)
(***************************************************************************)
EXTENDS SyncPipeline, SequenceTheorems, TLAPS

AllValues == IngressValues \cup Values \cup {None}

(* The notifications informers send: the states are those of the object,   *)
(* and one of them is no absence.                                          *)
TypedNotes(k) ==
  {n \in Notes(k) : /\ n.old \in Object(n.obj) /\ n.new \in Object(n.obj)
                    /\ n.old # None \/ n.new # None}

TypeInv ==
  /\ api \in [Objects -> AllValues] /\ cache \in [Objects -> AllValues]
  /\ \A o \in Objects : api[o] \in Object(o) /\ cache[o] \in Object(o)
  /\ informer \in [Kinds -> {"off", "list", "synced"}]
  /\ DOMAIN notes = Kinds /\ \A k \in Kinds : notes[k] \in Seq(TypedNotes(k))
  /\ lister \in Listed
  /\ \A i \in Ingresses : lister[i] # None => IsValid(lister[i])
  /\ updateCh \in 0 .. RingSize /\ dirty \in BOOLEAN /\ isShuttingDown \in BOOLEAN
  /\ start \in {"begin", "caches", "ingress", "loop"}
  /\ spc \in {"idle", "service", "endpoints"}
  /\ sings \in Listed /\ ssvc \in Values \cup {None}
  /\ config \in [ings : Listed, svc : Values \cup {None}, eps : Values \cup {None}]

---------------------------------------------------------------------------
(* The copy of an ingress has its class. *)
LEMMA StoredValid == \A x : IsValid(Stored(x)) <=> IsValid(x)
BY DEF IsValid, Class, Stored

(* The kinds of objects. *)
LEMMA Kinded ==
  /\ \A o \in Objects : Kind(o) \in Kinds
  /\ {"endpoints", "service", "pod"} \subseteq Objects \ Ingresses
  /\ \A o \in Objects : Kind(o) = "ingress" <=> o \in Ingresses
  /\ \A k \in Kinds \ {"ingress"} : Kind(k) = k /\ k \in Objects
                                    /\ \A o \in Objects : Kind(o) = k <=> o = k
  /\ \A o \in Objects : Object(o) \subseteq AllValues
BY ObjectsAssumption DEF Kind, Kinds, Objects, Object, AllValues

(* A configuration has the ingresses it was made of. *)
LEMMA GeneratedType ==
  ASSUME NEW l \in Listed, NEW svc \in Values \cup {None}, NEW e \in Values \cup {None}
  PROVE  /\ Generated(l, svc, e).ings = l
         /\ Generated(l, svc, e)
              \in [ings : Listed, svc : Values \cup {None}, eps : Values \cup {None}]
         /\ Generated(l, Generated(l, svc, e).svc, e) = Generated(l, svc, e)
BY DEF Generated, EmptyConfig

(* Sending a notification, and handling the oldest one. *)
LEMMA TellType ==
  ASSUME TypeInv, NEW o \in Objects, NEW old \in Object(o), NEW new \in Object(o),
         NEW tomb \in BOOLEAN, old # None \/ new # None,
         Tell(Note(o, old, new, tomb))
  PROVE  /\ DOMAIN notes' = Kinds /\ \A k \in Kinds : notes'[k] \in Seq(TypedNotes(k))
         /\ notes'[Kind(o)] = Append(notes[Kind(o)], Note(o, old, new, tomb))
         /\ \A k \in Kinds : k # Kind(o) => notes'[k] = notes[k]
<1>1. Kind(o) \in Kinds
  BY Kinded
<1>2. Note(o, old, new, tomb) \in TypedNotes(Kind(o))
  BY Kinded DEF TypedNotes, Notes, Note, AllValues
<1>3. Note(o, old, new, tomb).obj = o
  BY DEF Note
<1>. HIDE DEF Note
<1>. QED  BY <1>1, <1>2, <1>3 DEF Tell, TypeInv

LEMMA HandledType ==
  ASSUME TypeInv, NEW k \in Kinds, Handled(k)
  PROVE  /\ DOMAIN notes' = Kinds /\ \A j \in Kinds : notes'[j] \in Seq(TypedNotes(j))
         /\ notes'[k] = Tail(notes[k])
         /\ \A j \in Kinds : j # k => notes'[j] = notes[j]
         /\ Head(notes[k]) \in TypedNotes(k)
<1>1. notes[k] \in Seq(TypedNotes(k)) /\ notes[k] # <<>>
  BY DEF Handled, TypeInv
<1>2. Head(notes[k]) \in TypedNotes(k) /\ Tail(notes[k]) \in Seq(TypedNotes(k))
  BY <1>1, HeadTailProperties
<1>. QED  BY <1>1, <1>2 DEF Handled, TypeInv

---------------------------------------------------------------------------
(* Type correctness. *)

LEMMA InitTypeInv == Init => TypeInv
<1>. SUFFICES ASSUME Init PROVE TypeInv
  OBVIOUS
<1>1. api \in [Objects -> AllValues] /\ \A o \in Objects : api[o] \in Object(o)
  BY PipelineAssumption DEF Init, AllValues
<1>2. NoIngresses \in Listed /\ \A i \in Ingresses : NoIngresses[i] = None
  BY DEF NoIngresses, Listed
<1>3. cache \in [Objects -> AllValues] /\ \A o \in Objects : cache[o] \in Object(o)
  BY DEF Init, AllValues, Object
<1>4. informer \in [Kinds -> {"off", "list", "synced"}]
  BY DEF Init
<1>5. DOMAIN notes = Kinds /\ \A k \in Kinds : notes[k] \in Seq(TypedNotes(k))
  BY DEF Init
<1>6. updateCh \in 0 .. RingSize
  BY PipelineAssumption DEF Init
<1>7. config \in [ings : Listed, svc : Values \cup {None}, eps : Values \cup {None}]
  BY <1>2 DEF Init, EmptyConfig
<1>8. /\ lister \in Listed /\ sings \in Listed /\ ssvc \in Values \cup {None}
      /\ \A i \in Ingresses : lister[i] = None
  BY <1>2 DEF Init
<1>. QED
  BY <1>1, <1>3, <1>4, <1>5, <1>6, <1>7, <1>8 DEF Init, TypeInv

(* The informers and the cluster keep the types. *)
LEMMA InformersTypeInv ==
  ASSUME TypeInv, NEW o \in Objects,
         \/ \E x \in Object(o) : Change(o, x)
         \/ \E x \in Object("service") : ChangeService(x)
         \/ \E tomb \in BOOLEAN : Deliver(o, tomb)
         \/ Relist(o)
         \/ \E k \in Kinds : HasSynced(k)
  PROVE  TypeInv'
<1>. USE DEF syncVars, boundVars
<1>1. ASSUME NEW x \in Object(o), Change(o, x) PROVE TypeInv'
  BY <1>1, Kinded DEF Change, TypeInv
<1>2. ASSUME NEW x \in Object("service"), ChangeService(x) PROVE TypeInv'
  BY <1>2, Kinded DEF ChangeService, TypeInv
<1>3. ASSUME NEW tomb \in BOOLEAN, Deliver(o, tomb) PROVE TypeInv'
  <2>1. /\ api[o] \in Object(o) /\ cache[o] \in Object(o) /\ cache[o] # api[o]
        /\ Tell(Note(o, cache[o], api[o], tomb))
    BY <1>3 DEF Deliver, TypeInv
  <2>2. DOMAIN notes' = Kinds /\ \A k \in Kinds : notes'[k] \in Seq(TypedNotes(k))
    BY <2>1, TellType
  <2>. QED  BY <1>3, <2>1, <2>2, Kinded DEF Deliver, TypeInv
<1>4. ASSUME Relist(o) PROVE TypeInv'
  <2>1. cache[o] \in Object(o) /\ cache[o] # None /\ Tell(Note(o, cache[o], cache[o], FALSE))
    BY <1>4 DEF Relist, TypeInv
  <2>2. DOMAIN notes' = Kinds /\ \A k \in Kinds : notes'[k] \in Seq(TypedNotes(k))
    BY <2>1, TellType
  <2>. QED  BY <1>4, <2>2 DEF Relist, TypeInv
<1>5. ASSUME NEW k \in Kinds, HasSynced(k) PROVE TypeInv'
  BY <1>5 DEF HasSynced, TypeInv
<1>. QED  BY <1>1, <1>2, <1>3, <1>4, <1>5

(* What the handlers do to the lister and the ring. *)
LEMMA EmitType ==
  ASSUME TypeInv, Emit
  PROVE  updateCh' \in 1 .. RingSize
BY PipelineAssumption DEF Emit, TypeInv

LEMMA HandlersTypeInv ==
  ASSUME TypeInv, NEW k \in Kinds, HandlerStep(k)
  PROVE  TypeInv'
<1>. DEFINE n == Head(notes[k])
<1>1. Handled(k)
  BY DEF HandlerStep, AddIngress, UpdateIngress, DeleteIngress, HandleOther
<1>2. /\ DOMAIN notes' = Kinds /\ \A j \in Kinds : notes'[j] \in Seq(TypedNotes(j))
      /\ n \in TypedNotes(k)
  BY <1>1, HandledType
<1>3. UNCHANGED <<api, informer, cache, dirty, start, isShuttingDown, syncVars>>
  BY <1>1 DEF Handled
<1>4. updateCh' \in 0 .. RingSize
  <2>1. Emit \/ UNCHANGED updateCh
    BY DEF HandlerStep, AddIngress, UpdateIngress, DeleteIngress, HandleOther, StoreIngress,
           ingDeleteHandler, Ignore
  <2>. QED  BY <2>1, EmitType, PipelineAssumption DEF TypeInv
<1>5. \/ UNCHANGED lister
      \/ k = "ingress" /\ IsValid(n.new) /\ n.new # None
           /\ lister' = [lister EXCEPT ![n.obj] = Stored(n.new)]
      \/ k = "ingress" /\ lister' = [lister EXCEPT ![n.obj] = None]
  <2>1. n.old # None \/ n.new # None
    BY <1>2 DEF TypedNotes
  <2>. QED
    BY <2>1 DEF HandlerStep, AddIngress, UpdateIngress, DeleteIngress, HandleOther,
                StoreIngress, ingDeleteHandler, Ignore
<1>6. k = "ingress" => n.obj \in Ingresses /\ (n.new # None => n.new \in IngressValues)
  BY <1>2, Kinded DEF TypedNotes, Notes, Object
<1>. HIDE DEF n
<1>7. lister' \in Listed /\ \A i \in Ingresses : lister'[i] # None => IsValid(lister'[i])
  <2>1. lister \in Listed /\ \A i \in Ingresses : lister[i] # None => IsValid(lister[i])
    BY DEF TypeInv
  <2>2. CASE UNCHANGED lister
    BY <2>1, <2>2
  <2>3. CASE k = "ingress" /\ IsValid(n.new) /\ n.new # None
             /\ lister' = [lister EXCEPT ![n.obj] = Stored(n.new)]
    <3>. DEFINE y == Stored(n.new)
    <3>1. y \in {Stored(x) : x \in IngressValues} /\ IsValid(y)
      BY <1>6, <2>3, StoredValid
    <3>2. lister' = [lister EXCEPT ![n.obj] = y] /\ n.obj \in Ingresses
      BY <1>6, <2>3
    <3>. HIDE DEF y
    <3>. QED  BY <2>1, <3>1, <3>2 DEF Listed
  <2>4. CASE k = "ingress" /\ lister' = [lister EXCEPT ![n.obj] = None]
    BY <1>6, <2>1, <2>4 DEF Listed
  <2>. QED  BY <1>5, <2>2, <2>3, <2>4
<1>. QED  BY <1>2, <1>3, <1>4, <1>7 DEF TypeInv, syncVars

LEMMA OthersTypeInv ==
  ASSUME TypeInv, StartStep \/ SyncStep \/ Stop \/ UNCHANGED vars
  PROVE  TypeInv'
<1>. USE PipelineAssumption DEF TypeInv, syncVars, boundVars
<1>1. CASE Begin
  BY <1>1 DEF Begin
<1>2. CASE StartIngressInformer
  BY <1>2 DEF StartIngressInformer
<1>3. CASE EnterLoop
  BY <1>3 DEF EnterLoop
<1>4. CASE TakeEvent
  BY <1>4 DEF TakeEvent
<1>5. CASE SyncList
  BY <1>5 DEF SyncList
<1>6. CASE SyncService
  <2>1. cache["service"] \in Values \cup {None}
    BY Kinded DEF Object
  <2>. QED  BY <1>6, <2>1 DEF SyncService
<1>7. CASE SyncEndpoints
  <2>1. cache["endpoints"] \in Values \cup {None}
    BY Kinded DEF Object
  <2>2. config' \in [ings : Listed, svc : Values \cup {None}, eps : Values \cup {None}]
    BY <1>7, <2>1, GeneratedType DEF SyncEndpoints
  <2>3. NoIngresses \in Listed
    BY DEF NoIngresses, Listed
  <2>. QED  BY <1>7, <2>2, <2>3 DEF SyncEndpoints
<1>8. CASE Stop
  BY <1>8 DEF Stop
<1>9. CASE UNCHANGED vars
  BY <1>9 DEF vars
<1>. QED  BY <1>1, <1>2, <1>3, <1>4, <1>5, <1>6, <1>7, <1>8, <1>9 DEF StartStep, SyncStep

(* The parts of a step, as the lemmas take them. *)
LEMMA Parts ==
  ASSUME [Next]_vars
  PROVE  \/ \E o \in Objects : \/ \E x \in Object(o) : Change(o, x)
                               \/ \E x \in Object("service") : ChangeService(x)
                               \/ \E tomb \in BOOLEAN : Deliver(o, tomb)
                               \/ Relist(o)
                               \/ \E k \in Kinds : HasSynced(k)
         \/ \E k \in Kinds : HandlerStep(k)
         \/ StartStep \/ SyncStep \/ Stop \/ UNCHANGED vars
<1>1. "service" \in Objects
  BY DEF Objects
<1>. QED  BY <1>1 DEF Next, InformerStep

LEMMA NextTypeInv == TypeInv /\ [Next]_vars => TypeInv'
BY Parts, InformersTypeInv, HandlersTypeInv, OthersTypeInv

(* TypeInv is stronger than TypeOK. *)
LEMMA TypeInvImplies == TypeInv => TypeOK
<1>. SUFFICES ASSUME TypeInv PROVE TypeOK
  OBVIOUS
<1>1. ASSUME NEW k \in Kinds PROVE notes[k] \in Seq(Notes(k))
  <2>1. TypedNotes(k) \subseteq Notes(k) /\ notes[k] \in Seq(TypedNotes(k))
    BY DEF TypedNotes, TypeInv
  <2>. QED  BY <2>1, SeqMonotonic
<1>. QED  BY <1>1 DEF TypeInv, TypeOK

(* Whatever is listed, watched and handled in whatever order, the types    *)
(* hold; the lister holds ingresses of the class only, and the ring is     *)
(* never over its capacity.                                                *)
THEOREM PipelineTypes == Spec => []TypeOK
BY InitTypeInv, NextTypeInv, TypeInvImplies, PTL DEF Spec

---------------------------------------------------------------------------
(* Nothing of an ingress is anywhere before Services and Endpoints were    *)
(* listed: not in a notification, the lister, a sync or the configuration. *)
StartInv ==
  /\ informer["ingress"] # "off" => start \in {"ingress", "loop"}
  /\ start \in {"ingress", "loop"}
       => informer["endpoints"] = "synced" /\ informer["service"] = "synced"
  /\ start \in {"begin", "caches"}
       => /\ notes["ingress"] = <<>> /\ lister = NoIngresses /\ sings = NoIngresses
          /\ config = EmptyConfig

LEMMA InitStartInv == Init => StartInv
BY DEF Init, StartInv, Kinds

LEMMA NextStartInv == TypeInv /\ StartInv /\ [Next]_vars => StartInv'
<1>. SUFFICES ASSUME TypeInv, StartInv, [Next]_vars PROVE StartInv'
  OBVIOUS
<1>0. /\ informer \in [Kinds -> {"off", "list", "synced"}] /\ DOMAIN notes = Kinds
      /\ {"ingress", "endpoints", "service", "pod"} = Kinds
  BY DEF TypeInv, Kinds
<1>. USE DEF syncVars, boundVars
<1>1. ASSUME NEW o \in Objects,
             (\E x : Change(o, x) \/ ChangeService(x))
      PROVE  StartInv'
  BY <1>1 DEF Change, ChangeService, StartInv
<1>2. ASSUME NEW o \in Objects, (\E tomb \in BOOLEAN : Deliver(o, tomb)) \/ Relist(o)
      PROVE  StartInv'
  <2>1. /\ informer[Kind(o)] # "off"
        /\ UNCHANGED <<informer, start, lister, sings, config>>
    BY <1>2 DEF Deliver, Relist
  <2>2. Kind(o) # "ingress" => notes'["ingress"] = notes["ingress"]
    BY <1>0, <1>2 DEF Deliver, Relist, Tell, Note
  <2>. QED  BY <2>1, <2>2 DEF StartInv
<1>3. ASSUME NEW k \in Kinds, HasSynced(k) PROVE StartInv'
  BY <1>0, <1>3 DEF HasSynced, StartInv
<1>4. ASSUME NEW k \in Kinds, HandlerStep(k) PROVE StartInv'
  <2>1. Handled(k) /\ (k # "ingress" => UNCHANGED lister)
    BY <1>4 DEF HandlerStep, AddIngress, UpdateIngress, DeleteIngress, HandleOther
  <2>2. k # "ingress" => notes'["ingress"] = notes["ingress"]
    BY <1>0, <2>1 DEF Handled
  <2>. QED  BY <2>1, <2>2 DEF Handled, StartInv
<1>5. CASE StartStep
  <2>1. CASE Begin
    BY <1>0, <2>1 DEF Begin, StartInv
  <2>2. CASE StartIngressInformer
    BY <1>0, <2>2 DEF StartIngressInformer, StartInv
  <2>3. CASE EnterLoop \/ TakeEvent
    BY <2>3 DEF EnterLoop, TakeEvent, StartInv
  <2>. QED  BY <1>5, <2>1, <2>2, <2>3 DEF StartStep
<1>6. CASE SyncStep
  BY <1>6 DEF SyncStep, SyncList, SyncService, SyncEndpoints, StartInv, Generated
<1>7. CASE Stop \/ UNCHANGED vars
  BY <1>7 DEF Stop, vars, StartInv
<1>. QED  BY Parts, <1>1, <1>2, <1>3, <1>4, <1>5, <1>6, <1>7

(* Though the initial sync is queued before anything was listed, it and    *)
(* all later ones publish a configuration with ingresses only once the     *)
(* Services and the Endpoints are there.                                   *)
THEOREM CachesFirst == Spec => []NoConfigBeforeCaches
<1>1. TypeInv /\ StartInv => NoConfigBeforeCaches
  BY DEF TypeInv, StartInv, NoConfigBeforeCaches
<1>. QED  BY <1>1, InitTypeInv, NextTypeInv, InitStartInv, NextStartInv, PTL DEF Spec

---------------------------------------------------------------------------
(* A change the configuration does not show yet is on its way.  Either an  *)
(* event is in the ring or an item in the queue, or the lister is what the *)
(* last sync, or the one under way, has read; and of the Endpoints, unless *)
(* a sync is still to read them, the last change is in a notification that *)
(* makes an event, or in the configuration.                                *)
EpNotePending ==
  \E a \in 1 .. Len(notes["endpoints"]) : notes["endpoints"][a].old # notes["endpoints"][a].new
EventInv ==
  updateCh = 0 /\ ~dirty /\ ~isShuttingDown =>
    /\ lister = IF spc = "idle" THEN config.ings ELSE sings
    /\ spc = "idle" /\ ~EpNotePending
         => config = Generated(config.ings, config.svc, cache["endpoints"])

LEMMA InitEventInv == Init => EventInv
BY DEF Init, EventInv, EmptyConfig, Generated

(* The notifications about Endpoints that make an event. *)
LEMMA EpNotes ==
  ASSUME TypeInv
  PROVE  /\ \A o \in Objects : \A x \in Object(o), tomb \in BOOLEAN :
              Tell(Note(o, cache[o], x, tomb)) /\ (cache[o] # None \/ x # None)
                => /\ EpNotePending => EpNotePending'
                   /\ o = "endpoints" /\ cache[o] # x => EpNotePending'
         /\ \A k \in Kinds : Handled(k) /\ EpNotePending /\ ~EpNotePending'
              => k = "endpoints" /\ Head(notes[k]).old # Head(notes[k]).new
<1>. DEFINE N == notes["endpoints"]
<1>0. "endpoints" \in Kinds /\ N \in Seq(TypedNotes("endpoints"))
  BY DEF TypeInv, Kinds
<1>1. ASSUME NEW o \in Objects, NEW x \in Object(o), NEW tomb \in BOOLEAN,
             Tell(Note(o, cache[o], x, tomb)), cache[o] # None \/ x # None
      PROVE  /\ EpNotePending => EpNotePending'
             /\ o = "endpoints" /\ cache[o] # x => EpNotePending'
  <2>. DEFINE n == Note(o, cache[o], x, tomb)
  <2>1. cache[o] \in Object(o)
    BY DEF TypeInv
  <2>2. N' = IF Kind(o) = "endpoints" THEN Append(N, n) ELSE N
    BY <1>0, <1>1, <2>1, TellType
  <2>3. Len(N') >= Len(N) /\ \A a \in 1 .. Len(N) : N'[a] = N[a]
    BY <1>0, <2>2
  <2>4. n.old = cache[o] /\ n.new = x
    BY DEF Note
  <2>. HIDE DEF n
  <2>5. ASSUME o = "endpoints", cache[o] # x PROVE EpNotePending'
    <3>1. N' = Append(N, n)
      BY <2>2, <2>5, Kinded DEF Kinds
    <3>2. Len(N') \in 1 .. Len(N') /\ N'[Len(N')] = n
      BY <1>0, <3>1
    <3>. QED  BY <2>4, <2>5, <3>2 DEF EpNotePending
  <2>6. EpNotePending => EpNotePending'
    BY <1>0, <2>3 DEF EpNotePending
  <2>. QED  BY <2>5, <2>6
<1>2. ASSUME NEW k \in Kinds, Handled(k), EpNotePending, ~EpNotePending'
      PROVE  k = "endpoints" /\ Head(notes[k]).old # Head(notes[k]).new
  <2>1. k = "endpoints"
    BY <1>0, <1>2, HandledType DEF EpNotePending
  <2>2. N # <<>> /\ N' = Tail(N)
    BY <1>2, <2>1, HandledType DEF Handled
  <2>3. PICK a \in 1 .. Len(N) : N[a].old # N[a].new
    BY <1>2 DEF EpNotePending
  <2>4. CASE a = 1
    BY <1>0, <2>1, <2>2, <2>3, <2>4
  <2>5. CASE a # 1
    <3>1. a - 1 \in 1 .. Len(N') /\ N'[a - 1] = N[a]
      BY <1>0, <2>2, <2>5
    <3>. QED  BY <1>2, <2>3, <3>1 DEF EpNotePending
  <2>. QED  BY <2>4, <2>5
<1>. QED  BY <1>1, <1>2

LEMMA NextEventInv == TypeInv /\ EventInv /\ [Next]_vars => EventInv'
<1>. SUFFICES ASSUME TypeInv, EventInv, [Next]_vars PROVE EventInv'
  OBVIOUS
<1>0. "endpoints" \in Objects /\ "endpoints" \notin Ingresses /\ "service" \in Objects
  BY Kinded
<1>. USE DEF syncVars, boundVars
<1>1. ASSUME NEW o \in Objects, \E x : Change(o, x) \/ ChangeService(x) PROVE EventInv'
  BY <1>1 DEF Change, ChangeService, EventInv, EpNotePending
<1>2. ASSUME NEW o \in Objects, NEW tomb \in BOOLEAN, Deliver(o, tomb) PROVE EventInv'
  <2>1. /\ cache[o] # api[o] /\ api[o] \in Object(o)
        /\ Tell(Note(o, cache[o], api[o], tomb))
        /\ cache' = [cache EXCEPT ![o] = api[o]]
        /\ UNCHANGED <<updateCh, dirty, isShuttingDown, lister, spc, sings, config>>
    BY <1>2 DEF Deliver, TypeInv
  <2>2. EpNotePending => EpNotePending'
    BY <2>1, EpNotes
  <2>3. o = "endpoints" => EpNotePending'
    BY <2>1, EpNotes
  <2>4. o # "endpoints" => cache'["endpoints"] = cache["endpoints"]
    BY <1>0, <2>1 DEF TypeInv
  <2>. QED  BY <2>1, <2>2, <2>3, <2>4 DEF EventInv
<1>3. ASSUME NEW o \in Objects, Relist(o) PROVE EventInv'
  <2>1. /\ cache[o] # None /\ cache[o] \in Object(o)
        /\ Tell(Note(o, cache[o], cache[o], FALSE))
        /\ UNCHANGED <<cache, updateCh, dirty, isShuttingDown, lister, spc, sings, config>>
    BY <1>3 DEF Relist, TypeInv
  <2>2. EpNotePending => EpNotePending'
    BY <2>1, EpNotes
  <2>. QED  BY <2>1, <2>2 DEF EventInv
<1>4. ASSUME NEW k \in Kinds, HasSynced(k) PROVE EventInv'
  BY <1>4 DEF HasSynced, EventInv, EpNotePending
<1>5. ASSUME NEW k \in Kinds, HandlerStep(k) PROVE EventInv'
  <2>1. Handled(k) /\ UNCHANGED <<cache, dirty, isShuttingDown, spc, sings, config>>
    BY <1>5 DEF HandlerStep, AddIngress, UpdateIngress, DeleteIngress, HandleOther, Handled
  <2>2. CASE Emit
    <3>1. updateCh' # 0
      BY <2>2, EmitType, PipelineAssumption
    <3>. QED  BY <3>1 DEF EventInv
  <2>3. CASE UNCHANGED <<updateCh, lister>> /\ (k = "endpoints" => Head(notes[k]).old = Head(notes[k]).new)
    <3>1. EpNotePending => EpNotePending'
      BY <2>1, <2>3, EpNotes
    <3>. QED  BY <2>1, <2>3, <3>1 DEF EventInv
  <2>. QED
    BY <1>5, <2>2, <2>3 DEF HandlerStep, AddIngress, UpdateIngress, DeleteIngress, HandleOther,
                            StoreIngress, ingDeleteHandler, Ignore
<1>6. CASE Begin \/ TakeEvent
  BY <1>6, PipelineAssumption DEF Begin, TakeEvent, TypeInv, EventInv, EpNotePending
<1>7. CASE StartIngressInformer \/ EnterLoop \/ Stop \/ UNCHANGED vars
  BY <1>7 DEF StartIngressInformer, EnterLoop, Stop, vars, EventInv, EpNotePending
<1>8. CASE SyncList \/ SyncService
  BY <1>8 DEF SyncList, SyncService, EventInv
<1>9. CASE SyncEndpoints
  <2>1. cache["endpoints"] \in Values \cup {None}
    BY <1>0 DEF TypeInv, Object
  <2>2. /\ config' = Generated(sings, ssvc, cache["endpoints"])
        /\ spc = "endpoints" /\ spc' = "idle"
        /\ UNCHANGED <<cache, updateCh, dirty, isShuttingDown, lister>>
    BY <1>9 DEF SyncEndpoints
  <2>3. /\ config'.ings = sings
        /\ config' = Generated(config'.ings, config'.svc, cache["endpoints"])
    BY <2>1, <2>2, GeneratedType DEF TypeInv
  <2>. QED  BY <2>2, <2>3 DEF EventInv
<1>. QED
  BY Parts, <1>1, <1>2, <1>3, <1>4, <1>5, <1>6, <1>7, <1>8, <1>9 DEF StartStep, SyncStep

(* Whatever the ring drops, when nothing is left to do the configuration   *)
(* shows the lister and the Endpoints as they are: every change of them    *)
(* was followed by a sync that read it.                                    *)
THEOREM EventsKept == Spec => []NoLostEvent
<1>1. TypeInv /\ EventInv => NoLostEvent
  <2>. SUFFICES ASSUME TypeInv, EventInv, \A k \in Kinds : notes[k] = <<>>,
                       updateCh = 0, ~dirty, spc = "idle", ~isShuttingDown
                PROVE  config = Generated(lister, config.svc, cache["endpoints"])
    BY DEF NoLostEvent
  <2>1. ~EpNotePending
    <3>1. notes["endpoints"] = <<>>
      BY DEF Kinds
    <3>. QED  BY <3>1 DEF EpNotePending
  <2>. QED  BY <2>1 DEF EventInv
<1>. QED  BY <1>1, InitTypeInv, NextTypeInv, InitEventInv, NextEventInv, PTL DEF Spec

---------------------------------------------------------------------------
(* The notifications about an ingress are a chain: the first begins at     *)
(* what the lister shows, each begins where the one before it ended, and   *)
(* the last ends at what is in the informer's store.                       *)
ChainOf(i, N) ==
  /\ (\A a \in 1 .. Len(N) : N[a].obj # i) => lister[i] = View(cache[i])
  /\ \A a \in 1 .. Len(N) : N[a].obj = i =>
       /\ (\A b \in 1 .. a - 1 : N[b].obj # i) => lister[i] = View(N[a].old)
       /\ (\A b \in a + 1 .. Len(N) : N[b].obj # i) => N[a].new = cache[i]
       /\ \A b \in a + 1 .. Len(N) :
            N[b].obj = i /\ (\A c \in a + 1 .. b - 1 : N[c].obj # i) => N[b].old = N[a].new
ListerInv == \A i \in Ingresses : ChainOf(i, notes["ingress"])

LEMMA InitListerInv == Init => ListerInv
<1>. SUFFICES ASSUME Init, NEW i \in Ingresses PROVE ChainOf(i, notes["ingress"])
  BY DEF ListerInv
<1>1. notes["ingress"] = <<>> /\ lister[i] = None /\ cache[i] = None
  BY DEF Init, Kinds, NoIngresses, Objects
<1>. QED  BY <1>1 DEF ChainOf, View

(* A notification that begins at what is in the store and ends at what     *)
(* comes into it makes the chain longer.                                   *)
LEMMA TellKeepsChains ==
  ASSUME TypeInv, ListerInv, NEW o \in Objects, NEW new \in Object(o), NEW tomb \in BOOLEAN,
         cache[o] # None \/ new # None,
         Tell(Note(o, cache[o], new, tomb)), cache' = [cache EXCEPT ![o] = new],
         UNCHANGED lister
  PROVE  ListerInv'
<1>. DEFINE N == notes["ingress"]
            n == Note(o, cache[o], new, tomb)
<1>0. "ingress" \in Kinds /\ N \in Seq(TypedNotes("ingress"))
  BY DEF TypeInv, Kinds
<1>1. N' = IF Kind(o) = "ingress" THEN Append(N, n) ELSE N
  <2>1. cache[o] \in Object(o)
    BY DEF TypeInv
  <2>. QED  BY <1>0, <2>1, TellType
<1>2. n.obj = o /\ n.old = cache[o] /\ n.new = new
  BY DEF Note
<1>. HIDE DEF n
<1>. SUFFICES ASSUME NEW i \in Ingresses PROVE ChainOf(i, N)'
  BY DEF ListerInv
<1>3. ChainOf(i, N) /\ i \in Objects
  BY DEF ListerInv, Objects
<1>. HIDE DEF N
<1>4. CASE Kind(o) # "ingress"
  <2>1. cache'[i] = cache[i] /\ N' = N
    BY <1>1, <1>3, <1>4, Kinded DEF TypeInv
  <2>. QED  BY <1>3, <2>1 DEF ChainOf
<1>5. CASE Kind(o) = "ingress"
  <2>1. N' = Append(N, n) /\ cache'[i] = IF o = i THEN new ELSE cache[i]
    BY <1>1, <1>3, <1>5 DEF TypeInv
  <2>2. /\ Len(N) \in Nat /\ Len(N') = Len(N) + 1 /\ N'[Len(N) + 1] = n
        /\ \A a \in 1 .. Len(N) : N'[a] = N[a]
    BY <1>0, <2>1
  <2>. DEFINE last == Len(N) + 1
  <2>3. ASSUME \A a \in 1 .. Len(N') : N'[a].obj # i PROVE lister[i] = View(cache'[i])
    <3>1. o # i /\ \A a \in 1 .. Len(N) : N[a].obj # i
      BY <1>2, <2>2, <2>3
    <3>. QED  BY <1>3, <2>1, <3>1 DEF ChainOf
  <2>4. ASSUME NEW a \in 1 .. Len(N'), N'[a].obj = i, \A b \in 1 .. a - 1 : N'[b].obj # i
        PROVE  lister[i] = View(N'[a].old)
    <3>1. \A b \in 1 .. a - 1 : N[b].obj # i
      BY <2>2, <2>4
    <3>2. CASE a = last
      BY <1>2, <1>3, <2>2, <2>4, <3>1, <3>2 DEF ChainOf
    <3>3. CASE a \in 1 .. Len(N)
      BY <1>3, <2>2, <2>4, <3>1, <3>3 DEF ChainOf
    <3>. QED  BY <2>2, <3>2, <3>3
  <2>5. ASSUME NEW a \in 1 .. Len(N'), N'[a].obj = i, \A b \in a + 1 .. Len(N') : N'[b].obj # i
        PROVE  N'[a].new = cache'[i]
    <3>1. CASE a = last
      BY <1>2, <2>1, <2>2, <2>5, <3>1
    <3>2. CASE a \in 1 .. Len(N)
      <4>1. o # i /\ \A b \in a + 1 .. Len(N) : N[b].obj # i
        BY <1>2, <2>2, <2>5, <3>2
      <4>. QED  BY <1>3, <2>1, <2>2, <2>5, <3>2, <4>1 DEF ChainOf
    <3>. QED  BY <2>2, <3>1, <3>2
  <2>6. ASSUME NEW a \in 1 .. Len(N'), N'[a].obj = i, NEW b \in a + 1 .. Len(N'), N'[b].obj = i,
               \A c \in a + 1 .. b - 1 : N'[c].obj # i
        PROVE  N'[b].old = N'[a].new
    <3>0. a \in 1 .. Len(N) /\ N'[a] = N[a] /\ N[a].obj = i
      BY <2>2, <2>6
    <3>1. \A c \in a + 1 .. b - 1 : N[c].obj # i
      BY <2>2, <2>6
    <3>2. CASE b = last
      <4>1. o = i /\ N'[b].old = cache[i]
        BY <1>2, <2>2, <2>6, <3>2
      <4>2. \A c \in a + 1 .. Len(N) : N[c].obj # i
        BY <2>2, <3>1, <3>2
      <4>. QED  BY <1>3, <3>0, <4>1, <4>2 DEF ChainOf
    <3>3. CASE b \in a + 1 .. Len(N)
      <4>1. N'[b] = N[b]
        BY <2>2, <3>0, <3>3
      <4>. QED  BY <1>3, <2>6, <3>0, <3>1, <3>3, <4>1 DEF ChainOf
    <3>. QED  BY <2>2, <3>2, <3>3
  <2>. QED  BY <2>3, <2>4, <2>5, <2>6 DEF ChainOf
<1>. QED  BY <1>4, <1>5

(* The handlers bring the lister from where a notification begins to where *)
(* it ends.                                                                *)
LEMMA HandlersFollow ==
  ASSUME TypeInv, HandlerStep("ingress"), API = "networking",
         lister[Head(notes["ingress"]).obj] = View(Head(notes["ingress"]).old)
  PROVE  lister' = [lister EXCEPT ![Head(notes["ingress"]).obj] = View(Head(notes["ingress"]).new)]
<1>. DEFINE n == Head(notes["ingress"])
<1>0. "ingress" \in Kinds /\ Handled("ingress")
  BY DEF Kinds, HandlerStep, AddIngress, UpdateIngress, DeleteIngress, HandleOther
<1>1. n \in TypedNotes("ingress")
  BY <1>0, HandledType
<1>2. n.obj \in Ingresses /\ (n.old # None \/ n.new # None)
  BY <1>1, Kinded DEF TypedNotes, Notes
<1>3. lister \in [Ingresses -> {Stored(x) : x \in IngressValues} \cup {None}]
  BY DEF TypeInv, Listed
<1>4. CASE AddIngress
  BY <1>2, <1>3, <1>4 DEF AddIngress, StoreIngress, Ignore, View
<1>5. CASE DeleteIngress
  BY <1>2, <1>3, <1>5 DEF DeleteIngress, ingDeleteHandler, Ignore, View
<1>6. CASE UpdateIngress
  BY <1>2, <1>3, <1>6 DEF UpdateIngress, StoreIngress, ingDeleteHandler, Ignore, View
<1>. QED  BY <1>4, <1>5, <1>6 DEF HandlerStep, HandleOther

(* Handling the first notification of a chain leaves the rest of it. *)
LEMMA HandlersKeepChains ==
  ASSUME TypeInv, ListerInv, HandlerStep("ingress"), API = "networking"
  PROVE  ListerInv'
<1>. DEFINE N == notes["ingress"]
            n == Head(N)
<1>0. "ingress" \in Kinds /\ Handled("ingress")
  BY DEF Kinds, HandlerStep, AddIngress, UpdateIngress, DeleteIngress, HandleOther
<1>1. /\ N \in Seq(TypedNotes("ingress")) /\ N # <<>> /\ N' = Tail(N)
      /\ UNCHANGED cache
  BY <1>0, HandledType DEF TypeInv, Handled
<1>2. n \in TypedNotes("ingress") /\ n.obj \in Ingresses
  BY <1>1, HeadTailProperties, Kinded DEF TypedNotes, Notes
<1>3. /\ Len(N) \in Nat \ {0} /\ Len(N') = Len(N) - 1 /\ n = N[1]
      /\ \A a \in 1 .. Len(N') : N'[a] = N[a + 1]
  BY <1>1
<1>4. lister[n.obj] = View(n.old)
  <2>1. ChainOf(n.obj, N)
    BY <1>2 DEF ListerInv
  <2>. HIDE DEF N, n
  <2>. QED  BY <1>3, <2>1 DEF ChainOf
<1>5. lister' = [lister EXCEPT ![n.obj] = View(n.new)]
  BY <1>4, HandlersFollow
<1>. SUFFICES ASSUME NEW i \in Ingresses PROVE ChainOf(i, N)'
  BY DEF ListerInv
<1>6. ChainOf(i, N)
  BY DEF ListerInv
<1>7. lister'[i] = IF i = n.obj THEN View(n.new) ELSE lister[i]
  BY <1>5 DEF TypeInv, Listed
<1>. HIDE DEF N, n
<1>8. ASSUME \A a \in 1 .. Len(N') : N'[a].obj # i
      PROVE  lister'[i] = View(cache[i])
  <2>1. \A a \in 2 .. Len(N) : N[a].obj # i
    <3>. SUFFICES ASSUME NEW a \in 2 .. Len(N) PROVE N[a].obj # i
      OBVIOUS
    <3>1. a - 1 \in 1 .. Len(N') /\ N'[a - 1] = N[a]
      BY <1>3
    <3>. QED  BY <1>8, <3>1
  <2>. QED  BY <1>3, <1>6, <1>7, <2>1 DEF ChainOf
<1>9. ASSUME NEW a \in 1 .. Len(N'), N'[a].obj = i
      PROVE  /\ (\A b \in 1 .. a - 1 : N'[b].obj # i) => lister'[i] = View(N'[a].old)
             /\ (\A b \in a + 1 .. Len(N') : N'[b].obj # i) => N'[a].new = cache[i]
             /\ \A b \in a + 1 .. Len(N') :
                  N'[b].obj = i /\ (\A c \in a + 1 .. b - 1 : N'[c].obj # i)
                    => N'[b].old = N'[a].new
  <2>0. a + 1 \in 2 .. Len(N) /\ N'[a] = N[a + 1] /\ N[a + 1].obj = i
    BY <1>3, <1>9
  <2>1. ASSUME \A b \in 1 .. a - 1 : N'[b].obj # i PROVE lister'[i] = View(N'[a].old)
    <3>1. \A b \in 2 .. a : N[b].obj # i
      <4>. SUFFICES ASSUME NEW b \in 2 .. a PROVE N[b].obj # i
        OBVIOUS
      <4>1. b - 1 \in 1 .. a - 1 /\ b - 1 \in 1 .. Len(N') /\ N'[b - 1] = N[b]
        BY <1>3
      <4>. QED  BY <2>1, <4>1
    <3>2. CASE n.obj = i
      <4>1. N[a + 1].old = N[1].new
        BY <1>3, <1>6, <2>0, <3>1, <3>2 DEF ChainOf
      <4>. QED  BY <1>3, <1>7, <2>0, <3>2, <4>1
    <3>3. CASE n.obj # i
      <4>1. \A b \in 1 .. (a + 1) - 1 : N[b].obj # i
        BY <1>3, <3>1, <3>3
      <4>. QED  BY <1>6, <1>7, <2>0, <3>3, <4>1 DEF ChainOf
    <3>. QED  BY <3>2, <3>3
  <2>2. ASSUME \A b \in a + 1 .. Len(N') : N'[b].obj # i PROVE N'[a].new = cache[i]
    <3>1. \A b \in (a + 1) + 1 .. Len(N) : N[b].obj # i
      <4>. SUFFICES ASSUME NEW b \in (a + 1) + 1 .. Len(N) PROVE N[b].obj # i
        OBVIOUS
      <4>1. b - 1 \in a + 1 .. Len(N') /\ b - 1 \in 1 .. Len(N') /\ N'[b - 1] = N[b]
        BY <1>3
      <4>. QED  BY <2>2, <4>1
    <3>. QED  BY <1>6, <2>0, <3>1 DEF ChainOf
  <2>3. ASSUME NEW b \in a + 1 .. Len(N'), N'[b].obj = i,
               \A c \in a + 1 .. b - 1 : N'[c].obj # i
        PROVE  N'[b].old = N'[a].new
    <3>1. \A c \in (a + 1) + 1 .. (b + 1) - 1 : N[c].obj # i
      <4>. SUFFICES ASSUME NEW c \in (a + 1) + 1 .. (b + 1) - 1 PROVE N[c].obj # i
        OBVIOUS
      <4>1. c - 1 \in a + 1 .. b - 1 /\ c - 1 \in 1 .. Len(N') /\ N'[c - 1] = N[c]
        BY <1>3
      <4>. QED  BY <2>3, <4>1
    <3>2. b + 1 \in (a + 1) + 1 .. Len(N) /\ N'[b] = N[b + 1]
      BY <1>3
    <3>. QED  BY <1>6, <2>0, <2>3, <3>1, <3>2 DEF ChainOf
  <2>. QED  BY <2>1, <2>2, <2>3
<1>. QED  BY <1>1, <1>8, <1>9 DEF ChainOf

LEMMA NextListerInv ==
  ASSUME API = "networking", TypeInv, ListerInv, [Next]_vars
  PROVE  ListerInv'
<1>0. "ingress" \in Kinds
  BY DEF Kinds
<1>. USE DEF syncVars, boundVars
<1>1. ASSUME NEW o \in Objects, NEW tomb \in BOOLEAN, Deliver(o, tomb) PROVE ListerInv'
  <2>1. /\ cache[o] # None \/ api[o] # None
        /\ api[o] \in Object(o)
        /\ Tell(Note(o, cache[o], api[o], tomb))
        /\ cache' = [cache EXCEPT ![o] = api[o]] /\ UNCHANGED lister
    BY <1>1 DEF Deliver, TypeInv
  <2>. QED  BY <2>1, TellKeepsChains
<1>2. ASSUME NEW o \in Objects, Relist(o) PROVE ListerInv'
  <2>1. /\ cache[o] # None /\ cache[o] \in Object(o)
        /\ Tell(Note(o, cache[o], cache[o], FALSE))
        /\ cache' = [cache EXCEPT ![o] = cache[o]] /\ UNCHANGED lister
    BY <1>2 DEF Relist, TypeInv
  <2>. QED  BY <2>1, TellKeepsChains
<1>3. ASSUME NEW k \in Kinds, HandlerStep(k), k # "ingress" PROVE ListerInv'
  <2>1. Handled(k) /\ UNCHANGED <<lister, cache>>
    BY <1>3 DEF HandlerStep, HandleOther, Handled
  <2>2. notes'["ingress"] = notes["ingress"]
    BY <1>0, <1>3, <2>1, HandledType
  <2>. DEFINE N == notes["ingress"]
  <2>. SUFFICES ASSUME NEW i \in Ingresses PROVE ChainOf(i, N)'
    BY DEF ListerInv
  <2>3. ChainOf(i, N) /\ N' = N
    BY <2>2 DEF ListerInv
  <2>. HIDE DEF N
  <2>. QED  BY <2>1, <2>3 DEF ChainOf
<1>4. ASSUME UNCHANGED <<notes, lister, cache>> PROVE ListerInv'
  BY <1>4 DEF ListerInv, ChainOf
<1>5. ASSUME NEW o \in Objects, \/ \E x : Change(o, x) \/ ChangeService(x)
                                \/ \E k \in Kinds : HasSynced(k)
      PROVE  ListerInv'
  BY <1>4, <1>5 DEF Change, ChangeService, HasSynced
<1>6. CASE StartStep \/ SyncStep \/ Stop \/ UNCHANGED vars
  BY <1>4, <1>6 DEF StartStep, Begin, StartIngressInformer, EnterLoop, TakeEvent, SyncStep,
                    SyncList, SyncService, SyncEndpoints, Stop, vars
<1>. QED  BY Parts, <1>1, <1>2, <1>3, <1>5, <1>6, HandlersKeepChains

---------------------------------------------------------------------------
(* The settings the store parses are those the annotations ask for. *)

LEMMA ErrorsDiffer == ErrMissingAnnotations # NoError /\ InvalidContent # NoError
BY DEF ErrMissingAnnotations, NoError, InvalidContent

LEMMA TextsOf ==
  /\ Texts(<<>>) = <<>>
  /\ \A t : Texts(Text(t)) = <<t>>
  /\ \A t, u : Text(t) = Text(u) => t = u
  /\ \A t : Text(t) # <<>> /\ Text(t)[1].text = t
BY DEF Texts, Text, Line

LEMMA NormalizedTexts ==
  ASSUME NEW c \in Seq([text : STRING, padded : BOOLEAN]) \ {<<>>}
  PROVE  /\ Texts(normalizeString(c)) = Texts(c)
         /\ normalizeString(c) = Text("") <=> Texts(c) = <<"">>
         /\ Texts(c) # <<>>
<1>0. Len(c) \in Nat \ {0} /\ DOMAIN c = 1 .. Len(c) /\ DOMAIN normalizeString(c) = DOMAIN c
  BY DEF normalizeString
<1>1. \A a \in DOMAIN c : normalizeString(c)[a] = Line(c[a].text)
                          /\ normalizeString(c)[a].text = c[a].text
  BY DEF normalizeString, Line
<1>2. Texts(normalizeString(c)) = Texts(c)
  BY <1>0, <1>1 DEF Texts
<1>3. Texts(c) # <<>>
  <2>1. DOMAIN Texts(c) = 1 .. Len(c)
    BY <1>0 DEF Texts
  <2>. QED  BY <1>0, <2>1
<1>4. normalizeString(c) = Text("") => Texts(c) = <<"">>
  BY <1>2, TextsOf
<1>5. ASSUME Texts(c) = <<"">> PROVE normalizeString(c) = Text("")
  <2>. DEFINE l == Line("")
  <2>1. DOMAIN Texts(c) = DOMAIN c /\ \A a \in DOMAIN c : Texts(c)[a] = c[a].text
    BY DEF Texts
  <2>2. DOMAIN <<"">> = 1 .. 1 /\ <<"">>[1] = ""
    OBVIOUS
  <2>3. DOMAIN c = 1 .. 1 /\ \A a \in DOMAIN c : a = 1 /\ c[a].text = ""
    <3>. DEFINE e == <<"">>
    <3>1. DOMAIN e = 1 .. 1 /\ e[1] = "" /\ Texts(c) = e
      BY <1>5, <2>2
    <3>. HIDE DEF e
    <3>2. DOMAIN c = 1 .. 1
      BY <2>1, <3>1
    <3>3. ASSUME NEW a \in DOMAIN c PROVE a = 1 /\ c[a].text = ""
      <4>1. a \in 1 .. 1
        BY <3>2
      <4>2. a = 1
        BY <4>1
      <4>3. c[a].text = e[a]
        BY <2>1, <3>1
      <4>. QED  BY <3>1, <4>2, <4>3
    <3>. QED  BY <3>2, <3>3
  <2>4. normalizeString(c) = [a \in 1 .. 1 |-> l]
    <3>1. \A a \in DOMAIN c : Line(c[a].text) = l
      BY <2>3
    <3>. HIDE DEF l
    <3>. QED  BY <2>3, <3>1 DEF normalizeString
  <2>. HIDE DEF l
  <2>5. [a \in 1 .. 1 |-> l] = <<l>>
    OBVIOUS
  <2>. QED  BY <2>4, <2>5 DEF Text, l
<1>. QED  BY <1>2, <1>3, <1>4, <1>5

LEMMA StoredShows ==
  ASSUME NEW x \in IngressValues, IsValid(x)
  PROVE  Shows(x, Stored(x))
<1>. DEFINE proxy == Stored(x).ParsedAnnotations.Proxy
            timeout == GetIntAnnotation("proxy-read-timeout", x)
            size == GetStringAnnotation("proxy-body-size", x)
<1>1. /\ proxy.ReadTimeout = IF timeout.err = NoError THEN timeout.val ELSE 300
      /\ proxy.BodySize = IF size.err = NoError THEN size.val ELSE Text("10m")
  BY DEF Stored, Extract, Parse, Ok, NoError
<1>2. LET timeouts == {t \in DOMAIN Atoi : Content(x, "proxy-read-timeout") = Text(t)}
      IN IF timeouts = {} THEN proxy.ReadTimeout = 300
         ELSE \E t \in timeouts : proxy.ReadTimeout = Atoi[t]
  <2>. DEFINE name == WithPrefix("proxy-read-timeout")
              content == x.annotations[name]
  <2>1. CASE name \notin DOMAIN x.annotations
    <3>1. timeout.err # NoError
      BY <2>1, ErrorsDiffer DEF GetIntAnnotation, parseInt, Fail
    <3>2. \A t : Content(x, "proxy-read-timeout") # Text(t)
      BY <2>1, TextsOf DEF Content
    <3>. HIDE DEF proxy, timeout, size
    <3>. QED  BY <1>1, <3>1, <3>2
  <2>2. CASE name \in DOMAIN x.annotations
    <3>1. /\ Content(x, "proxy-read-timeout") = content
          /\ timeout = parseInt(x.annotations, name)
      BY <2>2 DEF Content, GetIntAnnotation, HasAnnotations
    <3>2. CASE \E t \in DOMAIN Atoi : content = Text(t)
      <4>1. PICK t \in DOMAIN Atoi : content = Text(t)
        BY <3>2
      <4>2. timeout = Ok(Atoi[t])
        BY <2>2, <3>1, <4>1, TextsOf DEF parseInt
      <4>3. timeout.err = NoError /\ timeout.val = Atoi[t]
        BY <4>2 DEF Ok
      <4>. HIDE DEF proxy, timeout, size
      <4>. QED  BY <1>1, <3>1, <4>1, <4>3
    <3>3. CASE ~ \E t \in DOMAIN Atoi : content = Text(t)
      <4>1. timeout = Fail(0, InvalidContent)
        BY <2>2, <3>1, <3>3 DEF parseInt
      <4>2. timeout.err # NoError
        BY <4>1, ErrorsDiffer DEF Fail
      <4>. HIDE DEF proxy, timeout, size
      <4>. QED  BY <1>1, <3>1, <3>3, <4>2
    <3>. QED  BY <3>2, <3>3
  <2>. QED  BY <2>1, <2>2
<1>3. LET asked == Texts(Content(x, "proxy-body-size"))
      IN Texts(proxy.BodySize) = IF asked \in {<<>>, <<"">>} THEN <<"10m">> ELSE asked
  <2>. DEFINE name == WithPrefix("proxy-body-size")
              content == x.annotations[name]
  <2>1. CASE name \notin DOMAIN x.annotations
    <3>1. size.err # NoError
      BY <2>1, ErrorsDiffer DEF GetStringAnnotation, parseString, Fail
    <3>2. Texts(Content(x, "proxy-body-size")) = <<>>
      BY <2>1, TextsOf DEF Content
    <3>. HIDE DEF proxy, timeout, size
    <3>. QED  BY <1>1, <3>1, <3>2, TextsOf
  <2>2. CASE name \in DOMAIN x.annotations
    <3>1. /\ Content(x, "proxy-body-size") = content
          /\ size = parseString(x.annotations, name)
          /\ content \in Seq([text : STRING, padded : BOOLEAN]) \ {<<>>}
      BY <2>2, ObjectsAssumption DEF Content, GetStringAnnotation, HasAnnotations
    <3>2. CASE normalizeString(content) = Text("")
      <4>1. size = Fail(Text(""), InvalidContent)
        BY <2>2, <3>1, <3>2 DEF parseString
      <4>2. size.err # NoError
        <5>. HIDE DEF size
        <5>. QED  BY <4>1, ErrorsDiffer DEF Fail
      <4>3. proxy.BodySize = Text("10m") /\ Texts(Text("10m")) = <<"10m">>
        BY <1>1, <4>2, TextsOf
      <4>4. Texts(content) = <<"">>
        BY <3>1, <3>2, NormalizedTexts
      <4>. HIDE DEF proxy, timeout, size, content
      <4>. QED  BY <3>1, <4>3, <4>4
    <3>3. CASE normalizeString(content) # Text("")
      <4>1. size = Ok(normalizeString(content))
        BY <2>2, <3>1, <3>3 DEF parseString
      <4>2. size.err = NoError /\ size.val = normalizeString(content)
        BY <4>1 DEF Ok
      <4>. HIDE DEF proxy, timeout, size, content
      <4>3. proxy.BodySize = normalizeString(content)
        BY <1>1, <4>2
      <4>4. Texts(content) \notin {<<>>, <<"">>}
        BY <3>1, <3>3, NormalizedTexts
      <4>. QED  BY <3>1, <4>3, <4>4, NormalizedTexts
    <3>. QED  BY <3>2, <3>3
  <2>. QED  BY <2>1, <2>2
<1>4. AsAsked(x, proxy)
  <2>. HIDE DEF proxy
  <2>. QED  BY <1>2, <1>3 DEF AsAsked
<1>5. /\ Stored(x).annotations = x.annotations
      /\ \A r \in DOMAIN x.rules : \A p \in DOMAIN x.rules[r] :
            \/ Stored(x).rules[r][p] = x.rules[r][p]
            \/ x.rules[r][p] = "" /\ Stored(x).rules[r][p] = "/"
  BY DEF Stored
<1>. QED  BY <1>4, <1>5, ObjectsAssumption DEF Shows

(* With the networking API, whose tombstones are taken, the lister holds   *)
(* what the informer's store holds of the class, whatever happened to the  *)
(* ingresses and however often they were listed anew, once every           *)
(* notification was handled; and each with the settings it asks for.       *)
THEOREM ListerCorrect == API = "networking" => (Spec => []ListerFollows)
<1>. SUFFICES ASSUME API = "networking" PROVE Spec => []ListerFollows
  OBVIOUS
<1>1. TypeInv /\ ListerInv => ListerFollows
  <2>. SUFFICES ASSUME TypeInv, ListerInv, notes["ingress"] = <<>>, NEW i \in Ingresses
                PROVE  Shows(cache[i], lister[i])
    BY DEF ListerFollows
  <2>1. lister[i] = View(cache[i])
    BY DEF ListerInv, ChainOf
  <2>2. cache[i] \in IngressValues \cup {None}
    BY DEF TypeInv, Object, Objects
  <2>3. CASE cache[i] # None /\ IsValid(cache[i])
    BY <2>1, <2>2, <2>3, StoredShows DEF View
  <2>4. CASE cache[i] = None \/ ~IsValid(cache[i])
    BY <2>1, <2>4 DEF View, Shows
  <2>. QED  BY <2>3, <2>4
<1>2. TypeInv /\ ListerInv /\ [Next]_vars => ListerInv'
  BY NextListerInv
<1>. QED  BY <1>1, <1>2, InitTypeInv, NextTypeInv, InitListerInv, PTL DEF Spec
=============================================================================
