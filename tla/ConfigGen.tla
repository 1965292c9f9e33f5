------------------------------ MODULE ConfigGen ------------------------------
(***************************************************************************)
(* What a sync computes: getConfiguration and the functions it calls in    *)
(* internal/ingress/controller (controller.go, util.go, endpoints.go), the *)
(* order of ListIngresses (store.go), and the comparison with the running  *)
(* configuration (types_equals.go, config_equals.go, sets/match.go) that   *)
(* decides whether the handler is given the new one.                       *)
(*                                                                         *)
(* A Kubernetes name is the sequence of its dash-separated parts, so that  *)
(* joining names with dashes is concatenation.  Ports are strings, as they *)
(* are in the code once they are compared.                                 *)
(***************************************************************************)
EXTENDS Integers, Sequences, SequencesExt, FiniteSetsExt

CONSTANTS Names,          \* names of Ingress objects
          IngressSpecs,   \* what an ingress may say: [ns, rules]
          ServiceSpecs,   \* what a Service may say
          EndpointSpecs,  \* what an Endpoints object may say: a list of subsets
          PortNumbers,    \* the ports that are numbers
          IPs,            \* the external names that are IP addresses
          None,
          MaxChanges      \* bound: changes of the cluster

(* The objects of the API server carry lists. *)
IsList(s) == s \in Seq(ToSet(s))

ASSUME GenAssumption ==
  /\ MaxChanges \in Nat /\ IsFiniteSet(Names)
  /\ \A ing \in IngressSpecs : IsList(ing.rules) /\ \A r \in ToSet(ing.rules) : IsList(r.paths)
  /\ \A svc \in ServiceSpecs : IsList(svc.ports)
  /\ \A subsets \in EndpointSpecs : IsList(subsets)
       /\ \A s \in ToSet(subsets) : IsList(s.addresses) /\ IsList(s.ports)

Paths(ing) == UNION {ToSet(r.paths) : r \in ToSet(ing.rules)}
SvcKeys == UNION {{<<ing.ns, p.svc>> : p \in Paths(ing)} : ing \in IngressSpecs}

VARIABLES ingresses,  \* per name, [spec, created] or None
          services,   \* per key, a Service or None
          endpoints,  \* per key, the subsets of its Endpoints object or None
          dns,        \* whether external names resolve
          now,        \* the second of the last creation
          running,    \* runningConfig.Services, a list of [Hostname, Backend]
          synced,     \* nothing has changed since the last sync
          up,         \* the process has not panicked
          changes

vars == <<ingresses, services, endpoints, dns, now, running, synced, up, changes>>
clusterVars == <<ingresses, services, endpoints, dns, now, changes>>

---------------------------------------------------------------------------
(* Equality of configurations. *)

(* Mutant of EndpointEqual: the port is forgotten. *)
EndpointEqualNoPort(e1, e2) == e1.Address = e2.Address /\ e1.Target = e2.Target

(* Endpoint.Equal *)
EndpointEqual(e1, e2) ==
  e1.Address = e2.Address /\ e1.Port = e2.Port /\ e1.Target = e2.Target

(* The positions of two lists. *)
Positions(a, b) == (1 .. Len(a)) \X (1 .. Len(b))

(* sets.Compare: every element of a is found, in turn, as the first        *)
(* element of b that is equal and was not found before.  `same' holds the  *)
(* positions with equal elements.  The lists compared are never nil, or    *)
(* nil exactly when they are empty.                                        *)
Compare(a, b, same) ==
  /\ Len(a) = Len(b)
  /\ \E found \in [1 .. Len(a) -> 1 .. Len(b)] : \A i \in 1 .. Len(a) :
       LET unvisited == {j \in 1 .. Len(b) : <<i, j>> \in same} \ {found[k] : k \in 1 .. i - 1}
       IN found[i] \in unvisited /\ \A j \in unvisited : found[i] <= j

(* Backend.Equal *)
BackendEqual(b1, b2) ==
  LET e1 == b1.Endpoints
      e2 == b2.Endpoints
  IN /\ b1.Name = b2.Name /\ b1.Service = b2.Service
     /\ Compare(e1, e2, {p \in Positions(e1, e2) : EndpointEqual(e1[p[1]], e2[p[2]])})

(* ConfigurationBackend.Equal *)
ServiceEqual(s1, s2) == s1.Hostname = s2.Hostname /\ BackendEqual(s1.Backend, s2.Backend)

(* Mutant of Equal: the lists are compared position by position. *)
EqualInOrder(c1, c2) ==
  Len(c1) = Len(c2) /\ \A i \in 1 .. Len(c1) : ServiceEqual(c1[i], c2[i])

(* Configuration.Equal *)
Equal(c1, c2) ==
  Compare(c1, c2, {p \in Positions(c1, c2) : ServiceEqual(c1[p[1]], c2[p[2]])})

---------------------------------------------------------------------------
(* The configuration of the cluster. *)

(* ListIngresses: oldest first; those of one second in the order of a map. *)
ListIngresses ==
  {l \in SetToSeqs({n \in Names : ingresses[n] # None}) :
     \A i, j \in 1 .. Len(l) :
       i < j => ingresses[l[i]].created <= ingresses[l[j]].created}

(* The rules in the order in which both loops visit them: <<i, j>> is rule *)
(* j of ingress i.                                                         *)
Visits(list) ==
  UNION {{i} \X (1 .. Len(ingresses[list[i]].spec.rules)) : i \in 1 .. Len(list)}
Before(v, w) == v[1] < w[1] \/ (v[1] = w[1] /\ v[2] < w[2])
FirstOf(vs) == CHOOSE v \in vs : \A w \in vs \ {v} : Before(v, w)
LastOf(vs) == CHOOSE v \in vs : \A w \in vs \ {v} : Before(w, v)
Rule(list, v) ==
  LET s == ingresses[list[v[1]]].spec
  IN [ns |-> s.ns, host |-> s.rules[v[2]].host, paths |-> s.rules[v[2]].paths]

(* getEndpoints: of every subset the TCP ports of the right name, or all   *)
(* of them when the port of the Service has no name, with its addresses;   *)
(* an address and port that was met before is left out.                    *)
EndpointsOfPort(as, p) ==
  [a \in 1 .. Len(as) |-> [Address |-> as[a].ip, Port |-> p.port, Target |-> as[a].target]]
EndpointsOfSubset(subset, portName) ==
  FlattenSeq([i \in 1 .. Len(subset.ports) |->
    IF subset.ports[i].tcp /\ portName \in {"", subset.ports[i].name}
    THEN EndpointsOfPort(subset.addresses, subset.ports[i]) ELSE <<>>])
AllEndpoints(subsets, portName) ==
  FlattenSeq([s \in 1 .. Len(subsets) |-> EndpointsOfSubset(subsets[s], portName)])
SameServer(e1, e2) == e1.Address = e2.Address /\ e1.Port = e2.Port
FirstOfEach(eps) ==
  LET kept[i \in 0 .. Len(eps)] ==
        IF i = 0 THEN <<>>
        ELSE IF \E e \in ToSet(kept[i - 1]) : SameServer(e, eps[i]) THEN kept[i - 1]
        ELSE Append(kept[i - 1], eps[i])
  IN kept[Len(eps)]
getEndpoints(key, portName) ==
  IF endpoints[key] = None THEN <<>> ELSE FirstOfEach(AllEndpoints(endpoints[key], portName))

(* A port of a Service is meant by its number, target port or name. *)
PortMatches(p, port) == port \in {p.port, p.targetPort, p.name}

(* Only a name that is not an IP address is looked up. *)
Resolves(externalName) == externalName \in IPs \/ dns

(* serviceEndpoints: the first port that matches; an ExternalName Service  *)
(* takes numbers only, and has to resolve.                                 *)
serviceEndpoints(key, port) ==
  LET svc == services[key]
      i == SelectInSeq(svc.ports, LAMBDA p : PortMatches(p, port))
  IN IF svc = None THEN <<>>
     ELSE IF svc.external # None
          THEN IF port \in PortNumbers /\ Resolves(svc.external)
               THEN <<[Address |-> svc.external, Port |-> port, Target |-> None]>>
               ELSE <<>>
          ELSE IF i = 0 THEN <<>> ELSE getEndpoints(key, svc.ports[i].name)

(* upstreamName: namespace-service-port *)
upstreamName(r) == r.ns \o r.paths[1].svc \o <<r.paths[1].port>>

(* createUpstreams: a rule replaces the upstream that an earlier rule put  *)
(* under its name.  Only the first path of a rule is looked at.            *)
Upstream(r) ==
  LET key == <<r.ns, r.paths[1].svc>>
  IN [Name |-> upstreamName(r),
      Service |-> IF services[key] = None THEN None ELSE key,
      Endpoints |-> serviceEndpoints(key, r.paths[1].port)]
createUpstreams(list) ==
  [u \in {upstreamName(Rule(list, v)) : v \in Visits(list)} |->
     Upstream(Rule(list, LastOf({v \in Visits(list) : upstreamName(Rule(list, v)) = u})))]

(* createServers: the first rule for a host has it; "" is no host. *)
ServingRule(list, h) == Rule(list, FirstOf({v \in Visits(list) : Rule(list, v).host = h}))
createServers(list, upstreams) ==
  [h \in {Rule(list, v).host : v \in Visits(list)} \ {""} |->
     upstreams[upstreamName(ServingRule(list, h))]]

(* getConfiguration: the servers, in the order of a map. *)
getConfiguration(list) ==
  LET servers == createServers(list, createUpstreams(list))
  IN {[i \in 1 .. Len(hs) |-> [Hostname |-> hs[i], Backend |-> servers[hs[i]]]] :
        hs \in SetToSeqs(DOMAIN servers)}

Panics(list) == \E v \in Visits(list) : Rule(list, v).paths = <<>>

---------------------------------------------------------------------------
Init ==
  /\ ingresses = [n \in Names |-> None]
  /\ services = [k \in SvcKeys |-> None]
  /\ endpoints = [k \in SvcKeys |-> None]
  /\ dns = TRUE /\ now = 0
  /\ running = <<>> /\ synced = FALSE /\ up = TRUE
  /\ changes = 0

Changed ==
  /\ changes < MaxChanges
  /\ changes' = changes + 1
  /\ synced' = FALSE
  /\ UNCHANGED <<running, up>>

PutIngress(n, spec) ==
  /\ Changed
  /\ \/ /\ ingresses[n] = None
        /\ \E gap \in 0 .. 1 : now' = now + gap
        /\ ingresses' = [ingresses EXCEPT ![n] = [spec |-> spec, created |-> now']]
     \/ /\ ingresses[n] # None /\ ingresses[n].spec # spec
        /\ ingresses' = [ingresses EXCEPT ![n].spec = spec]
        /\ UNCHANGED now
  /\ UNCHANGED <<services, endpoints, dns>>

DeleteIngress(n) ==
  /\ Changed
  /\ ingresses[n] # None
  /\ ingresses' = [ingresses EXCEPT ![n] = None]
  /\ UNCHANGED <<services, endpoints, dns, now>>

PutService(k, svc) ==
  /\ Changed
  /\ services[k] # svc
  /\ services' = [services EXCEPT ![k] = svc]
  /\ UNCHANGED <<ingresses, endpoints, dns, now>>

PutEndpoints(k, subsets) ==
  /\ Changed
  /\ endpoints[k] # subsets
  /\ endpoints' = [endpoints EXCEPT ![k] = subsets]
  /\ UNCHANGED <<ingresses, services, dns, now>>

ChangeDNS ==
  /\ Changed
  /\ dns' = ~dns
  /\ UNCHANGED <<ingresses, services, endpoints, now>>

(* syncIngress: an equal configuration is dropped, another one replaces    *)
(* the running one.                                                        *)
syncIngress ==
  /\ up
  /\ \E list \in ListIngresses :
       /\ ~Panics(list)
       /\ \E generated \in getConfiguration(list) :
            running' = IF Equal(running, generated) THEN running ELSE generated
  /\ synced' = TRUE
  /\ UNCHANGED <<clusterVars, up>>

(* A rule without paths: Paths[0] panics and the process ends. *)
SyncPanics ==
  /\ up
  /\ \E list \in ListIngresses : Panics(list)
  /\ up' = FALSE
  /\ UNCHANGED <<clusterVars, running, synced>>

Restart ==
  /\ ~up
  /\ up' = TRUE
  /\ running' = <<>>
  /\ synced' = FALSE
  /\ UNCHANGED clusterVars

Next ==
  \/ \E n \in Names : DeleteIngress(n) \/ \E spec \in IngressSpecs : PutIngress(n, spec)
  \/ \E k \in SvcKeys : \/ \E svc \in ServiceSpecs \cup {None} : PutService(k, svc)
                        \/ \E ss \in EndpointSpecs \cup {None} : PutEndpoints(k, ss)
  \/ ChangeDNS
  \/ syncIngress
  \/ SyncPanics
  \/ Restart

Spec == Init /\ [][Next]_vars

---------------------------------------------------------------------------
(* Where the handler may send a request for a host: of a backend it only   *)
(* uses the addresses and ports of its endpoints.                          *)
Routes(config) ==
  UNION {{<<s.Hostname, e.Address, e.Port>> : e \in ToSet(s.Backend.Endpoints)} :
           s \in ToSet(config)}

(* The addresses of subsets with the ports that carry a name.              *)
PortPlaces(s, portName) ==
  {<<a.ip, q.port>> : a \in ToSet(s.addresses),
     q \in {q \in ToSet(s.ports) : q.tcp /\ portName \in {"", q.name}}}
ByPort(subsets, portName) == UNION {PortPlaces(s, portName) : s \in ToSet(subsets)}

(* The servers of a path, as a set: of its Service, the addresses with the *)
(* ports that carry the name of the port the path asks for.                *)
Servers(ns, p) ==
  LET key == <<ns, p.svc>>
      svc == services[key]
      first == CHOOSE q \in 1 .. Len(svc.ports) :
                 /\ PortMatches(svc.ports[q], p.port)
                 /\ \A m \in 1 .. q - 1 : ~PortMatches(svc.ports[m], p.port)
  IN IF svc = None THEN {}
     ELSE IF svc.external # None
          THEN IF p.port \in PortNumbers /\ Resolves(svc.external)
               THEN {<<svc.external, p.port>>} ELSE {}
          ELSE IF endpoints[key] = None \/ \A q \in ToSet(svc.ports) : ~PortMatches(q, p.port)
               THEN {} ELSE ByPort(endpoints[key], svc.ports[first].name)

(* The rules that may have a host: the first one for it in an ingress that *)
(* is as old as any other ingress with a rule for it.                      *)
HasHost(n, h) ==
  ingresses[n] # None /\ \E r \in ToSet(ingresses[n].spec.rules) : r.host = h
Owners(h) ==
  {n \in Names : HasHost(n, h) /\ \A m \in Names :
     HasHost(m, h) => ingresses[n].created <= ingresses[m].created}
FirstRule(n, h) ==
  LET rules == ingresses[n].spec.rules
      i == CHOOSE i \in 1 .. Len(rules) :
             rules[i].host = h /\ \A j \in 1 .. i - 1 : rules[j].host # h
  IN rules[i]
Hosts == (UNION {{r.host : r \in ToSet(ingresses[n].spec.rules)} :
                   n \in {n \in Names : ingresses[n] # None}}) \ {""}

(* No two services have the same namespace-service-port. *)
NamesDistinct(specs) ==
  \A s1, s2 \in specs : \A p1 \in Paths(s1), p2 \in Paths(s2) :
    s1.ns \o p1.svc \o <<p1.port>> = s2.ns \o p2.svc \o <<p2.port>> =>
      s1.ns = s2.ns /\ p1.svc = p2.svc /\ p1.port = p2.port

(* After a sync every host is routed to the servers of the service that    *)
(* its oldest rule names (controller.go:88-215), whether the sync replaced *)
(* the configuration or found it equal (controller.go:69) to the running   *)
(* one, which was made of other objects in another order.                  *)
RunningServes ==
  synced =>
    /\ {s.Hostname : s \in ToSet(running)} = Hosts
    /\ \A h \in Hosts : \E n \in Owners(h) :
         {<<x[2], x[3]>> : x \in {x \in Routes(running) : x[1] = h}}
           = Servers(ingresses[n].spec.ns, FirstRule(n, h).paths[1])

(* When no host is claimed by two ingresses of the same second, a sync     *)
(* without a change finds the configuration equal, in whatever order the   *)
(* maps are walked, and does not reload the backend (controller.go:69-72). *)
NoIdleReload ==
  [][synced /\ synced' /\ (\A h \in Hosts : Cardinality(Owners(h)) = 1)
       => running' = running]_vars

---------------------------------------------------------------------------
(* "Name represents an unique apiv1.Service name formatted as              *)
(* <namespace>-<name>-<port>" (types.go:25): the backend under a name is   *)
(* the one of the service that the host's rule refers to.                  *)
BackendOfOwnService ==
  synced => \A s \in ToSet(running) : \E n \in Owners(s.Hostname) :
              s.Backend.Service \in
                {<<ingresses[n].spec.ns, FirstRule(n, s.Hostname).paths[1].svc>>, None}

(* "createUpstreams creates the upstreams (Endpoints) for each Service     *)
(* referenced in Ingress rules" (controller.go:160-161).                   *)
EveryServiceHasUpstream ==
  \A list \in ListIngresses : ~Panics(list) =>
    \A v \in Visits(list) : \A p \in ToSet(Rule(list, v).paths) :
      (Rule(list, v).ns \o p.svc \o <<p.port>>) \in DOMAIN createUpstreams(list)
=============================================================================
