--------------------------- MODULE StickySessions ---------------------------
(***************************************************************************)
(* Several controller processes that share one session table: the HTTP     *)
(* handler of each (internal/ingress/handler/http/handler.go), the         *)
(* configuration it is given by the sync loop (OnUpdate in wls.go,         *)
(* syncIngress in controller.go), and the cleaning of the table by the     *)
(* leader (OnUpdate, and the poll of status.go).  The table and the passes *)
(* over it are those of RedisManager.                                      *)
(*                                                                         *)
(* The cluster is two logs, one of the hosts that have an ingress and one  *)
(* of the addresses of the service behind each host; every process sees a  *)
(* prefix of each (its informer caches).  That a change of the caches puts *)
(* an item on the sync queue is what SyncPipeline shows, and that sync is  *)
(* called after it what TaskQueue promises.  The sync and the poll list    *)
(* the ingresses in one call and then read the Endpoints of one service    *)
(* after the other without a lock, so that the cache may change            *)
(* between two of these reads.                                             *)
(***************************************************************************)
EXTENDS RedisManager, Sequences

CONSTANTS Hosts,        \* a host stands for its rule and the service behind it
          Matched,      \* hosts whose Service is there and has the port of the rule
          Polls,        \* polls of statusSync that may run in one process
          Requests,     \* goroutines of the HTTP servers
          PortOf,       \* the port of the service behind each host
          WLSPort,      \* 7001
          InitHosts,    \* hosts that have an ingress at first
          InitAddrs,    \* the addresses behind each host at first
          Rulesets,     \* bound: what the set of hosts with an ingress may become
          Populations,  \* bound: what the Endpoints of each service may become
          MaxChanges,   \* bound: changes of ingresses and of endpoints
          MaxTerms,     \* bound: terms of leadership
          MaxRequests,  \* bound: requests
          MaxInputs     \* bound: changes, terms and requests together

ASSUME HostsAssumption ==
  /\ InitHosts \subseteq Hosts /\ Matched \subseteq Hosts
  /\ InitAddrs \in [Hosts -> SUBSET Addrs]
  /\ Rulesets \subseteq SUBSET Hosts
  /\ Populations \in [Hosts -> SUBSET ((SUBSET Addrs) \cup {None})]
  /\ "worker" \notin Polls /\ Callers = Polls \cup {"worker"}
  /\ MaxChanges \in Nat /\ MaxTerms \in Nat /\ MaxRequests \in Nat /\ MaxInputs \in Nat
  /\ \A as \in SUBSET Addrs : None # as
  /\ None \notin Hosts /\ None \notin Cookies /\ None \notin Procs
  /\ None # WLSPort /\ \A h \in Hosts : None # PortOf[h]

VARIABLES
  ings,      \* log of the set of hosts with an ingress
  eps,       \* log of the addresses per host; None without Endpoints object
  ingView,   \* per process, the index in ings its cache is at
  epView,    \* per process, the index in eps its cache is at
  queued,    \* whether the sync queue of each process holds an item
  reading,   \* per thread, the ingresses listed and where in eps its reads began
  plan,      \* configuration generated by a sync and not yet applied
  config,    \* targetConfig and runningConfig, per process and host
  leader,    \* currentLeader
  terms,
  proxyMap,  \* per process and address, the port of the stored proxy
  issued,    \* session ids made up by upstreams
  known,     \* session ids that have reached the client
  rpc, rproc, rhost, raddr, rport, rcookie,   \* the requests in flight
  requests

clusterVars == <<ings, eps>>
viewVars == <<ingView, epView, queued, reading, plan, config>>
leaderVars == <<leader, terms>>
handlerVars == <<proxyMap, issued, known>>
requestVars == <<rpc, rproc, rhost, raddr, rport, rcookie>>
vars == <<redisVars, clusterVars, viewVars, leaderVars, handlerVars, requestVars, requests>>

AddrSets == (SUBSET Addrs) \cup {None}
Configs == [Hosts -> AddrSets]

Readings == [hosts : SUBSET Hosts, from : Nat \ {0}]

(* getConfiguration: no ingress, no entry; no Endpoints object or no port  *)
(* that matches, an empty list.                                            *)
Configuration(hosts, addrs) ==
  [h \in Hosts |-> IF h \notin hosts THEN None
                   ELSE IF h \notin Matched \/ addrs[h] = None THEN {} ELSE addrs[h]]

(* The ips OnUpdate collects from all the services of a configuration. *)
AllAddrs(c) == UNION {c[h] : h \in {g \in Hosts : c[g] # None}}

(* getActiveEndpoints: all the addresses of the service of every rule,     *)
(* whether the port of the rule matches or not.                            *)
ActiveEndpoints(hosts, addrs) == UNION {addrs[h] : h \in {g \in hosts : addrs[g] # None}}

(* The addresses of the services behind ingresses in the cluster now. *)
LiveAddrs == ActiveEndpoints(ings[Len(ings)], eps[Len(eps)])

Init ==
  /\ RedisInit
  /\ ings = <<InitHosts>> /\ eps = <<InitAddrs>>
  /\ ingView = [p \in Procs |-> 1]
  /\ epView = [p \in Procs |-> 1]
  /\ queued = [p \in Procs |-> TRUE]
  /\ reading = [t \in Threads |-> None]
  /\ plan = [p \in Procs |-> None]
  /\ config = [p \in Procs |-> [h \in Hosts |-> None]]
  /\ leader = [p \in Procs |-> FALSE]
  /\ terms = 0
  /\ proxyMap = [p \in Procs |-> [a \in Addrs |-> None]]
  /\ issued = Earlier /\ known = Earlier
  /\ rpc = [r \in Requests |-> "idle"]
  /\ rproc = [r \in Requests |-> None]
  /\ rhost = [r \in Requests |-> None]
  /\ raddr = [r \in Requests |-> None]
  /\ rport = [r \in Requests |-> None]
  /\ rcookie = [r \in Requests |-> None]
  /\ requests = 0

---------------------------------------------------------------------------
(* The cluster and the informers. *)
Changes == Len(ings) + Len(eps) - 2
WithinInputs == Changes + terms + requests < MaxInputs

ChangeIngresses ==
  /\ Changes < MaxChanges /\ WithinInputs
  /\ \E hs \in Rulesets : hs # ings[Len(ings)] /\ ings' = Append(ings, hs)
  /\ UNCHANGED <<redisVars, eps, viewVars, leaderVars, handlerVars, requestVars, requests>>

ChangeEndpoints(h, as) ==
  /\ Changes < MaxChanges /\ WithinInputs
  /\ eps[Len(eps)][h] # as
  /\ eps' = Append(eps, [eps[Len(eps)] EXCEPT ![h] = as])
  /\ UNCHANGED <<redisVars, ings, viewVars, leaderVars, handlerVars, requestVars, requests>>

SeeIngresses(p) ==
  /\ ingView[p] < Len(ings)
  /\ ingView' = [ingView EXCEPT ![p] = @ + 1]
  /\ queued' = [queued EXCEPT ![p] = TRUE]
  /\ UNCHANGED <<redisVars, clusterVars, epView, reading, plan, config, leaderVars, handlerVars,
                 requestVars, requests>>

SeeEndpoints(p) ==
  /\ epView[p] < Len(eps)
  /\ epView' = [epView EXCEPT ![p] = @ + 1]
  /\ queued' = [queued EXCEPT ![p] = TRUE]
  /\ UNCHANGED <<redisVars, clusterVars, ingView, reading, plan, config, leaderVars, handlerVars,
                 requestVars, requests>>

(* store.Run has filled the caches and redisManager.Start is called.       *)
(* What the API server lists may be as old as what was seen before.        *)
StartProcess(p) ==
  /\ Start(p)
  /\ UNCHANGED <<clusterVars, viewVars, leaderVars, handlerVars, requestVars, requests>>

---------------------------------------------------------------------------
(* The sync loop and the leader. *)

(* ListIngresses(nil): thread t of a process begins to make up a list. *)
ListIngresses(t) ==
  /\ reading[t] = None /\ cpc[t] = "idle"
  /\ reading' = [reading EXCEPT ![t] = [hosts |-> ings[ingView[t[1]]], from |-> epView[t[1]]]]
  /\ UNCHANGED <<redisVars, clusterVars, ingView, epView, plan, config, leaderVars, handlerVars,
                 requestVars, requests>>

(* What thread t may have read when its last read is over: the Endpoints   *)
(* of each service as they were in the cache at some time since it began,  *)
(* in any order of the services (the listers return them in that of a map).*)
Reads(t) ==
  {[h \in Hosts |-> eps[at[h]][h]] : at \in [Hosts -> reading[t].from .. epView[t[1]]]}

(* The worker takes the item off the queue and syncIngress begins. *)
StartSync(p) ==
  /\ queued[p] /\ plan[p] = None
  /\ queued' = [queued EXCEPT ![p] = FALSE]
  /\ ListIngresses(<<p, "worker">>)

(* syncIngress: the configuration is generated; an equal one is dropped.   *)
syncIngress(p) ==
  LET t == <<p, "worker">> IN
  /\ reading[t] # None
  /\ \E addrs \in Reads(t) :
       LET generated == Configuration(reading[t].hosts, addrs) IN
       plan' = [plan EXCEPT ![p] = IF generated = config[p] THEN None ELSE generated]
  /\ reading' = [reading EXCEPT ![t] = None]
  /\ UNCHANGED <<redisVars, clusterVars, ingView, epView, queued, config, leaderVars, handlerVars,
                 requestVars, requests>>

(* Mutant of OnUpdate: the list is that of the configuration it replaces.  *)
OnUpdateCleansOld(p) ==
  /\ plan[p] # None
  /\ config' = [config EXCEPT ![p] = plan[p]]
  /\ plan' = [plan EXCEPT ![p] = None]
  /\ IF leader[p] THEN CallClean(<<p, "worker">>, AllAddrs(config[p])) ELSE UNCHANGED redisVars
  /\ UNCHANGED <<clusterVars, ingView, epView, queued, reading, leaderVars, handlerVars, requestVars,
                 requests>>

(* OnUpdate: the handler gets the configuration; the leader cleans.        *)
OnUpdate(p) ==
  /\ plan[p] # None
  /\ config' = [config EXCEPT ![p] = plan[p]]
  /\ plan' = [plan EXCEPT ![p] = None]
  /\ IF leader[p] THEN CallClean(<<p, "worker">>, AllAddrs(plan[p])) ELSE UNCHANGED redisVars
  /\ UNCHANGED <<clusterVars, ingView, epView, queued, reading, leaderVars, handlerVars, requestVars,
                 requests>>

(* The poll of statusSync.Run fires in the leader.  A poll under way goes  *)
(* on when leadership is lost, and so does its pass.                       *)
StartPoll(t) == leader[t[1]] /\ ListIngresses(t) /\ UNCHANGED queued

EndRead(t) ==
  /\ reading' = [reading EXCEPT ![t] = None]
  /\ UNCHANGED <<clusterVars, ingView, epView, queued, plan, config, leaderVars, handlerVars,
                 requestVars, requests>>

(* Whether the Endpoints of every service were found. *)
EndpointsFound(hosts, addrs) == \A h \in hosts : addrs[h] # None

(* Mutant of PollClean: an empty list is taken for "nothing to do". *)
PollSkipsEmpty(t) ==
  /\ reading[t] # None
  /\ \E addrs \in Reads(t) :
       LET listed == ActiveEndpoints(reading[t].hosts, addrs) IN
       /\ EndpointsFound(reading[t].hosts, addrs)
       /\ IF listed = {} THEN UNCHANGED redisVars ELSE CallClean(t, listed)
  /\ EndRead(t)

(* The poll has its list and calls Clean. *)
PollClean(t) ==
  /\ reading[t] # None
  /\ \E addrs \in Reads(t) : /\ EndpointsFound(reading[t].hosts, addrs)
                             /\ CallClean(t, ActiveEndpoints(reading[t].hosts, addrs))
  /\ EndRead(t)

(* One service without Endpoints ends the poll without Clean. *)
PollGivesUp(t) ==
  /\ reading[t] # None
  /\ \E addrs \in Reads(t) : ~EndpointsFound(reading[t].hosts, addrs)
  /\ UNCHANGED redisVars
  /\ EndRead(t)

(* The election: the lock is held by one process at a time. *)
OnStartedLeading(p) ==
  /\ client[p] # "nil" /\ terms < MaxTerms /\ WithinInputs /\ \A q \in Procs : ~leader[q]
  /\ leader' = [leader EXCEPT ![p] = TRUE]
  /\ terms' = terms + 1
  /\ UNCHANGED <<redisVars, clusterVars, viewVars, handlerVars, requestVars, requests>>

OnStoppedLeading(p) ==
  /\ leader[p]
  /\ leader' = [leader EXCEPT ![p] = FALSE]
  /\ UNCHANGED <<redisVars, clusterVars, viewVars, terms, handlerVars, requestVars, requests>>

Pass(t) ==
  /\ Lock(t) \/ PassStep(t)
  /\ UNCHANGED <<clusterVars, viewVars, leaderVars, handlerVars, requestVars, requests>>

ExpireEntry(k) ==
  /\ Expire(k)
  /\ UNCHANGED <<clusterVars, viewVars, leaderVars, handlerVars, requestVars, requests>>

(* Process p dies and is started again with nothing but its caches.  Its   *)
(* requests are cut off, a session that was not registered yet included.   *)
CrashProcess(p) ==
  LET cut(f, x) == [r \in Requests |-> IF rproc[r] = p THEN x ELSE f[r]] IN
  /\ Crash(p)
  /\ reading' = [t \in Threads |-> IF t[1] = p THEN None ELSE reading[t]]
  /\ queued' = [queued EXCEPT ![p] = TRUE]
  /\ plan' = [plan EXCEPT ![p] = None]
  /\ config' = [config EXCEPT ![p] = [h \in Hosts |-> None]]
  /\ leader' = [leader EXCEPT ![p] = FALSE]
  /\ proxyMap' = [proxyMap EXCEPT ![p] = [a \in Addrs |-> None]]
  /\ rpc' = cut(rpc, "idle")
  /\ rproc' = cut(rproc, None)
  /\ rhost' = cut(rhost, None)
  /\ raddr' = cut(raddr, None)
  /\ rport' = cut(rport, None)
  /\ rcookie' = cut(rcookie, None)
  /\ UNCHANGED <<clusterVars, ingView, epView, terms, issued, known, requests>>

---------------------------------------------------------------------------
(* The handler, one action per step that touches shared state. *)

(* The end of a request: its goroutine is free again. *)
Answer(r) ==
  /\ rpc' = [rpc EXCEPT ![r] = "idle"]
  /\ rproc' = [rproc EXCEPT ![r] = None]
  /\ rhost' = [rhost EXCEPT ![r] = None]
  /\ raddr' = [raddr EXCEPT ![r] = None]
  /\ rport' = [rport EXCEPT ![r] = None]
  /\ rcookie' = [rcookie EXCEPT ![r] = None]

(* A request for host h at process p; c is its JSESSIONID cookie or None.  *)
(* Requests for a host that is not configured or has no endpoints get 404  *)
(* or 503 here and leave no trace; so does the class lookup.  A request    *)
(* without the cookie goes to a random endpoint.                           *)
Arrive(r, p, h, c) ==
  /\ rpc[r] = "idle" /\ requests < MaxRequests /\ WithinInputs /\ client[p] # "nil"
  /\ config[p][h] \notin {None, {}}
  /\ requests' = requests + 1
  /\ rproc' = [rproc EXCEPT ![r] = p]
  /\ rhost' = [rhost EXCEPT ![r] = h]
  /\ rcookie' = [rcookie EXCEPT ![r] = c]
  /\ IF c = None
     THEN /\ \E a \in config[p][h] : raddr' = [raddr EXCEPT ![r] = a]
          /\ rpc' = [rpc EXCEPT ![r] = "load"]
     ELSE /\ rpc' = [rpc EXCEPT ![r] = "lookup"]
          /\ UNCHANGED raddr
  /\ UNCHANGED <<redisVars, clusterVars, viewVars, leaderVars, handlerVars, rport>>

(* GetEndpoint(cookie, true) finds the address of the session. *)
CookieFound(r) ==
  /\ rpc[r] = "lookup" /\ LookupOk(rproc[r])
  /\ GetEndpoint(Cookie(rcookie[r])) # None
  /\ raddr' = [raddr EXCEPT ![r] = GetEndpoint(Cookie(rcookie[r]))]
  /\ rpc' = [rpc EXCEPT ![r] = "load"]
  /\ UNCHANGED <<clusterVars, viewVars, leaderVars, handlerVars, rproc, rhost, rport, rcookie,
                 requests>>

(* Mutant of CookieGone: the handler waits for the entry to appear. *)
CookieGoneWaits(r) ==
  /\ rpc[r] = "lookup" /\ LookupOk(rproc[r])
  /\ GetEndpoint(Cookie(rcookie[r])) = None
  /\ UNCHANGED vars

(* Mutant of CookieGone: the session is given to some other endpoint. *)
CookieGoneRedraws(r) ==
  /\ rpc[r] = "lookup" /\ LookupOk(rproc[r])
  /\ GetEndpoint(Cookie(rcookie[r])) = None
  /\ \E a \in Addrs : raddr' = [raddr EXCEPT ![r] = a]
  /\ rpc' = [rpc EXCEPT ![r] = "load"]
  /\ UNCHANGED <<clusterVars, viewVars, leaderVars, handlerVars, rproc, rhost, rport, rcookie,
                 requests>>

(* GetEndpoint returns "": 503, "Upstream Service Went Away Error". *)
CookieGone(r) ==
  /\ rpc[r] = "lookup" /\ LookupOk(rproc[r])
  /\ GetEndpoint(Cookie(rcookie[r])) = None
  /\ Answer(r)
  /\ UNCHANGED <<clusterVars, viewVars, leaderVars, handlerVars, requests>>

(* GET fails: 500, "Redis Error". *)
CookieFails(r) ==
  /\ rpc[r] = "lookup" /\ LookupFails(rproc[r])
  /\ Answer(r)
  /\ UNCHANGED <<clusterVars, viewVars, leaderVars, handlerVars, requests>>

(* Mutant of LoadProxy: a missing proxy is not noticed. *)
LoadProxyUnchecked(r) ==
  /\ rpc[r] = "load"
  /\ rport' = [rport EXCEPT ![r] = proxyMap[rproc[r]][raddr[r]]]
  /\ rpc' = [rpc EXCEPT ![r] = "serve"]
  /\ UNCHANGED <<redisVars, clusterVars, viewVars, leaderVars, handlerVars, rproc, rhost,
                 raddr, rcookie, requests>>

(* proxyMap.Load(address) *)
LoadProxy(r) ==
  /\ rpc[r] = "load"
  /\ rport' = [rport EXCEPT ![r] = proxyMap[rproc[r]][raddr[r]]]
  /\ rpc' = [rpc EXCEPT ![r] = IF rport'[r] = None THEN "store" ELSE "serve"]
  /\ UNCHANGED <<redisVars, clusterVars, viewVars, leaderVars, handlerVars, rproc, rhost,
                 raddr, rcookie, requests>>

(* proxyMap.Store: the endpoint's port for a new session, 7001 otherwise.  *)
StoreProxy(r) ==
  /\ rpc[r] = "store"
  /\ proxyMap' = [proxyMap EXCEPT ![rproc[r]][raddr[r]] =
                    IF rcookie[r] = None THEN PortOf[rhost[r]] ELSE WLSPort]
  /\ rpc' = [rpc EXCEPT ![r] = "reload"]
  /\ UNCHANGED <<redisVars, clusterVars, viewVars, leaderVars, issued, known, rproc, rhost,
                 raddr, rport, rcookie, requests>>

(* The second proxyMap.Load, of what this or another request stored. *)
ReloadProxy(r) ==
  /\ rpc[r] = "reload"
  /\ rport' = [rport EXCEPT ![r] = proxyMap[rproc[r]][raddr[r]]]
  /\ rpc' = [rpc EXCEPT ![r] = "serve"]
  /\ UNCHANGED <<redisVars, clusterVars, viewVars, leaderVars, handlerVars, rproc, rhost,
                 raddr, rcookie, requests>>

(* ServeHTTP returns.  Without a Set-Cookie for JSESSIONID, or with the    *)
(* 502 of a failed connection, the request is over.                        *)
ServeOnly(r) ==
  /\ rpc[r] = "serve"
  /\ Answer(r)
  /\ UNCHANGED <<redisVars, clusterVars, viewVars, leaderVars, handlerVars, requests>>

(* The upstream makes up a session id for a request without a cookie.      *)
ServeNewSession(r, c) ==
  /\ rpc[r] = "serve" /\ rcookie[r] = None
  /\ c \notin issued /\ Issuer[c] = raddr[r]
  /\ issued' = issued \cup {c}
  /\ rcookie' = [rcookie EXCEPT ![r] = c]
  /\ rpc' = [rpc EXCEPT ![r] = "register"]
  /\ UNCHANGED <<redisVars, clusterVars, viewVars, leaderVars, proxyMap, known, rproc, rhost,
                 raddr, rport, requests>>

(* The upstream replaces the session of a request with a cookie (it has    *)
(* timed out there); the handler does not look at that Set-Cookie.         *)
ServeRotatedSession(r, c) ==
  /\ rpc[r] = "serve" /\ rcookie[r] # None
  /\ c \notin issued /\ Issuer[c] = raddr[r]
  /\ issued' = issued \cup {c}
  /\ known' = known \cup {c}
  /\ Answer(r)
  /\ UNCHANGED <<redisVars, clusterVars, viewVars, leaderVars, proxyMap, requests>>

(* A response larger than the server's buffer reaches the client while the *)
(* handler still runs.                                                     *)
FlushResponse(r) ==
  /\ rpc[r] = "register" /\ rcookie[r] \notin known
  /\ known' = known \cup {rcookie[r]}
  /\ UNCHANGED <<redisVars, clusterVars, viewVars, leaderVars, proxyMap, issued, requestVars,
                 requests>>

(* Mutant of Register: the endpoint is drawn a second time. *)
RegisterRedrawn(r) ==
  /\ rpc[r] = "register"
  /\ config[rproc[r]][rhost[r]] # None
  /\ \E a \in config[rproc[r]][rhost[r]] : AddCookie(rproc[r], rcookie[r], a)
  /\ known' = known \cup {rcookie[r]}
  /\ Answer(r)
  /\ UNCHANGED <<clusterVars, viewVars, leaderVars, proxyMap, issued, requests>>

(* AddCookie with the address the request was sent to; then the handler    *)
(* returns and the response is complete.                                   *)
Register(r) ==
  /\ rpc[r] = "register"
  /\ AddCookie(rproc[r], rcookie[r], raddr[r])
  /\ known' = known \cup {rcookie[r]}
  /\ Answer(r)
  /\ UNCHANGED <<clusterVars, viewVars, leaderVars, proxyMap, issued, requests>>

---------------------------------------------------------------------------
RequestStep(r) ==
  \/ CookieFound(r) \/ CookieGone(r) \/ CookieFails(r)
  \/ LoadProxy(r) \/ StoreProxy(r) \/ ReloadProxy(r)
  \/ ServeOnly(r)
  \/ \E c \in Cookies : ServeNewSession(r, c) \/ ServeRotatedSession(r, c)
  \/ Register(r)

SyncStep(p) == StartSync(p) \/ syncIngress(p) \/ OnUpdate(p)

PollThreads == Procs \X Polls
PollStep(t) == StartPoll(t) \/ PollClean(t) \/ PollGivesUp(t)

Next ==
  \/ ChangeIngresses
  \/ \E h \in Hosts : \E as \in Populations[h] : ChangeEndpoints(h, as)
  \/ \E p \in Procs : SeeIngresses(p) \/ SeeEndpoints(p) \/ StartProcess(p) \/ SyncStep(p)
                      \/ CrashProcess(p)
                      \/ OnStartedLeading(p) \/ OnStoppedLeading(p)
  \/ \E t \in PollThreads : PollStep(t)
  \/ \E t \in Threads : Pass(t)
  \/ \E k \in Key : ExpireEntry(k)
  \/ \E r \in Requests, p \in Procs, h \in Hosts, c \in known \cup {None} : Arrive(r, p, h, c)
  \/ \E r \in Requests : FlushResponse(r) \/ RequestStep(r)

Spec == Init /\ [][Next]_vars

(* Every goroutine runs, informers deliver, the poll's timer fires,        *)
(* upstreams answer (the server's timeouts see to it) and a process that   *)
(* died is started again.  sync.Mutex hands the lock to a waiter that has  *)
(* waited for a millisecond (its starvation mode), hence strong fairness   *)
(* of Lock.  Nothing is assumed of clients, the cluster or the election.   *)
Fairness ==
  /\ \A p \in Procs : /\ WF_vars(SeeIngresses(p)) /\ WF_vars(SeeEndpoints(p))
                      /\ WF_vars(StartProcess(p)) /\ WF_vars(SyncStep(p))
  /\ \A t \in PollThreads : WF_vars(PollStep(t))
  /\ \A t \in Threads : /\ WF_vars(Pass(t) /\ ~Lock(t))
                        /\ SF_vars(Pass(t) /\ Lock(t))
  /\ \A r \in Requests : WF_vars(RequestStep(r))

FairSpec == Spec /\ Fairness

---------------------------------------------------------------------------
RequestStates == {"idle", "lookup", "load", "store", "reload", "serve", "register"}

(* The types; ServeHTTP is only called on a proxy that was found. *)
TypeOK ==
  /\ RedisTypeOK
  /\ ings \in Seq(SUBSET Hosts) /\ eps \in Seq([Hosts -> AddrSets])
  /\ ingView \in [Procs -> 1 .. Len(ings)]
  /\ epView \in [Procs -> 1 .. Len(eps)]
  /\ queued \in [Procs -> BOOLEAN]
  /\ reading \in [Threads -> Readings \cup {None}]
  /\ \A t \in Threads : reading[t] # None => reading[t].from <= epView[t[1]]
  /\ plan \in [Procs -> Configs \cup {None}]
  /\ config \in [Procs -> Configs]
  /\ leader \in [Procs -> BOOLEAN] /\ terms \in 0 .. MaxTerms
  /\ proxyMap \in [Procs -> [Addrs -> {PortOf[h] : h \in Hosts} \cup {WLSPort, None}]]
  /\ issued \subseteq Cookies /\ known \subseteq issued /\ added \subseteq issued
  /\ rpc \in [Requests -> RequestStates]
  /\ rproc \in [Requests -> Procs \cup {None}]
  /\ rhost \in [Requests -> Hosts \cup {None}]
  /\ raddr \in [Requests -> Values]
  /\ rport \in [Requests -> {PortOf[h] : h \in Hosts} \cup {WLSPort, None}]
  /\ rcookie \in [Requests -> Cookies \cup {None}]
  /\ \A r \in Requests : rpc[r] = "serve" => rport[r] # None
  /\ requests \in 0 .. MaxRequests

(* A request with a session cookie is only ever proxied to the upstream    *)
(* that made up the session (handler.go:154-180), whichever controller     *)
(* registered it and whatever was cleaned or re-added meanwhile.           *)
StickyAddress ==
  \A r \in Requests : rpc[r] \in {"load", "store", "reload", "serve"} /\ rcookie[r] # None
                        => raddr[r] = Issuer[rcookie[r]]

(* No service has had address a all the time: each has no port for its     *)
(* rule, or has at times been behind no ingress, or without a.             *)
OnceUnlisted(a) ==
  \A h \in Matched :
    \/ \E i \in 1 .. Len(ings) : h \notin ings[i]
    \/ \E j \in 1 .. Len(eps) : eps[j][h] = None \/ a \notin eps[j][h]

(* The leader's passes (wls.go:278-286, status.go:104-111) never remove a  *)
(* session of an address that one service behind an ingress has had all    *)
(* the time, although the lists of the passes are read service by service, *)
(* Endpoints objects are missing, leaders change and passes overlap.  An   *)
(* address that moves from one service to another is not covered: a read   *)
(* of both may miss it.                                                    *)
StableSessionsKept ==
  [][\A c \in Cookies :
       LET k == createNamespacedKey(Cookie(c)) IN
       redis[k] # None /\ redis'[k] = None /\ ~Expire(k) => OnceUnlisted(redis[k])]_vars

(* The system is a SessionService: a session is issued once, perhaps       *)
(* stored, and lost for good; the SET after the response (handler.go:144), *)
(* a crash before it, a failed SET and a pass of Clean may lose a session  *)
(* but never bring one back or send a request of it anywhere else.         *)
Registering == {rcookie[r] : r \in {q \in Requests : rpc[q] = "register"}}
Life == [c \in Cookies |->
           IF redis[createNamespacedKey(Cookie(c))] # None THEN "stored"
           ELSE IF c \in added THEN "gone"
           ELSE IF c \in Registering THEN "issued"
           ELSE IF c \in issued THEN "gone" ELSE "new"]
Route == [r \in Requests |->
            IF rpc[r] \in {"load", "store", "reload", "serve"} /\ rcookie[r] # None
            THEN raddr[r] ELSE None]
Abstract == INSTANCE SessionService WITH life <- Life, route <- Route
ServesSessions == Abstract!Spec

(* No request hangs in ServeHTTP: whatever the passes of Clean, the views  *)
(* and the failures of redis do meanwhile, every request is answered, so   *)
(* that its goroutine is idle again and again.                             *)
RequestsAnswered == \A r \in Requests : []<>(rpc[r] = "idle")

(* While one process stays leader and every ingress has its Endpoints, the *)
(* sessions of addresses that are gone disappear from redis for good, a    *)
(* crash of an earlier leader in the middle of its pass included.          *)
StaleSessionsCleaned ==
  (\E p \in Procs : <>[](/\ leader[p]
                          /\ EndpointsFound(ings[ingView[p]], eps[epView[p]])))
    => <>[](\A k \in Key : redis[k] # None => redis[k] \in LiveAddrs)

---------------------------------------------------------------------------
(* "Clean cleans up the stale connections that are not in the list passed  *)
(* in" (redis.go:51): what Clean removes is stale, the upstream of the     *)
(* session is no longer behind an ingress.                                 *)
OnlyStaleCleaned ==
  [][\A k \in Key :
       redis[k] # None /\ redis'[k] = None /\ ~Expire(k) => redis[k] \notin LiveAddrs]_vars

(* The same of an address that some service behind an ingress has had at   *)
(* every moment, though not always the same one: a list that is read       *)
(* service by service while the address moves may miss it.                 *)
MovedSessionsKept ==
  [][\A k \in Key :
       redis[k] # None /\ redis'[k] = None /\ ~Expire(k)
         => \E i \in 1 .. Len(ings), j \in 1 .. Len(eps) :
              redis[k] \notin ActiveEndpoints(ings[i], eps[j])]_vars

(* "uses a redis HA (sentinel) service to distribute the sticky sessions   *)
(* across multiple ingress controllers" (README.md:4): whichever controller*)
(* gets the request, it goes to the port of the service behind its host.   *)
StickyPort ==
  \A r \in Requests : rpc[r] = "serve" => rport[r] = PortOf[rhost[r]]

(* "Upstream Service Went Away Error" (handler.go:162): that answer is     *)
(* given only when the upstream of the session is gone.                    *)
GoneMeansGone ==
  [][\A r \in Requests : CookieGone(r) => Issuer[rcookie[r]] \notin LiveAddrs]_vars
=============================================================================
