------------------------ MODULE StickySessionsProofs ------------------------
(***************************************************************************)
(* What TLAPS proves of StickySessions: whatever the handlers, sync loops  *)
(* and leaders of any number of controllers do, the session table behaves  *)
(* as RedisManager says, and sessions stick to their upstream.             *)
(***************************************************************************)
EXTENDS StickySessions, RedisManagerProofs

(* The caches and configurations are well typed. *)
ViewTypes ==
  /\ ings \in Seq(SUBSET Hosts) /\ Len(ings) >= 1
  /\ eps \in Seq([Hosts -> AddrSets]) /\ Len(eps) >= 1
  /\ ingView \in [Procs -> 1 .. Len(ings)]
  /\ epView \in [Procs -> 1 .. Len(eps)]
  /\ reading \in [Threads -> Readings \cup {None}]
  /\ \A t \in Threads : reading[t] # None => reading[t].from <= epView[t[1]]
  /\ plan \in [Procs -> Configs \cup {None}]
  /\ config \in [Procs -> Configs]

(* A request in flight has a process and a host; from the lookup on it has *)
(* the upstream of its session, if it has a session.                       *)
RequestInv ==
  /\ issued \subseteq Cookies /\ known \subseteq Cookies
  /\ rpc \in [Requests -> RequestStates]
  /\ rproc \in [Requests -> Procs \cup {None}]
  /\ rhost \in [Requests -> Hosts \cup {None}]
  /\ raddr \in [Requests -> Values]
  /\ rcookie \in [Requests -> Cookies \cup {None}]
  /\ \A r \in Requests :
       /\ rpc[r] # "idle" => rproc[r] \in Procs /\ rhost[r] \in Hosts
       /\ rpc[r] \in {"lookup", "register"} => rcookie[r] \in Cookies
       /\ rpc[r] \notin {"idle", "lookup"}
            => /\ raddr[r] \in Addrs
               /\ rcookie[r] # None => raddr[r] = Issuer[rcookie[r]]

StickyInv == ViewTypes /\ RequestInv /\ RedisInv

(* The configuration made from well-typed caches is one, and the addresses *)
(* listed from it or from the Endpoints are addresses.                     *)
LEMMA ConfigurationType ==
  /\ \A hs \in SUBSET Hosts, as \in [Hosts -> AddrSets] : Configuration(hs, as) \in Configs
  /\ \A c \in Configs : AllAddrs(c) \subseteq Addrs
  /\ \A hs \in SUBSET Hosts, as \in [Hosts -> AddrSets] : ActiveEndpoints(hs, as) \subseteq Addrs
<1>1. ASSUME NEW hs \in SUBSET Hosts, NEW as \in [Hosts -> AddrSets]
      PROVE  Configuration(hs, as) \in Configs
  <2>1. None \in AddrSets /\ {} \in AddrSets
    BY DEF AddrSets
  <2>. QED  BY <2>1 DEF Configuration, Configs
<1>2. ASSUME NEW c \in Configs, NEW a \in AllAddrs(c) PROVE a \in Addrs
  <2>1. PICK h \in Hosts : c[h] # None /\ a \in c[h]
    BY <1>2 DEF AllAddrs
  <2>2. c[h] \in SUBSET Addrs
    BY <2>1 DEF Configs, AddrSets
  <2>. QED  BY <2>1, <2>2
<1>3. ASSUME NEW hs \in SUBSET Hosts, NEW as \in [Hosts -> AddrSets],
             NEW a \in ActiveEndpoints(hs, as)
      PROVE  a \in Addrs
  <2>1. PICK h \in hs : as[h] # None /\ a \in as[h]
    BY <1>3 DEF ActiveEndpoints
  <2>2. as[h] \in SUBSET Addrs
    BY <2>1 DEF AddrSets
  <2>. QED  BY <2>1, <2>2
<1>. QED  BY <1>1, <1>2, <1>3

(* What a thread reads comes from the log, between where it began and now. *)
LEMMA ReadsType ==
  ASSUME ViewTypes, NEW t \in Threads, reading[t] # None, NEW addrs \in Reads(t)
  PROVE  /\ reading[t].hosts \in SUBSET Hosts
         /\ addrs \in [Hosts -> AddrSets]
         /\ \A h \in Hosts : \E j \in 1 .. Len(eps) : addrs[h] = eps[j][h]
<1>1. t[1] \in Procs
  BY DEF Threads
<1>2. /\ reading[t] \in Readings /\ reading[t].from \in Nat \ {0}
      /\ reading[t].hosts \in SUBSET Hosts
      /\ epView[t[1]] \in 1 .. Len(eps)
  BY <1>1 DEF ViewTypes, Readings
<1>3. PICK at \in [Hosts -> reading[t].from .. epView[t[1]]] :
         addrs = [h \in Hosts |-> eps[at[h]][h]]
  BY DEF Reads
<1>4. \A h \in Hosts : at[h] \in 1 .. Len(eps)
  BY <1>2 DEF ViewTypes
<1>5. \A j \in 1 .. Len(eps) : eps[j] \in [Hosts -> AddrSets]
  BY DEF ViewTypes
<1>. QED  BY <1>2, <1>3, <1>4, <1>5

(* The initial states satisfy StickyInv. *)
LEMMA InitStickyInv == Init => StickyInv
<1>. SUFFICES ASSUME Init PROVE StickyInv
  OBVIOUS
<1>1. ViewTypes
  <2>1. InitHosts \in SUBSET Hosts /\ InitAddrs \in [Hosts -> AddrSets]
    BY HostsAssumption DEF AddrSets
  <2>2. Len(ings) = 1 /\ Len(eps) = 1
    BY DEF Init
  <2>3. 1 \in 1 .. 1
    OBVIOUS
  <2>4. [h \in Hosts |-> None] \in Configs
    BY DEF Configs, AddrSets
  <2>. QED  BY <2>1, <2>2, <2>3, <2>4 DEF Init, ViewTypes
<1>2. RequestInv
  BY EarlierAssumption DEF Init, RequestInv, RequestStates, Values
<1>. QED  BY <1>1, <1>2, InitRedisInv DEF Init, StickyInv

(* Every step keeps ViewTypes. *)
LEMMA NextViewTypes == ViewTypes /\ [Next]_vars => ViewTypes'
<1>. SUFFICES ASSUME ViewTypes, [Next]_vars PROVE ViewTypes'
  OBVIOUS
<1>. USE DEF ViewTypes, clusterVars, viewVars
<1>1. CASE ChangeIngresses
  <2>1. PICK hs \in SUBSET Hosts : ings' = Append(ings, hs)
    BY <1>1, HostsAssumption DEF ChangeIngresses
  <2>2. UNCHANGED <<eps, viewVars>>
    BY <1>1 DEF ChangeIngresses
  <2>3. ings' \in Seq(SUBSET Hosts) /\ Len(ings') = Len(ings) + 1
    BY <2>1
  <2>4. \A p \in Procs : ingView[p] \in 1 .. Len(ings')
    BY <2>3
  <2>. QED  BY <2>2, <2>3, <2>4
<1>2. ASSUME NEW h \in Hosts, NEW as \in AddrSets, ChangeEndpoints(h, as) PROVE ViewTypes'
  <2>. DEFINE new == [eps[Len(eps)] EXCEPT ![h] = as]
  <2>1. eps' = Append(eps, new) /\ UNCHANGED <<ings, viewVars>>
    BY <1>2 DEF ChangeEndpoints
  <2>2. eps[Len(eps)] \in [Hosts -> AddrSets]
    OBVIOUS
  <2>3. new \in [Hosts -> AddrSets]
    BY <2>2
  <2>. HIDE DEF new
  <2>4. eps' \in Seq([Hosts -> AddrSets]) /\ Len(eps') = Len(eps) + 1
    BY <2>1, <2>3
  <2>5. \A p \in Procs : epView[p] \in 1 .. Len(eps')
    BY <2>4
  <2>. QED  BY <2>1, <2>4, <2>5
<1>3. ASSUME NEW p \in Procs, SeeIngresses(p) \/ SeeEndpoints(p) PROVE ViewTypes'
  <2>1. CASE SeeIngresses(p)
    BY <2>1 DEF SeeIngresses
  <2>2. CASE SeeEndpoints(p)
    <3>1. epView' \in [Procs -> 1 .. Len(eps)] /\ \A q \in Procs : epView[q] <= epView'[q]
      BY <2>2 DEF SeeEndpoints
    <3>2. UNCHANGED <<clusterVars, ingView, reading, plan, config>>
      BY <2>2 DEF SeeEndpoints
    <3>3. ASSUME NEW t \in Threads, reading[t] # None PROVE reading[t].from <= epView'[t[1]]
      <4>1. t[1] \in Procs /\ reading[t].from \in Nat /\ reading[t].from <= epView[t[1]]
        BY <3>3 DEF Threads, Readings
      <4>2. epView[t[1]] \in Nat /\ epView'[t[1]] \in Nat /\ epView[t[1]] <= epView'[t[1]]
        BY <3>1, <4>1
      <4>. QED  BY <4>1, <4>2
    <3>. QED  BY <3>1, <3>2, <3>3
  <2>. QED  BY <1>3, <2>1, <2>2
<1>4. ASSUME NEW t \in Threads, ListIngresses(t) PROVE ViewTypes'
  <2>. DEFINE new == [hosts |-> ings[ingView[t[1]]], from |-> epView[t[1]]]
  <2>1. t[1] \in Procs
    BY DEF Threads
  <2>2. new \in Readings /\ new.from = epView[t[1]]
    BY <2>1 DEF Readings
  <2>3. reading' = [reading EXCEPT ![t] = new] /\ UNCHANGED <<clusterVars, ingView, epView, plan, config>>
    BY <1>4 DEF ListIngresses
  <2>. HIDE DEF new
  <2>4. reading' \in [Threads -> Readings \cup {None}]
    BY <2>2, <2>3
  <2>5. \A u \in Threads : reading'[u] # None => reading'[u].from <= epView'[u[1]]
    <3>. TAKE u \in Threads
    <3>1. CASE u = t
      BY <2>1, <2>2, <2>3, <3>1
    <3>2. CASE u # t
      BY <2>3, <3>2
    <3>. QED  BY <3>1, <3>2
  <2>. QED  BY <2>3, <2>4, <2>5
<1>10. ASSUME NEW t \in Threads, reading' = [reading EXCEPT ![t] = None],
              UNCHANGED <<clusterVars, ingView, epView, config>>,
              plan' \in [Procs -> Configs \cup {None}]
       PROVE  ViewTypes'
  <2>1. reading' \in [Threads -> Readings \cup {None}]
    BY <1>10
  <2>2. \A u \in Threads : reading'[u] \in {reading[u], None}
    BY <1>10
  <2>. QED  BY <1>10, <2>1, <2>2
<1>11. ASSUME NEW p \in Procs, syncIngress(p) PROVE ViewTypes'
  <2>. DEFINE t == <<p, "worker">>
  <2>1. t \in Threads
    BY HostsAssumption DEF Threads
  <2>2. PICK addrs \in Reads(t) :
          LET generated == Configuration(reading[t].hosts, addrs) IN
          plan' = [plan EXCEPT ![p] = IF generated = config[p] THEN None ELSE generated]
    BY <1>11 DEF syncIngress
  <2>3. Configuration(reading[t].hosts, addrs) \in Configs
    BY <1>11, <2>1, ReadsType, ConfigurationType DEF syncIngress
  <2>4. plan' \in [Procs -> Configs \cup {None}]
    BY <2>2, <2>3
  <2>5. reading' = [reading EXCEPT ![t] = None] /\ UNCHANGED <<clusterVars, ingView, epView, config>>
    BY <1>11 DEF syncIngress
  <2>. QED  BY <1>10, <2>1, <2>4, <2>5
<1>12. ASSUME NEW t \in PollThreads, PollClean(t) \/ PollGivesUp(t) PROVE ViewTypes'
  <2>1. t \in Threads
    BY HostsAssumption DEF Threads, PollThreads
  <2>2. EndRead(t)
    BY <1>12 DEF PollClean, PollGivesUp
  <2>. QED  BY <1>10, <2>1, <2>2 DEF EndRead
<1>5. ASSUME NEW p \in Procs, OnUpdate(p) PROVE ViewTypes'
  BY <1>5 DEF OnUpdate
<1>6. ASSUME NEW p \in Procs, CrashProcess(p) PROVE ViewTypes'
  <2>1. [h \in Hosts |-> None] \in Configs
    BY DEF Configs, AddrSets
  <2>2. /\ reading' \in [Threads -> Readings \cup {None}]
        /\ \A t \in Threads : reading'[t] \in {reading[t], None}
    BY <1>6 DEF CrashProcess
  <2>. QED  BY <1>6, <2>1, <2>2 DEF CrashProcess
<1>7. CASE UNCHANGED <<clusterVars, viewVars>>
  BY <1>7
<1>8. \/ ChangeIngresses
      \/ \E h \in Hosts, as \in AddrSets : ChangeEndpoints(h, as)
      \/ \E p \in Procs : \/ SeeIngresses(p) \/ SeeEndpoints(p) \/ syncIngress(p) \/ OnUpdate(p)
                         \/ CrashProcess(p)
      \/ \E t \in Threads : ListIngresses(t)
      \/ \E t \in PollThreads : PollClean(t) \/ PollGivesUp(t)
      \/ UNCHANGED <<clusterVars, viewVars>>
  <2>1. ASSUME NEW p \in Procs, StartProcess(p) \/ OnStartedLeading(p) \/ OnStoppedLeading(p)
        PROVE  UNCHANGED <<clusterVars, viewVars>>
    BY <2>1 DEF StartProcess, OnStartedLeading, OnStoppedLeading
  <2>2. ASSUME NEW t, Pass(t) \/ ExpireEntry(t) PROVE UNCHANGED <<clusterVars, viewVars>>
    BY <2>2 DEF Pass, ExpireEntry
  <2>3. ASSUME NEW r, FlushResponse(r) \/ RequestStep(r) \/ \E p, h, c : Arrive(r, p, h, c)
        PROVE  UNCHANGED <<clusterVars, viewVars>>
    BY <2>3 DEF Arrive, FlushResponse, RequestStep, CookieFound, CookieGone, CookieFails,
         LoadProxy, StoreProxy, ReloadProxy, ServeOnly, ServeNewSession, ServeRotatedSession,
         Register
  <2>4. CASE UNCHANGED vars
    BY <2>4 DEF vars
  <2>5. ASSUME NEW p \in Procs, StartSync(p) PROVE \E t \in Threads : ListIngresses(t)
    BY <2>5, HostsAssumption DEF StartSync, Threads
  <2>6. ASSUME NEW t \in PollThreads, StartPoll(t) PROVE \E u \in Threads : ListIngresses(u)
    BY <2>6, HostsAssumption DEF StartPoll, Threads, PollThreads
  <2>7. \A h \in Hosts : Populations[h] \subseteq AddrSets
    BY HostsAssumption DEF AddrSets
  <2>. HIDE DEF ViewTypes, clusterVars, viewVars
  <2>. QED  BY <2>1, <2>2, <2>3, <2>4, <2>5, <2>6, <2>7 DEF Next, SyncStep, PollStep
<1>. QED  BY <1>1, <1>2, <1>3, <1>4, <1>5, <1>6, <1>7, <1>8, <1>11, <1>12

(* The end of a request keeps what is known of the others. *)
LEMMA AnswerInv ==
  ASSUME RequestInv, NEW r \in Requests, Answer(r),
         issued' \subseteq Cookies, known' \subseteq Cookies
  PROVE  RequestInv'
<1>1. "idle" \in RequestStates /\ None \in Values
  BY DEF RequestStates, Values
<1>. QED  BY <1>1 DEF RequestInv, Answer

(* Every step keeps RequestInv. *)
LEMMA NextRequestInv == StickyInv /\ [Next]_vars => RequestInv'
<1>. SUFFICES ASSUME StickyInv, [Next]_vars PROVE RequestInv'
  OBVIOUS
<1>0. ViewTypes /\ RequestInv /\ RedisInv
  BY DEF StickyInv
<1>. /\ {"lookup", "load", "store", "reload", "serve", "register"} \subseteq RequestStates
     /\ Addrs \subseteq Values
  BY DEF RequestStates, Values
<1>1. ASSUME NEW r \in Requests, NEW p \in Procs, NEW h \in Hosts, NEW c \in known \cup {None},
             Arrive(r, p, h, c)
      PROVE  RequestInv'
  <2>1. config[p][h] \in SUBSET Addrs
    BY <1>0, <1>1 DEF Arrive, ViewTypes, Configs, AddrSets
  <2>2. CASE c = None
    BY <1>0, <1>1, <2>1, <2>2 DEF Arrive, RequestInv, handlerVars
  <2>3. CASE c # None
    BY <1>0, <1>1, <2>3 DEF Arrive, RequestInv, handlerVars
  <2>. QED  BY <2>2, <2>3
<1>2. ASSUME NEW r \in Requests, CookieFound(r) PROVE RequestInv'
  <2>. DEFINE c == rcookie[r]
              k == createNamespacedKey(Cookie(c))
  <2>1. c \in Cookies /\ redis[k] # None
    BY <1>0, <1>2 DEF CookieFound, RequestInv, GetEndpoint
  <2>2. redis[k] = Issuer[c]
    BY <1>0, <2>1, NamespaceOnce DEF RedisInv, TableInv
  <2>3. Issuer[c] \in Addrs
    BY <2>1, IssuerAssumption
  <2>4. /\ raddr' = [raddr EXCEPT ![r] = Issuer[c]]
        /\ rpc' = [rpc EXCEPT ![r] = "load"]
        /\ rpc[r] = "lookup"
        /\ UNCHANGED <<handlerVars, rproc, rhost, rcookie>>
    BY <1>2, <2>2 DEF CookieFound, GetEndpoint
  <2>. QED  BY <1>0, <2>3, <2>4 DEF RequestInv, handlerVars
<1>3. ASSUME NEW r \in Requests,
             CookieGone(r) \/ CookieFails(r) \/ ServeOnly(r) \/ Register(r)
             \/ \E c \in Cookies : ServeRotatedSession(r, c)
      PROVE  RequestInv'
  <2>1. Answer(r)
    BY <1>3 DEF CookieGone, CookieFails, ServeOnly, Register, ServeRotatedSession
  <2>2. issued' \subseteq Cookies /\ known' \subseteq Cookies
    BY <1>0, <1>3 DEF CookieGone, CookieFails, ServeOnly, Register, ServeRotatedSession,
                      handlerVars, RequestInv
  <2>. QED  BY <1>0, <2>1, <2>2, AnswerInv
<1>4. ASSUME NEW r \in Requests, LoadProxy(r) \/ StoreProxy(r) \/ ReloadProxy(r)
      PROVE  RequestInv'
  <2>1. PICK s \in {"store", "reload", "serve"} : rpc' = [rpc EXCEPT ![r] = s]
    BY <1>4 DEF LoadProxy, StoreProxy, ReloadProxy
  <2>2. /\ rpc[r] \notin {"idle", "lookup"}
        /\ UNCHANGED <<issued, known, rproc, rhost, raddr, rcookie>>
    BY <1>4 DEF LoadProxy, StoreProxy, ReloadProxy, handlerVars
  <2>. QED  BY <1>0, <2>1, <2>2 DEF RequestInv
<1>5. ASSUME NEW r \in Requests, NEW c \in Cookies, ServeNewSession(r, c) PROVE RequestInv'
  BY <1>0, <1>5 DEF ServeNewSession, RequestInv
<1>6. ASSUME NEW r \in Requests, FlushResponse(r) PROVE RequestInv'
  BY <1>0, <1>6 DEF FlushResponse, RequestInv, requestVars
<1>7. ASSUME NEW p \in Procs, CrashProcess(p) PROVE RequestInv'
  <2>1. "idle" \in RequestStates /\ None \in Values
    BY DEF RequestStates, Values
  <2>2. /\ rpc' \in [Requests -> RequestStates] /\ rproc' \in [Requests -> Procs \cup {None}]
        /\ rhost' \in [Requests -> Hosts \cup {None}] /\ raddr' \in [Requests -> Values]
        /\ rcookie' \in [Requests -> Cookies \cup {None}]
        /\ UNCHANGED <<issued, known>>
    BY <1>0, <1>7, <2>1 DEF CrashProcess, RequestInv
  <2>3. \A r \in Requests : \/ rpc'[r] = "idle"
                            \/ /\ rpc'[r] = rpc[r] /\ rproc'[r] = rproc[r] /\ rhost'[r] = rhost[r]
                               /\ raddr'[r] = raddr[r] /\ rcookie'[r] = rcookie[r]
    BY <1>7 DEF CrashProcess
  <2>. QED  BY <1>0, <2>2, <2>3 DEF RequestInv
<1>8. CASE UNCHANGED <<issued, known, requestVars>>
  BY <1>0, <1>8 DEF RequestInv, requestVars
<1>9. \/ UNCHANGED <<issued, known, requestVars>>
      \/ \E p \in Procs : CrashProcess(p)
      \/ \E r \in Requests, p \in Procs, h \in Hosts, c \in known \cup {None} : Arrive(r, p, h, c)
      \/ \E r \in Requests : FlushResponse(r) \/ RequestStep(r)
  BY DEF Next, vars, handlerVars, ChangeIngresses, ChangeEndpoints, SeeIngresses, SeeEndpoints,
         StartProcess, SyncStep, StartSync, syncIngress, OnUpdate, PollStep, StartPoll, PollClean,
         PollGivesUp, EndRead, ListIngresses, OnStartedLeading, OnStoppedLeading, Pass, ExpireEntry
<1>. QED  BY <1>1, <1>2, <1>3, <1>4, <1>5, <1>6, <1>7, <1>8, <1>9 DEF RequestStep

(* Every step of the system is a step of the session table, or none. *)
LEMMA NextIsRedisNext == StickyInv /\ [Next]_vars => [RedisNext]_redisVars
<1>. SUFFICES ASSUME StickyInv, [Next]_vars PROVE [RedisNext]_redisVars
  OBVIOUS
<1>1. ASSUME NEW p \in Procs, OnUpdate(p) PROVE [RedisNext]_redisVars
  <2>1. <<p, "worker">> \in Threads
    BY HostsAssumption DEF Threads
  <2>2. plan[p] \in Configs
    BY <1>1 DEF OnUpdate, StickyInv, ViewTypes
  <2>3. AllAddrs(plan[p]) \in SUBSET Addrs
    BY <2>2, ConfigurationType
  <2>. QED  BY <1>1, <2>1, <2>3 DEF OnUpdate, RedisNext
<1>8. ASSUME NEW t \in PollThreads, PollClean(t) PROVE [RedisNext]_redisVars
  <2>1. t \in Threads /\ reading[t] # None
    BY <1>8, HostsAssumption DEF Threads, PollThreads, PollClean
  <2>2. PICK addrs \in Reads(t) : CallClean(t, ActiveEndpoints(reading[t].hosts, addrs))
    BY <1>8 DEF PollClean
  <2>3. ActiveEndpoints(reading[t].hosts, addrs) \in SUBSET Addrs
    BY <2>1, <2>2, ReadsType, ConfigurationType DEF StickyInv
  <2>. QED  BY <2>1, <2>2, <2>3 DEF RedisNext
<1>2. ASSUME NEW r \in Requests, CookieFound(r) \/ CookieGone(r) \/ CookieFails(r)
      PROVE  [RedisNext]_redisVars
  <2>1. rproc[r] \in Procs
    BY <1>2 DEF CookieFound, CookieGone, CookieFails, StickyInv, RequestInv
  <2>. QED  BY <1>2, <2>1 DEF CookieFound, CookieGone, CookieFails, RedisNext
<1>3. ASSUME NEW r \in Requests, Register(r) PROVE [RedisNext]_redisVars
  <2>1. /\ rproc[r] \in Procs /\ rcookie[r] \in Cookies
        /\ raddr[r] = Issuer[rcookie[r]]
    BY <1>3, HostsAssumption DEF Register, StickyInv, RequestInv
  <2>2. AddCookie(rproc[r], rcookie[r], Issuer[rcookie[r]])
    BY <1>3, <2>1 DEF Register
  <2>. QED  BY <2>1, <2>2 DEF RedisNext
<1>4. ASSUME NEW p \in Procs, StartProcess(p) \/ CrashProcess(p) PROVE [RedisNext]_redisVars
  BY <1>4 DEF StartProcess, CrashProcess, RedisNext
<1>5. ASSUME NEW t \in Threads, Pass(t) PROVE [RedisNext]_redisVars
  BY <1>5 DEF Pass, RedisNext
<1>6. ASSUME NEW k \in Key, ExpireEntry(k) PROVE [RedisNext]_redisVars
  BY <1>6 DEF ExpireEntry, RedisNext
<1>7. \/ UNCHANGED redisVars
      \/ \E p \in Procs : OnUpdate(p) \/ StartProcess(p) \/ CrashProcess(p)
      \/ \E t \in PollThreads : PollClean(t)
      \/ \E t \in Threads : Pass(t)
      \/ \E k \in Key : ExpireEntry(k)
      \/ \E r \in Requests : CookieFound(r) \/ CookieGone(r) \/ CookieFails(r) \/ Register(r)
  BY DEF Next, vars, ChangeIngresses, ChangeEndpoints, SeeIngresses, SeeEndpoints, SyncStep,
         StartSync, syncIngress, PollStep, StartPoll, PollGivesUp, ListIngresses, OnStartedLeading, OnStoppedLeading, Arrive, FlushResponse, RequestStep,
         LoadProxy, StoreProxy, ReloadProxy, ServeOnly, ServeNewSession, ServeRotatedSession
<1>. QED  BY <1>1, <1>2, <1>3, <1>4, <1>5, <1>6, <1>7, <1>8

(* StickyInv is inductive. *)
LEMMA NextStickyInv == StickyInv /\ [Next]_vars => StickyInv'
<1>1. StickyInv => ViewTypes /\ RedisInv
  BY DEF StickyInv
<1>. QED  BY <1>1, NextViewTypes, NextRequestInv, NextIsRedisNext, NextRedisInv DEF StickyInv

(* The system implements RedisManager: what is proved of the table alone   *)
(* holds while handlers, sync loops and leaders use it.                    *)
THEOREM ImplementsRedis == Spec => RedisSpec
<1>1. Init => RedisInit
  BY DEF Init
<1>. QED  BY <1>1, InitStickyInv, NextStickyInv, NextIsRedisNext, PTL DEF Spec, RedisSpec

(* A request with a session is only proxied to the upstream that made it   *)
(* up, whichever controller handles it.                                    *)
THEOREM SessionsStick == Spec => []StickyAddress
<1>1. StickyInv => StickyAddress
  BY DEF StickyInv, RequestInv, StickyAddress
<1>. QED  BY <1>1, InitStickyInv, NextStickyInv, PTL DEF Spec

(* The leader's passes spare the addresses on their list. *)
THEOREM SparesListedInSystem == Spec => CleanSparesListed
BY ImplementsRedis, SparesListed, PTL

---------------------------------------------------------------------------
(* Only sessions that were made up are registered. *)
IssuedInv ==
  /\ added \subseteq issued
  /\ \A r \in Requests : rpc[r] = "register" => rcookie[r] \in issued

(* The entry of a session. *)
Entry(c) == createNamespacedKey(Cookie(c))

(* The end of a request leaves no trace of it. *)
LEMMA AnswerEnds ==
  ASSUME RequestInv, NEW r \in Requests, Answer(r)
  PROVE  /\ rpc'[r] = "idle"
         /\ \A q \in Requests \ {r} : /\ rpc'[q] = rpc[q] /\ raddr'[q] = raddr[q]
                                      /\ rcookie'[q] = rcookie[q]
BY DEF Answer, RequestInv

(* Who changes what is known of requests and sessions: a request or a crash*)
LEMMA WhoTouchesSessions ==
  ASSUME [Next]_vars
  PROVE  \/ UNCHANGED <<added, issued, rpc, raddr, rcookie>>
         \/ \E p \in Procs : CrashProcess(p)
         \/ \E r \in Requests, p \in Procs, h \in Hosts, c \in known \cup {None} :
              Arrive(r, p, h, c)
         \/ \E r \in Requests : RequestStep(r)
<1>1. ASSUME NEW t \in Threads, Pass(t) PROVE UNCHANGED <<added, issued, rpc, raddr, rcookie>>
  BY <1>1 DEF Pass, handlerVars, requestVars, Lock, PassStep, KeysOk, KeysFails, GetOk, GetFails,
         StartRemoving, DelOk, DelFails, Return
<1>2. ASSUME NEW p \in Procs, OnUpdate(p) \/ StartProcess(p) \/ StartSync(p) \/ syncIngress(p)
      PROVE  UNCHANGED <<added, issued, rpc, raddr, rcookie>>
  BY <1>2 DEF OnUpdate, StartProcess, StartSync, syncIngress, ListIngresses, CallClean, Start,
         redisVars, handlerVars, requestVars
<1>4. ASSUME NEW t, PollStep(t) PROVE UNCHANGED <<added, issued, rpc, raddr, rcookie>>
  BY <1>4 DEF PollStep, StartPoll, PollClean, PollGivesUp, EndRead, ListIngresses, CallClean,
         redisVars, handlerVars, requestVars
<1>3. ASSUME NEW k \in Key, ExpireEntry(k) PROVE UNCHANGED <<added, issued, rpc, raddr, rcookie>>
  BY <1>3 DEF ExpireEntry, Expire, handlerVars, requestVars
<1>. QED
  BY <1>1, <1>2, <1>3, <1>4 DEF Next, vars, redisVars, handlerVars, requestVars, ChangeIngresses,
     ChangeEndpoints, SeeIngresses, SeeEndpoints, SyncStep, OnStartedLeading, OnStoppedLeading,
     FlushResponse

(* Every step keeps IssuedInv. *)
LEMMA NextIssuedInv == StickyInv /\ IssuedInv /\ [Next]_vars => IssuedInv'
<1>. SUFFICES ASSUME StickyInv, IssuedInv, [Next]_vars PROVE IssuedInv'
  OBVIOUS
<1>0. RequestInv /\ RedisInv
  BY DEF StickyInv
<1>1. ASSUME NEW r \in Requests, NEW c \in Cookies, ServeNewSession(r, c) PROVE IssuedInv'
  BY <1>0, <1>1 DEF ServeNewSession, IssuedInv, RequestInv, redisVars
<1>2. ASSUME NEW r \in Requests, Register(r) PROVE IssuedInv'
  <2>1. rcookie[r] \in issued /\ added' = added \cup {rcookie[r]} /\ issued' = issued
    BY <1>2 DEF Register, AddCookie, AddCookieOk, AddCookieFails, IssuedInv
  <2>2. Answer(r)
    BY <1>2 DEF Register
  <2>. QED  BY <1>0, <2>1, <2>2, AnswerEnds DEF IssuedInv
<1>3. ASSUME NEW r \in Requests, Answer(r), added' = added, issued \subseteq issued'
      PROVE  IssuedInv'
  BY <1>0, <1>3, AnswerEnds DEF IssuedInv
<1>4. ASSUME NEW r \in Requests, NEW st \in RequestStates \ {"register"},
             rpc' = [rpc EXCEPT ![r] = st], UNCHANGED <<added, issued>>,
             \A q \in Requests \ {r} : rcookie'[q] = rcookie[q]
      PROVE  IssuedInv'
  BY <1>0, <1>4 DEF IssuedInv, RequestInv
<1>5. ASSUME NEW p \in Procs, CrashProcess(p) PROVE IssuedInv'
  <2>1. UNCHANGED <<added, issued>>
    BY <1>5 DEF CrashProcess, Crash
  <2>2. \A r \in Requests : rpc'[r] = "idle" \/ (rpc'[r] = rpc[r] /\ rcookie'[r] = rcookie[r])
    BY <1>5 DEF CrashProcess
  <2>. QED  BY <2>1, <2>2 DEF IssuedInv
<1>6. CASE UNCHANGED <<added, issued, rpc, raddr, rcookie>>
  BY <1>6 DEF IssuedInv
<1>7. ASSUME NEW r \in Requests, NEW p \in Procs, NEW h \in Hosts, NEW c \in known \cup {None},
             Arrive(r, p, h, c)
      PROVE  IssuedInv'
  <2>1. PICK st \in {"load", "lookup"} : rpc' = [rpc EXCEPT ![r] = st]
    BY <1>7 DEF Arrive
  <2>2. UNCHANGED <<added, issued>> /\ rcookie' = [rcookie EXCEPT ![r] = c]
    BY <1>7 DEF Arrive, redisVars, handlerVars
  <2>3. \A q \in Requests \ {r} : rcookie'[q] = rcookie[q]
    BY <1>0, <2>2 DEF RequestInv
  <2>. QED  BY <1>4, <2>1, <2>2, <2>3 DEF RequestStates
<1>8. ASSUME NEW r \in Requests, RequestStep(r) PROVE IssuedInv'
  <2>1. CASE CookieFound(r) \/ LoadProxy(r) \/ StoreProxy(r) \/ ReloadProxy(r)
    <3>1. PICK st \in {"load", "store", "reload", "serve"} : rpc' = [rpc EXCEPT ![r] = st]
      BY <2>1 DEF CookieFound, LoadProxy, StoreProxy, ReloadProxy
    <3>2. UNCHANGED <<added, issued, rcookie>>
      BY <2>1 DEF CookieFound, LoadProxy, StoreProxy, ReloadProxy, LookupOk, redisVars, handlerVars
    <3>. QED  BY <1>4, <3>1, <3>2 DEF RequestStates
  <2>2. CASE CookieGone(r) \/ CookieFails(r) \/ ServeOnly(r)
             \/ \E c \in Cookies : ServeRotatedSession(r, c)
    <3>1. Answer(r) /\ added' = added /\ issued \subseteq issued'
      BY <2>2 DEF CookieGone, CookieFails, ServeOnly, ServeRotatedSession, LookupOk, LookupFails,
                  redisVars, handlerVars
    <3>. QED  BY <1>3, <3>1
  <2>. QED  BY <1>1, <1>2, <1>8, <2>1, <2>2 DEF RequestStep
<1>. QED  BY <1>5, <1>6, <1>7, <1>8, WhoTouchesSessions

(* When no entry and no registration is new, sessions are kept or lost. *)
LEMMA LifeKeptOrLost ==
  ASSUME StickyInv, IssuedInv, added \subseteq added', issued \subseteq issued',
         Registering' \subseteq Registering,
         \A c \in Cookies : redis'[Entry(c)] \in {redis[Entry(c)], None}
  PROVE  \A c \in Cookies : Life'[c] \in {Life[c], "gone"}
<1>. SUFFICES ASSUME NEW c \in Cookies PROVE Life'[c] \in {Life[c], "gone"}
  OBVIOUS
<1>1. redis[Entry(c)] # None => c \in added
  BY NamespaceOnce DEF Entry, StickyInv, RedisInv, TableInv
<1>2. c \in Registering => c \in issued
  BY DEF Registering, IssuedInv
<1>3. redis'[Entry(c)] \in {redis[Entry(c)], None}
  OBVIOUS
<1>. QED  BY <1>1, <1>2, <1>3 DEF Life, Entry

(* A step that does not add a session makes no entry. *)
LEMMA EntriesKeptOrLost ==
  ASSUME StickyInv, [Next]_vars, added' = added
  PROVE  \A c \in Cookies : redis'[Entry(c)] \in {redis[Entry(c)], None}
<1>1. RedisInv /\ RedisInv' /\ [RedisNext]_redisVars
  BY NextStickyInv, NextIsRedisNext DEF StickyInv
<1>2. \A k \in Key : k.id \in added => redis'[k] \in {redis[k], None}
  BY <1>1, TableStep
<1>3. \A k \in Key : k.id \notin added => redis'[k] = None
  BY <1>1 DEF RedisInv, TableInv
<1>. QED  BY <1>2, <1>3, NamespaceOnce DEF Entry

(* What is a step of SessionService that only loses. *)
LEMMA OnlyLoses ==
  ASSUME StickyInv', \A c \in Cookies : Life'[c] \in {Life[c], "gone"},
         \A r \in Requests : Route'[r] \in {Route[r], None}
  PROVE  Abstract!Lose
<1>1. Life' \in [Cookies -> Abstract!Lives]
  BY DEF Life, Abstract!Lives
<1>2. Route' \in [Requests -> Addrs \cup {None}]
  BY DEF Route, StickyInv, RequestInv, Values
<1>. QED  BY <1>1, <1>2 DEF Abstract!Lose

(* Every step of the system is a step of SessionService or none. *)
LEMMA StepServes ==
  ASSUME StickyInv, IssuedInv, [Next]_vars
  PROVE  [Abstract!Next]_Abstract!vars
<1>0. /\ StickyInv' /\ RequestInv
      /\ \A c \in Cookies : redis[Entry(c)] # None => redis[Entry(c)] = Issuer[c] /\ c \in added
  BY NextStickyInv, NamespaceOnce DEF StickyInv, RedisInv, TableInv, Entry
<1>1. ASSUME added' = added, issued \subseteq issued', Registering' \subseteq Registering,
             \A r \in Requests : Route'[r] \in {Route[r], None}
      PROVE  Abstract!Next
  <2>1. \A c \in Cookies : Life'[c] \in {Life[c], "gone"}
    BY <1>1, EntriesKeptOrLost, LifeKeptOrLost
  <2>. QED  BY <1>0, <1>1, <2>1, OnlyLoses DEF Abstract!Next
<1>2. CASE UNCHANGED <<added, issued, rpc, raddr, rcookie>>
  <2>1. Registering' = Registering /\ Route' = Route
    BY <1>2 DEF Registering, Route
  <2>2. \A r \in Requests : Route'[r] \in {Route[r], None}
    BY <2>1
  <2>. QED  BY <1>1, <1>2, <2>1, <2>2
<1>3. ASSUME NEW p \in Procs, CrashProcess(p) PROVE Abstract!Next
  <2>1. UNCHANGED <<added, issued>>
    BY <1>3 DEF CrashProcess, Crash
  <2>2. \A r \in Requests : \/ rpc'[r] = "idle"
                            \/ rpc'[r] = rpc[r] /\ raddr'[r] = raddr[r] /\ rcookie'[r] = rcookie[r]
    BY <1>3 DEF CrashProcess
  <2>3. Registering' \subseteq Registering
    BY <2>2 DEF Registering
  <2>4. \A r \in Requests : Route'[r] \in {Route[r], None}
    BY <2>2 DEF Route
  <2>. QED  BY <1>1, <2>1, <2>3, <2>4
<1>4. ASSUME NEW r \in Requests, NEW p \in Procs, NEW h \in Hosts, NEW c \in known \cup {None},
             Arrive(r, p, h, c)
      PROVE  Abstract!Next
  <2>1. /\ UNCHANGED <<added, issued>> /\ rpc[r] = "idle"
        /\ (rcookie'[r] = None /\ rpc'[r] = "load") \/ rpc'[r] = "lookup"
    BY <1>0, <1>4 DEF Arrive, RequestInv, redisVars, handlerVars
  <2>2. \A q \in Requests \ {r} : /\ rpc'[q] = rpc[q] /\ raddr'[q] = raddr[q]
                                  /\ rcookie'[q] = rcookie[q]
    BY <1>0, <1>4 DEF Arrive, RequestInv
  <2>3. Registering' \subseteq Registering
    BY <2>1, <2>2 DEF Registering
  <2>4. \A q \in Requests : Route'[q] \in {Route[q], None}
    BY <2>1, <2>2 DEF Route
  <2>. QED  BY <1>1, <2>1, <2>3, <2>4
<1>5. ASSUME NEW r \in Requests, LoadProxy(r) \/ StoreProxy(r) \/ ReloadProxy(r)
      PROVE  Abstract!Next
  <2>1. /\ UNCHANGED <<added, issued, raddr, rcookie>> /\ rpc[r] \in {"load", "store", "reload"}
        /\ \E st \in {"store", "reload", "serve"} : rpc' = [rpc EXCEPT ![r] = st]
    BY <1>5 DEF LoadProxy, StoreProxy, ReloadProxy, redisVars, handlerVars
  <2>2. Registering' \subseteq Registering
    BY <1>0, <2>1 DEF Registering, RequestInv
  <2>3. \A q \in Requests : Route'[q] \in {Route[q], None}
    BY <1>0, <2>1 DEF Route, RequestInv
  <2>. QED  BY <1>1, <2>1, <2>2, <2>3
<1>6. ASSUME NEW r \in Requests, Answer(r)
      PROVE  Registering' \subseteq Registering /\ \A q \in Requests : Route'[q] \in {Route[q], None}
  BY <1>0, <1>6, AnswerEnds DEF Registering, Route
<1>7. ASSUME NEW r \in Requests,
             CookieGone(r) \/ CookieFails(r) \/ ServeOnly(r)
             \/ \E c \in Cookies : ServeRotatedSession(r, c)
      PROVE  Abstract!Next
  <2>1. Answer(r) /\ added' = added /\ issued \subseteq issued'
    BY <1>7 DEF CookieGone, CookieFails, ServeOnly, ServeRotatedSession, LookupOk, LookupFails,
                redisVars, handlerVars
  <2>. QED  BY <1>1, <1>6, <2>1
<1>8. ASSUME NEW r \in Requests, CookieFound(r) PROVE Abstract!Next
  <2>. DEFINE c == rcookie[r]
  <2>1. c \in Cookies /\ redis[Entry(c)] # None
    BY <1>0, <1>8 DEF CookieFound, RequestInv, GetEndpoint, Entry
  <2>2. /\ raddr' = [raddr EXCEPT ![r] = Issuer[c]]
        /\ rpc' = [rpc EXCEPT ![r] = "load"] /\ rpc[r] = "lookup"
        /\ UNCHANGED <<redis, added, issued, rcookie>>
    BY <1>0, <1>8, <2>1 DEF CookieFound, LookupOk, GetEndpoint, Entry, handlerVars
  <2>3. Life[c] = "stored"
    BY <2>1 DEF Life, Entry
  <2>4. Registering' = Registering
    BY <1>0, <2>2 DEF Registering, RequestInv
  <2>5. Life' = Life
    BY <2>2, <2>4 DEF Life
  <2>6. Route[r] = None /\ Route' = [Route EXCEPT ![r] = Issuer[c]]
    <3>1. Route[r] = None /\ Route'[r] = Issuer[c]
      BY <1>0, <2>1, <2>2, HostsAssumption DEF Route, RequestInv
    <3>2. \A q \in Requests \ {r} : Route'[q] = Route[q]
      BY <1>0, <2>2 DEF Route, RequestInv
    <3>. QED  BY <3>1, <3>2 DEF Route
  <2>. QED  BY <2>1, <2>3, <2>5, <2>6 DEF Abstract!Next, Abstract!Send
<1>9. ASSUME NEW r \in Requests, NEW c \in Cookies, ServeNewSession(r, c) PROVE Abstract!Next
  <2>1. /\ rpc' = [rpc EXCEPT ![r] = "register"] /\ rcookie' = [rcookie EXCEPT ![r] = c]
        /\ rpc[r] = "serve" /\ rcookie[r] = None
        /\ c \notin issued /\ issued' = issued \cup {c}
        /\ UNCHANGED <<redis, added, raddr>>
    BY <1>9 DEF ServeNewSession, redisVars
  <2>2. Registering' = Registering \cup {c}
    BY <1>0, <2>1 DEF Registering, RequestInv
  <2>3. c \notin added /\ c \notin Registering /\ redis[Entry(c)] = None
    BY <1>0, <2>1 DEF IssuedInv, Registering
  <2>4. Life[c] = "new" /\ Life' = [Life EXCEPT ![c] = "issued"]
    BY <2>1, <2>2, <2>3 DEF Life, Entry
  <2>5. Route' = Route
    BY <1>0, <2>1 DEF Route, RequestInv
  <2>. QED  BY <2>4, <2>5 DEF Abstract!Next, Abstract!Issue
<1>10. ASSUME NEW r \in Requests, Register(r) PROVE Abstract!Next
  <2>. DEFINE c == rcookie[r]
  <2>1. /\ c \in Cookies /\ c \notin added /\ added' = added \cup {c} /\ issued' = issued
        /\ Answer(r) /\ rpc[r] = "register"
    BY <1>0, <1>10 DEF Register, RequestInv, AddCookie, AddCookieOk, AddCookieFails
  <2>2. CASE redis' = redis
    <3>1. \A d \in Cookies : Life'[d] \in {Life[d], "gone"}
      BY <1>6, <2>1, <2>2, LifeKeptOrLost
    <3>. QED  BY <1>0, <1>6, <2>1, <3>1, OnlyLoses DEF Abstract!Next
  <2>3. CASE redis' = [redis EXCEPT ![Entry(c)] = raddr[r]]
    <3>1. redis[Entry(c)] = None /\ c \in Registering
      BY <1>0, <2>1 DEF Registering
    <3>2. Life[c] = "issued"
      BY <2>1, <3>1 DEF Life, Entry
    <3>3. raddr[r] \in Addrs /\ raddr[r] # None
      BY <1>0, <2>1, NoneAssumption DEF RequestInv
    <3>4. redis'[Entry(c)] # None /\ \A d \in Cookies \ {c} : redis'[Entry(d)] = redis[Entry(d)]
      BY <1>0, <2>1, <2>3, <3>3, NamespaceOnce DEF Entry, StickyInv, RedisInv, RedisTypes
    <3>5. \A d \in Cookies \ {c} : d \in Registering' <=> d \in Registering
      BY <1>0, <2>1, AnswerEnds DEF Registering
    <3>6. Life'[c] = "stored" /\ \A d \in Cookies \ {c} : Life'[d] = Life[d]
      BY <2>1, <3>4, <3>5 DEF Life, Entry
    <3>7. Life' = [Life EXCEPT ![c] = "stored"]
      <4>1. Life \in [Cookies -> Abstract!Lives] /\ Life' \in [Cookies -> Abstract!Lives]
        BY DEF Life, Abstract!Lives
      <4>. QED  BY <2>1, <3>6, <4>1
    <3>8. Route' = Route
      BY <1>0, <2>1, AnswerEnds DEF Route
    <3>. QED  BY <2>1, <3>2, <3>7, <3>8 DEF Abstract!Next, Abstract!Store
  <2>. QED  BY <1>10, <2>2, <2>3 DEF Register, AddCookie, AddCookieOk, AddCookieFails, Entry
<1>. QED
  BY <1>2, <1>3, <1>4, <1>5, <1>7, <1>8, <1>9, <1>10, WhoTouchesSessions DEF RequestStep

(* The controllers together implement SessionService: a session may be     *)
(* lost, by a crash before its SET, a failed SET, a pass of Clean or its   *)
(* TTL, but it never comes back, and while it is stored its requests go to *)
(* the upstream that made it up.                                           *)
THEOREM ImplementsSessions == Spec => ServesSessions
<1>1. Init => StickyInv /\ IssuedInv
  BY InitStickyInv DEF Init, RedisInit, IssuedInv
<1>2. Init => Abstract!Init
  <2>. SUFFICES ASSUME Init PROVE Abstract!Init
    OBVIOUS
  <2>1. \A c \in Cookies : c \notin Earlier => redis[Entry(c)] = None
    BY NamespaceOnce DEF Init, RedisInit, Entry
  <2>4. \A c \in Earlier : redis[Entry(c)] # None
    BY NamespaceOnce, EarlierAssumption, IssuerAssumption, NoneAssumption
       DEF Init, RedisInit, Entry
  <2>2. Registering = {} /\ added = Earlier /\ issued = Earlier
    BY DEF Init, RedisInit, Registering
  <2>3. \A r \in Requests : rpc[r] = "idle"
    BY DEF Init
  <2>5. Life \in [Cookies -> {"new", "stored"}]
    BY <2>1, <2>2, <2>4 DEF Life, Entry
  <2>. QED  BY <2>3, <2>5 DEF Abstract!Init, Route
<1>3. StickyInv /\ IssuedInv /\ [Next]_vars => [Abstract!Next]_Abstract!vars
  BY StepServes
<1>. QED  BY <1>1, <1>2, <1>3, NextStickyInv, NextIssuedInv, PTL
          DEF Spec, ServesSessions, Abstract!Spec

---------------------------------------------------------------------------
(* The logs of the cluster only grow. *)
LEMMA LogsGrow ==
  ASSUME ViewTypes, [Next]_vars
  PROVE  /\ Len(ings) <= Len(ings') /\ \A i \in 1 .. Len(ings) : ings'[i] = ings[i]
         /\ Len(eps) <= Len(eps') /\ \A j \in 1 .. Len(eps) : eps'[j] = eps[j]
<1>0. Len(ings) \in Nat /\ Len(eps) \in Nat
  BY DEF ViewTypes
<1>1. CASE ChangeIngresses
  BY <1>1 DEF ChangeIngresses, ViewTypes
<1>2. ASSUME NEW h \in Hosts, NEW as \in AddrSets, ChangeEndpoints(h, as)
      PROVE  /\ Len(eps) <= Len(eps') /\ \A j \in 1 .. Len(eps) : eps'[j] = eps[j]
             /\ ings' = ings
  BY <1>2 DEF ChangeEndpoints, ViewTypes
<1>3. CASE UNCHANGED clusterVars
  BY <1>0, <1>3 DEF clusterVars
<1>5. \A h \in Hosts : Populations[h] \subseteq AddrSets
  BY HostsAssumption DEF AddrSets
<1>4. \/ ChangeIngresses
      \/ \E h \in Hosts, as \in AddrSets : ChangeEndpoints(h, as)
      \/ UNCHANGED clusterVars
  BY <1>5 DEF Next, vars, clusterVars, SeeIngresses, SeeEndpoints, SyncStep, StartSync,
         syncIngress, OnUpdate, CrashProcess, StartProcess, PollStep, StartPoll, PollClean,
         PollGivesUp, EndRead, ListIngresses, OnStartedLeading, OnStoppedLeading, Pass,
         ExpireEntry, Arrive, FlushResponse, RequestStep, CookieFound, CookieGone, CookieFails,
         LoadProxy, StoreProxy, ReloadProxy, ServeOnly, ServeNewSession, ServeRotatedSession,
         Register
<1>. QED  BY <1>0, <1>1, <1>2, <1>3, <1>4

(* Addresses that are not on the list have been missing from every service *)
(* at times.                                                               *)
Covers(as) == \A a \in Addrs \ as : OnceUnlisted(a)

(* The ingresses of a list are those of some time, what is not in a        *)
(* configuration was missing at times, and so was what a pass drops.       *)
DropInv ==
  /\ \A t \in Threads : reading[t] # None => \E i \in 1 .. Len(ings) : reading[t].hosts = ings[i]
  /\ \A p \in Procs : plan[p] # None => Covers(AllAddrs(plan[p]))
  /\ \A t \in Threads : \A a \in cdrop[t] \ {None} : OnceUnlisted(a)

(* What was missing at times stays so, as the logs only grow. *)
LEMMA LogsKeep ==
  ASSUME ViewTypes, [Next]_vars
  PROVE  /\ \A hs : (\E i \in 1 .. Len(ings) : hs = ings[i])
                     => \E i \in 1 .. Len(ings') : hs = ings'[i]
         /\ \A as : Covers(as) => Covers(as)'
         /\ \A a : OnceUnlisted(a) => OnceUnlisted(a)'
<1>0. Len(ings) \in Nat /\ Len(eps) \in Nat /\ Len(ings') \in Nat /\ Len(eps') \in Nat
  <2>1. ViewTypes'
    BY NextViewTypes
  <2>. QED  BY <2>1 DEF ViewTypes
<1>1. ASSUME NEW i \in 1 .. Len(ings) PROVE i \in 1 .. Len(ings') /\ ings'[i] = ings[i]
  BY <1>0, LogsGrow
<1>2. ASSUME NEW j \in 1 .. Len(eps) PROVE j \in 1 .. Len(eps') /\ eps'[j] = eps[j]
  BY <1>0, LogsGrow
<1>3. ASSUME NEW a, OnceUnlisted(a) PROVE OnceUnlisted(a)'
  <2>1. ASSUME NEW h \in Matched
        PROVE  \/ \E i \in 1 .. Len(ings') : h \notin ings'[i]
               \/ \E j \in 1 .. Len(eps') : eps'[j][h] = None \/ a \notin eps'[j][h]
    <3>1. CASE \E i \in 1 .. Len(ings) : h \notin ings[i]
      BY <1>1, <3>1
    <3>2. CASE \E j \in 1 .. Len(eps) : eps[j][h] = None \/ a \notin eps[j][h]
      BY <1>2, <3>2
    <3>. QED  BY <1>3, <3>1, <3>2 DEF OnceUnlisted
  <2>. QED  BY <2>1 DEF OnceUnlisted
<1>4. ASSUME NEW as, Covers(as) PROVE Covers(as)'
  BY <1>3, <1>4 DEF Covers
<1>5. ASSUME NEW hs, NEW i \in 1 .. Len(ings), hs = ings[i]
      PROVE  \E k \in 1 .. Len(ings') : hs = ings'[k]
  BY <1>1, <1>5
<1>. QED  BY <1>3, <1>4, <1>5

(* A list that was read service by service misses an address only if no    *)
(* service has had it all the time.                                        *)
LEMMA ReadsCover ==
  ASSUME ViewTypes, DropInv, NEW t \in Threads, reading[t] # None, NEW addrs \in Reads(t)
  PROVE  /\ Covers(AllAddrs(Configuration(reading[t].hosts, addrs)))
         /\ Covers(ActiveEndpoints(reading[t].hosts, addrs))
<1>. DEFINE hosts == reading[t].hosts
            conf == Configuration(hosts, addrs)
<1>1. PICK i \in 1 .. Len(ings) : hosts = ings[i]
  BY DEF DropInv
<1>2. /\ hosts \in SUBSET Hosts /\ addrs \in [Hosts -> AddrSets]
      /\ \A h \in Hosts : \E j \in 1 .. Len(eps) : addrs[h] = eps[j][h]
  BY ReadsType
<1>3. Matched \subseteq Hosts
  BY HostsAssumption
<1>4. ASSUME NEW a, a \notin AllAddrs(conf) PROVE OnceUnlisted(a)
  <2>1. ASSUME NEW h \in Matched, h \in hosts, addrs[h] # None PROVE a \notin addrs[h]
    <3>1. conf[h] = addrs[h]
      BY <1>3, <2>1 DEF Configuration
    <3>. QED  BY <1>3, <1>4, <2>1, <3>1 DEF AllAddrs
  <2>2. ASSUME NEW h \in Matched
        PROVE  \/ \E k \in 1 .. Len(ings) : h \notin ings[k]
               \/ \E j \in 1 .. Len(eps) : eps[j][h] = None \/ a \notin eps[j][h]
    <3>1. PICK j \in 1 .. Len(eps) : addrs[h] = eps[j][h]
      BY <1>2, <1>3
    <3>. QED  BY <1>1, <2>1, <3>1
  <2>. QED  BY <2>2 DEF OnceUnlisted
<1>5. ASSUME NEW a \in AllAddrs(conf) PROVE a \in ActiveEndpoints(hosts, addrs)
  <2>1. PICK h \in Hosts : conf[h] # None /\ a \in conf[h]
    BY <1>5 DEF AllAddrs
  <2>2. h \in hosts /\ addrs[h] # None /\ a \in addrs[h]
    BY <2>1 DEF Configuration
  <2>. QED  BY <2>2 DEF ActiveEndpoints
<1>. QED  BY <1>4, <1>5 DEF Covers

LEMMA NextDropInv == StickyInv /\ DropInv /\ [Next]_vars => DropInv'
<1>. SUFFICES ASSUME StickyInv, DropInv, [Next]_vars PROVE DropInv'
  OBVIOUS
<1>0. /\ ViewTypes /\ cdrop \in [Threads -> SUBSET Values]
      /\ plan \in [Procs -> Configs \cup {None}]
      /\ reading \in [Threads -> Readings \cup {None}]
  BY DEF StickyInv, ViewTypes, RedisInv, RedisTypes
<1>1. /\ \A hs : (\E i \in 1 .. Len(ings) : hs = ings[i]) => \E i \in 1 .. Len(ings') : hs = ings'[i]
      /\ \A as : Covers(as) => Covers(as)'
      /\ \A a : OnceUnlisted(a) => OnceUnlisted(a)'
  BY <1>0, LogsKeep
<1>2. ASSUME \A t \in Threads : reading'[t] # None
                               => \E i \in 1 .. Len(ings) : reading'[t].hosts = ings[i],
             \A p \in Procs : plan'[p] # None => Covers(AllAddrs(plan'[p])),
             \A t \in Threads : \A a \in cdrop'[t] \ {None} : OnceUnlisted(a)
      PROVE  DropInv'
  <2>1. \A t \in Threads : reading'[t] # None
                            => \E i \in 1 .. Len(ings') : reading'[t].hosts = ings'[i]
    <3>. SUFFICES ASSUME NEW t \in Threads, reading'[t] # None
                  PROVE  \E i \in 1 .. Len(ings') : reading'[t].hosts = ings'[i]
      OBVIOUS
    <3>. DEFINE hs == reading'[t].hosts
    <3>1. \E i \in 1 .. Len(ings) : hs = ings[i]
      BY <1>2
    <3>. HIDE DEF hs
    <3>2. \E i \in 1 .. Len(ings') : hs = ings'[i]
      BY <1>1, <3>1
    <3>. QED  BY <3>2 DEF hs
  <2>2. \A p \in Procs : plan'[p] # None
                          => \A a \in Addrs \ AllAddrs(plan'[p]) : OnceUnlisted(a)'
    BY <1>1, <1>2 DEF Covers
  <2>3. \A t \in Threads : \A a \in cdrop'[t] \ {None} : OnceUnlisted(a)'
    BY <1>1, <1>2
  <2>. QED  BY <2>1, <2>2, <2>3 DEF DropInv, Covers
<1>3. ASSUME \A t \in Threads : reading'[t] \in {reading[t], None}
      PROVE  \A t \in Threads : reading'[t] # None
                               => \E i \in 1 .. Len(ings) : reading'[t].hosts = ings[i]
  BY <1>3 DEF DropInv
<1>4. ASSUME NEW p \in Procs, syncIngress(p) PROVE DropInv'
  <2>. DEFINE t == <<p, "worker">>
  <2>1. t \in Threads /\ reading[t] # None
    BY <1>4, HostsAssumption DEF Threads, syncIngress
  <2>2. PICK addrs \in Reads(t) :
          LET generated == Configuration(reading[t].hosts, addrs) IN
          plan' = [plan EXCEPT ![p] = IF generated = config[p] THEN None ELSE generated]
    BY <1>4 DEF syncIngress
  <2>3. Covers(AllAddrs(Configuration(reading[t].hosts, addrs)))
    BY <1>0, <2>1, <2>2, ReadsCover
  <2>4. \A q \in Procs : plan'[q] # None => Covers(AllAddrs(plan'[q]))
    BY <1>0, <2>2, <2>3 DEF DropInv
  <2>5. cdrop' = cdrop /\ \A u \in Threads : reading'[u] \in {reading[u], None}
    BY <1>0, <1>4 DEF syncIngress, redisVars, passVars
  <2>. QED  BY <1>2, <1>3, <2>4, <2>5 DEF DropInv
<1>5. ASSUME NEW t \in Threads, NEW as, Covers(as), CallClean(t, as)
      PROVE  \A u \in Threads : \A a \in cdrop'[u] \ {None} : OnceUnlisted(a)
  <2>1. \A u \in Threads : cdrop'[u] \in {cdrop[u], Values \ as}
    BY <1>0, <1>5 DEF CallClean
  <2>. QED  BY <1>5, <2>1 DEF DropInv, Covers, Values
<1>6. ASSUME NEW p \in Procs, OnUpdate(p) PROVE DropInv'
  <2>1. plan[p] # None /\ plan' = [plan EXCEPT ![p] = None] /\ Covers(AllAddrs(plan[p]))
    BY <1>6 DEF OnUpdate, DropInv
  <2>2. \A q \in Procs : plan'[q] # None => Covers(AllAddrs(plan'[q]))
    BY <1>0, <2>1 DEF DropInv
  <2>3. reading' = reading
    BY <1>6 DEF OnUpdate
  <2>4. CASE CallClean(<<p, "worker">>, AllAddrs(plan[p]))
    <3>1. <<p, "worker">> \in Threads
      BY HostsAssumption DEF Threads
    <3>. QED  BY <1>2, <1>3, <1>5, <2>1, <2>2, <2>3, <2>4, <3>1
  <2>5. CASE UNCHANGED redisVars
    BY <1>2, <1>3, <2>2, <2>3, <2>5 DEF redisVars, passVars, DropInv
  <2>. QED  BY <1>6, <2>4, <2>5 DEF OnUpdate
<1>7. ASSUME NEW t \in PollThreads, PollClean(t) PROVE DropInv'
  <2>1. t \in Threads /\ reading[t] # None
    BY <1>7, HostsAssumption DEF Threads, PollThreads, PollClean
  <2>2. PICK addrs \in Reads(t) : CallClean(t, ActiveEndpoints(reading[t].hosts, addrs))
    BY <1>7 DEF PollClean
  <2>3. Covers(ActiveEndpoints(reading[t].hosts, addrs))
    BY <1>0, <2>1, <2>2, ReadsCover
  <2>4. \A u \in Threads : \A a \in cdrop'[u] \ {None} : OnceUnlisted(a)
    BY <1>5, <2>1, <2>2, <2>3
  <2>5. plan' = plan /\ \A u \in Threads : reading'[u] \in {reading[u], None}
    BY <1>0, <1>7 DEF PollClean, EndRead
  <2>. QED  BY <1>2, <1>3, <2>4, <2>5 DEF DropInv
<1>13. ASSUME NEW t \in Threads, ListIngresses(t) PROVE DropInv'
  <2>1. t[1] \in Procs
    BY DEF Threads
  <2>2. ingView[t[1]] \in 1 .. Len(ings)
    BY <1>0, <2>1 DEF ViewTypes
  <2>3. \A u \in Threads : reading'[u] = reading[u] \/ reading'[u].hosts = ings[ingView[t[1]]]
    BY <1>0, <1>13 DEF ListIngresses
  <2>4. \A u \in Threads : reading'[u] # None
                            => \E i \in 1 .. Len(ings) : reading'[u].hosts = ings[i]
    BY <2>2, <2>3 DEF DropInv
  <2>5. plan' = plan /\ cdrop' = cdrop
    BY <1>13 DEF ListIngresses, redisVars, passVars
  <2>. QED  BY <1>2, <2>4, <2>5 DEF DropInv
<1>8. ASSUME \A p \in Procs : plan'[p] \in {plan[p], None},
             \A t \in Threads : reading'[t] \in {reading[t], None},
             \A t \in Threads : cdrop'[t] \in {cdrop[t], {}}
      PROVE  DropInv'
  BY <1>2, <1>3, <1>8 DEF DropInv
<1>9. ASSUME NEW p \in Procs, CrashProcess(p) PROVE DropInv'
  <2>1. \A t \in Threads : cdrop'[t] \in {cdrop[t], {}}
    BY <1>9 DEF CrashProcess, Crash
  <2>2. \A q \in Procs : plan'[q] \in {plan[q], None}
    BY <1>0, <1>9 DEF CrashProcess
  <2>3. \A t \in Threads : reading'[t] \in {reading[t], None}
    BY <1>9 DEF CrashProcess
  <2>. QED  BY <1>8, <2>1, <2>2, <2>3
<1>14. ASSUME NEW t \in PollThreads, PollGivesUp(t) PROVE DropInv'
  <2>1. UNCHANGED <<plan, cdrop>> /\ \A u \in Threads : reading'[u] \in {reading[u], None}
    BY <1>0, <1>14 DEF PollGivesUp, EndRead, redisVars, passVars
  <2>. QED  BY <1>8, <2>1
<1>10. ASSUME NEW t \in Threads, Pass(t) PROVE DropInv'
  <2>1. plan' = plan /\ reading' = reading
    BY <1>10 DEF Pass, viewVars
  <2>2. CASE Return(t)
    BY <1>0, <1>8, <2>1, <2>2 DEF Return
  <2>3. CASE cdrop' = cdrop
    BY <1>8, <2>1, <2>3
  <2>. QED
    BY <1>10, <2>2, <2>3 DEF Pass, Lock, PassStep, KeysOk, KeysFails, GetOk, GetFails,
                             StartRemoving, DelOk, DelFails
<1>11. CASE UNCHANGED <<plan, reading, cdrop>>
  BY <1>8, <1>11
<1>12. \/ UNCHANGED <<plan, reading, cdrop>>
       \/ \E p \in Procs : syncIngress(p) \/ OnUpdate(p) \/ CrashProcess(p)
       \/ \E t \in PollThreads : PollClean(t) \/ PollGivesUp(t)
       \/ \E t \in Threads : ListIngresses(t)
       \/ \E t \in Threads : Pass(t)
  <2>1. ASSUME NEW p \in Procs, \/ SeeIngresses(p) \/ SeeEndpoints(p) \/ StartProcess(p)
                                \/ OnStartedLeading(p) \/ OnStoppedLeading(p)
        PROVE  UNCHANGED <<plan, reading, cdrop>>
    BY <2>1 DEF SeeIngresses, SeeEndpoints, StartProcess, Start, OnStartedLeading,
                OnStoppedLeading, redisVars, passVars, viewVars
  <2>2. ASSUME NEW k, ExpireEntry(k) PROVE UNCHANGED <<plan, reading, cdrop>>
    BY <2>2 DEF ExpireEntry, Expire, passVars, viewVars
  <2>3. ASSUME NEW r, FlushResponse(r) \/ RequestStep(r) \/ \E p, h, c : Arrive(r, p, h, c)
        PROVE  UNCHANGED <<plan, reading, cdrop>>
    BY <2>3 DEF Arrive, FlushResponse, RequestStep, CookieFound, CookieGone, CookieFails,
         LookupOk, LookupFails, LoadProxy, StoreProxy, ReloadProxy, ServeOnly, ServeNewSession,
         ServeRotatedSession, Register, AddCookie, AddCookieOk, AddCookieFails, redisVars,
         passVars, viewVars
  <2>4. CASE ChangeIngresses \/ \E h \in Hosts : \E as \in Populations[h] : ChangeEndpoints(h, as)
    BY <2>4 DEF ChangeIngresses, ChangeEndpoints, redisVars, passVars, viewVars
  <2>5. CASE UNCHANGED vars
    BY <2>5 DEF vars, redisVars, passVars, viewVars
  <2>6. ASSUME NEW p \in Procs, StartSync(p) PROVE \E t \in Threads : ListIngresses(t)
    BY <2>6, HostsAssumption DEF StartSync, Threads
  <2>7. ASSUME NEW t \in PollThreads, StartPoll(t) PROVE \E u \in Threads : ListIngresses(u)
    BY <2>7, HostsAssumption DEF StartPoll, Threads, PollThreads
  <2>. QED  BY <2>1, <2>2, <2>3, <2>4, <2>5, <2>6, <2>7 DEF Next, SyncStep, PollStep
<1>. QED  BY <1>4, <1>6, <1>7, <1>9, <1>10, <1>11, <1>12, <1>13, <1>14

(* However old the caches are that the list of a pass was made from, though*)
(* it was read service by service while they changed, and whoever leads by *)
(* the time of its DEL, a pass removes no session of an address that one   *)
(* service behind an ingress has had all the time.                         *)
THEOREM StableKept == Spec => StableSessionsKept
<1>1. Init => StickyInv /\ DropInv
  <2>1. Init => DropInv
    BY DEF Init, RedisInit, DropInv
  <2>. QED  BY <2>1, InitStickyInv
<1>2. ASSUME StickyInv, DropInv, [Next]_vars
      PROVE  [\A c \in Cookies :
                LET k == createNamespacedKey(Cookie(c)) IN
                redis[k] # None /\ redis'[k] = None /\ ~Expire(k) => OnceUnlisted(redis[k])]_vars
  <2>1. ASSUME NEW c \in Cookies, redis[Entry(c)] # None, redis'[Entry(c)] = None,
               ~Expire(Entry(c))
        PROVE  OnceUnlisted(redis[Entry(c)])
    <3>1. RedisInv /\ [RedisNext]_redisVars
      BY <1>2, NextIsRedisNext DEF StickyInv
    <3>2. Entry(c) \in Key
      BY NamespaceOnce DEF Entry
    <3>3. PICK t \in Threads : redis[Entry(c)] \in cdrop[t]
      BY <2>1, <3>1, <3>2, SparesListedStep
    <3>. QED  BY <1>2, <2>1, <3>3 DEF DropInv
  <2>. QED  BY <2>1 DEF Entry
<1>. QED  BY <1>1, <1>2, NextStickyInv, NextDropInv, PTL DEF Spec, StableSessionsKept

---------------------------------------------------------------------------
(* A request that is about to load a proxy anew finds the one that it or   *)
(* another request of its process stored, and serves with the one it found.*)
Ports == {PortOf[h] : h \in Hosts} \cup {WLSPort}
ProxyInv ==
  /\ proxyMap \in [Procs -> [Addrs -> Ports \cup {None}]]
  /\ rport \in [Requests -> Ports \cup {None}]
  /\ \A r \in Requests :
       /\ rpc[r] = "reload" => proxyMap[rproc[r]][raddr[r]] # None
       /\ rpc[r] = "serve" => rport[r] # None

(* Who changes what is known of requests and proxies. *)
LEMMA WhoTouchesProxies ==
  ASSUME [Next]_vars
  PROVE  \/ UNCHANGED <<proxyMap, rpc, rproc, raddr, rport>>
         \/ \E p \in Procs : CrashProcess(p)
         \/ \E r \in Requests, p \in Procs, h \in Hosts, c \in known \cup {None} :
              Arrive(r, p, h, c)
         \/ \E r \in Requests : RequestStep(r)
BY DEF Next, vars, handlerVars, requestVars, ChangeIngresses, ChangeEndpoints, SeeIngresses,
       SeeEndpoints, StartProcess, SyncStep, StartSync, syncIngress, OnUpdate, PollStep, StartPoll,
       PollClean, PollGivesUp, EndRead, ListIngresses, OnStartedLeading, OnStoppedLeading, Pass,
       ExpireEntry, FlushResponse

LEMMA NextProxyInv == StickyInv /\ ProxyInv /\ [Next]_vars => ProxyInv'
<1>. SUFFICES ASSUME StickyInv, ProxyInv, [Next]_vars PROVE ProxyInv'
  OBVIOUS
<1>0. RequestInv
  BY DEF StickyInv
<1>1. ASSUME NEW r \in Requests, NEW st \in RequestStates \ {"reload", "serve"},
             rpc' = [rpc EXCEPT ![r] = st], proxyMap' = proxyMap,
             rport' \in [Requests -> Ports \cup {None}],
             \A q \in Requests \ {r} : /\ rproc'[q] = rproc[q] /\ raddr'[q] = raddr[q]
                                       /\ rport'[q] = rport[q]
      PROVE  ProxyInv'
  <2>1. \A q \in Requests : rpc'[q] \in {"reload", "serve"} => q # r /\ rpc'[q] = rpc[q]
    BY <1>0, <1>1 DEF RequestInv
  <2>. QED  BY <1>1, <2>1 DEF ProxyInv
<1>2. ASSUME NEW r \in Requests, Answer(r), proxyMap' = proxyMap PROVE ProxyInv'
  <2>1. /\ "idle" \in RequestStates \ {"reload", "serve"} /\ rpc' = [rpc EXCEPT ![r] = "idle"]
        /\ rport' \in [Requests -> Ports \cup {None}]
        /\ \A q \in Requests \ {r} : /\ rproc'[q] = rproc[q] /\ raddr'[q] = raddr[q]
                                     /\ rport'[q] = rport[q]
    BY <1>0, <1>2 DEF Answer, RequestInv, ProxyInv, RequestStates
  <2>. QED  BY <1>1, <1>2, <2>1
<1>3. ASSUME NEW r \in Requests, NEW p \in Procs, NEW h \in Hosts, NEW c \in known \cup {None},
             Arrive(r, p, h, c)
      PROVE  ProxyInv'
  <2>1. PICK st \in {"load", "lookup"} : rpc' = [rpc EXCEPT ![r] = st]
    BY <1>3 DEF Arrive
  <2>2. /\ proxyMap' = proxyMap /\ rport' = rport
        /\ \A q \in Requests \ {r} : rproc'[q] = rproc[q] /\ raddr'[q] = raddr[q]
    BY <1>0, <1>3 DEF Arrive, handlerVars, RequestInv
  <2>. QED  BY <1>1, <2>1, <2>2 DEF RequestStates, ProxyInv
<1>4. ASSUME NEW r \in Requests, CookieFound(r) PROVE ProxyInv'
  <2>1. /\ rpc' = [rpc EXCEPT ![r] = "load"] /\ proxyMap' = proxyMap
        /\ rport' = rport /\ rproc' = rproc
        /\ \A q \in Requests \ {r} : raddr'[q] = raddr[q]
    BY <1>0, <1>4 DEF CookieFound, handlerVars, RequestInv
  <2>. QED  BY <1>1, <2>1 DEF RequestStates, ProxyInv
<1>5. ASSUME NEW r \in Requests, LoadProxy(r) \/ ReloadProxy(r) PROVE ProxyInv'
  <2>. DEFINE port == proxyMap[rproc[r]][raddr[r]]
  <2>1. rproc[r] \in Procs /\ raddr[r] \in Addrs
    BY <1>0, <1>5 DEF LoadProxy, ReloadProxy, RequestInv
  <2>2. port \in Ports \cup {None}
    BY <2>1 DEF ProxyInv
  <2>3. /\ rport' = [rport EXCEPT ![r] = port]
        /\ UNCHANGED <<proxyMap, rproc, raddr>>
        /\ \E st \in {"store", "serve"} : rpc' = [rpc EXCEPT ![r] = st] /\ (st = "serve" => port # None)
    <3>1. CASE LoadProxy(r)
      <4>1. rport'[r] = port
        BY <3>1 DEF LoadProxy, ProxyInv
      <4>. QED  BY <3>1, <4>1 DEF LoadProxy, handlerVars
    <3>2. CASE ReloadProxy(r)
      BY <3>2 DEF ReloadProxy, handlerVars, ProxyInv
    <3>. QED  BY <1>5, <3>1, <3>2
  <2>. HIDE DEF port
  <2>. QED  BY <1>0, <2>2, <2>3 DEF ProxyInv, RequestInv
<1>6. ASSUME NEW r \in Requests, StoreProxy(r) PROVE ProxyInv'
  <2>. DEFINE port == IF rcookie[r] = None THEN PortOf[rhost[r]] ELSE WLSPort
  <2>1. rproc[r] \in Procs /\ raddr[r] \in Addrs /\ rhost[r] \in Hosts
    BY <1>0, <1>6 DEF StoreProxy, RequestInv
  <2>2. port \in Ports /\ port # None
    BY <2>1, HostsAssumption DEF Ports
  <2>3. /\ proxyMap' = [proxyMap EXCEPT ![rproc[r]][raddr[r]] = port]
        /\ rpc' = [rpc EXCEPT ![r] = "reload"]
        /\ UNCHANGED <<rproc, raddr, rport>>
    BY <1>6 DEF StoreProxy
  <2>. HIDE DEF port
  <2>4. proxyMap' \in [Procs -> [Addrs -> Ports \cup {None}]]
    BY <2>1, <2>2, <2>3 DEF ProxyInv
  <2>5. /\ proxyMap'[rproc[r]][raddr[r]] = port
        /\ \A p \in Procs, a \in Addrs : proxyMap'[p][a] \in {proxyMap[p][a], port}
    BY <2>1, <2>3 DEF ProxyInv
  <2>6. \A q \in Requests : rpc'[q] = "reload" => proxyMap'[rproc'[q]][raddr'[q]] # None
    <3>. SUFFICES ASSUME NEW q \in Requests, rpc'[q] = "reload"
                  PROVE  proxyMap'[rproc[q]][raddr[q]] # None
      BY <2>3
    <3>1. CASE q = r
      BY <2>2, <2>5, <3>1
    <3>2. CASE q # r
      <4>1. rpc[q] = "reload"
        BY <1>0, <2>3, <3>2 DEF RequestInv
      <4>2. rproc[q] \in Procs /\ raddr[q] \in Addrs /\ proxyMap[rproc[q]][raddr[q]] # None
        BY <1>0, <4>1 DEF RequestInv, ProxyInv
      <4>. QED  BY <2>2, <2>5, <4>2
    <3>. QED  BY <3>1, <3>2
  <2>7. \A q \in Requests : rpc'[q] = "serve" => rport'[q] # None
    BY <1>0, <2>3 DEF RequestInv, ProxyInv
  <2>. QED  BY <2>3, <2>4, <2>6, <2>7 DEF ProxyInv
<1>7. ASSUME NEW r \in Requests, NEW c \in Cookies, ServeNewSession(r, c) PROVE ProxyInv'
  <2>1. rpc' = [rpc EXCEPT ![r] = "register"] /\ UNCHANGED <<proxyMap, rproc, raddr, rport>>
    BY <1>7 DEF ServeNewSession
  <2>. QED  BY <1>1, <2>1 DEF RequestStates, ProxyInv
<1>8. ASSUME NEW p \in Procs, CrashProcess(p) PROVE ProxyInv'
  <2>1. /\ proxyMap' \in [Procs -> [Addrs -> Ports \cup {None}]]
        /\ \A q \in Procs \ {p} : proxyMap'[q] = proxyMap[q]
    BY <1>8 DEF CrashProcess, ProxyInv
  <2>2. rport' \in [Requests -> Ports \cup {None}]
    BY <1>8 DEF CrashProcess, ProxyInv
  <2>3. \A r \in Requests : \/ rpc'[r] = "idle"
                            \/ /\ rpc'[r] = rpc[r] /\ rproc'[r] = rproc[r] /\ rproc[r] # p
                               /\ raddr'[r] = raddr[r] /\ rport'[r] = rport[r]
    BY <1>8 DEF CrashProcess
  <2>4. \A r \in Requests : rpc[r] # "idle" => rproc[r] \in Procs
    BY <1>0 DEF RequestInv
  <2>. QED  BY <2>1, <2>2, <2>3, <2>4 DEF ProxyInv
<1>9. CASE UNCHANGED <<proxyMap, rpc, rproc, raddr, rport>>
  BY <1>9 DEF ProxyInv
<1>10. ASSUME NEW r \in Requests,
              CookieGone(r) \/ CookieFails(r) \/ ServeOnly(r) \/ Register(r)
              \/ \E c \in Cookies : ServeRotatedSession(r, c)
       PROVE  ProxyInv'
  <2>1. Answer(r) /\ proxyMap' = proxyMap
    BY <1>10 DEF CookieGone, CookieFails, ServeOnly, Register, ServeRotatedSession, handlerVars
  <2>. QED  BY <1>2, <2>1
<1>. QED
  BY <1>3, <1>4, <1>5, <1>6, <1>7, <1>8, <1>9, <1>10, WhoTouchesProxies DEF RequestStep

(* The leader's flags, the bounds, and the sessions clients know. *)
OtherTypes ==
  /\ leader \in [Procs -> BOOLEAN] /\ terms \in 0 .. MaxTerms
  /\ requests \in 0 .. MaxRequests
  /\ known \subseteq issued

LEMMA NextOtherTypes == IssuedInv /\ OtherTypes /\ [Next]_vars => OtherTypes'
<1>. SUFFICES ASSUME IssuedInv, OtherTypes, [Next]_vars PROVE OtherTypes'
  OBVIOUS
<1>. USE HostsAssumption DEF OtherTypes
<1>1. ASSUME NEW p \in Procs, OnStartedLeading(p) \/ OnStoppedLeading(p) \/ CrashProcess(p)
      PROVE  OtherTypes'
  <2>1. leader' \in [Procs -> BOOLEAN]
    BY <1>1 DEF OnStartedLeading, OnStoppedLeading, CrashProcess
  <2>2. terms' \in 0 .. MaxTerms
    BY <1>1 DEF OnStartedLeading, OnStoppedLeading, CrashProcess
  <2>3. UNCHANGED <<known, issued, requests>>
    BY <1>1 DEF OnStartedLeading, OnStoppedLeading, CrashProcess, handlerVars
  <2>. QED  BY <2>1, <2>2, <2>3
<1>2. ASSUME NEW r \in Requests, NEW p \in Procs, NEW h \in Hosts, NEW c \in known \cup {None},
             Arrive(r, p, h, c)
      PROVE  OtherTypes'
  BY <1>2 DEF Arrive, leaderVars, handlerVars
<1>3. ASSUME NEW r \in Requests, FlushResponse(r) \/ RequestStep(r) PROVE OtherTypes'
  <2>1. UNCHANGED <<leaderVars, requests>>
    BY <1>3 DEF FlushResponse, RequestStep, CookieFound, CookieGone, CookieFails, LoadProxy,
         StoreProxy, ReloadProxy, ServeOnly, ServeNewSession, ServeRotatedSession, Register
  <2>2. known' \subseteq issued'
    <3>1. CASE FlushResponse(r)
      BY <3>1 DEF FlushResponse, IssuedInv
    <3>2. CASE Register(r)
      BY <3>2 DEF Register, IssuedInv
    <3>. QED
      BY <1>3, <3>1, <3>2 DEF RequestStep, CookieFound, CookieGone, CookieFails, LoadProxy,
         StoreProxy, ReloadProxy, ServeOnly, ServeNewSession, ServeRotatedSession, handlerVars
  <2>. QED  BY <2>1, <2>2 DEF leaderVars
<1>4. CASE UNCHANGED <<leaderVars, requests, handlerVars>>
  BY <1>4 DEF leaderVars, handlerVars
<1>5. \/ UNCHANGED <<leaderVars, requests, handlerVars>>
      \/ \E p \in Procs : OnStartedLeading(p) \/ OnStoppedLeading(p) \/ CrashProcess(p)
      \/ \E r \in Requests, p \in Procs, h \in Hosts, c \in known \cup {None} : Arrive(r, p, h, c)
      \/ \E r \in Requests : FlushResponse(r) \/ RequestStep(r)
  BY DEF Next, vars, ChangeIngresses, ChangeEndpoints, SeeIngresses, SeeEndpoints, StartProcess,
         SyncStep, StartSync, syncIngress, OnUpdate, PollStep, StartPoll, PollClean, PollGivesUp,
         EndRead, ListIngresses, Pass, ExpireEntry
<1>. QED  BY <1>1, <1>2, <1>3, <1>4, <1>5

QueuedType == queued \in [Procs -> BOOLEAN]

LEMMA NextQueued == QueuedType /\ [Next]_vars => QueuedType'
<1>. SUFFICES ASSUME QueuedType, [Next]_vars PROVE QueuedType'
  OBVIOUS
<1>. USE DEF QueuedType
<1>1. CASE \E p \in Procs, b \in BOOLEAN : queued' = [queued EXCEPT ![p] = b]
  BY <1>1
<1>2. \/ \E p \in Procs, b \in BOOLEAN : queued' = [queued EXCEPT ![p] = b]
      \/ queued' = queued
  BY DEF Next, vars, viewVars, SeeIngresses, SeeEndpoints, SyncStep, StartSync, syncIngress,
         OnUpdate, CrashProcess, StartProcess, PollStep, StartPoll, PollClean, PollGivesUp, EndRead,
         OnStartedLeading, OnStoppedLeading, Pass, ExpireEntry, Arrive, FlushResponse, RequestStep,
         CookieFound, CookieGone, CookieFails, LoadProxy, StoreProxy, ReloadProxy, ServeOnly,
         ServeNewSession, ServeRotatedSession, Register, ChangeIngresses, ChangeEndpoints
<1>. QED  BY <1>1, <1>2

(* In every interleaving of the handlers, sync loops, leaders and crashes  *)
(* the types hold: among them, that mutx is held by a pass under way only, *)
(* and that ServeHTTP is only called on a proxy that was found, though the *)
(* proxies are stored and loaded without a lock.                           *)
THEOREM StickyTypes == Spec => []TypeOK
<1>1. Init => StickyInv /\ IssuedInv /\ ProxyInv /\ OtherTypes /\ QueuedType
  <2>1. Init => IssuedInv /\ OtherTypes /\ QueuedType
    BY HostsAssumption DEF Init, RedisInit, IssuedInv, OtherTypes, QueuedType
  <2>2. Init => ProxyInv
    BY DEF Init, ProxyInv
  <2>. QED  BY <2>1, <2>2, InitStickyInv
<1>2. ASSUME StickyInv, IssuedInv, ProxyInv, OtherTypes, QueuedType, RedisTypeOK PROVE TypeOK
  <2>1. /\ ings \in Seq(SUBSET Hosts) /\ eps \in Seq([Hosts -> AddrSets])
        /\ ingView \in [Procs -> 1 .. Len(ings)] /\ epView \in [Procs -> 1 .. Len(eps)]
        /\ reading \in [Threads -> Readings \cup {None}]
        /\ \A t \in Threads : reading[t] # None => reading[t].from <= epView[t[1]]
        /\ plan \in [Procs -> Configs \cup {None}] /\ config \in [Procs -> Configs]
    BY <1>2 DEF StickyInv, ViewTypes
  <2>2. /\ issued \subseteq Cookies /\ known \subseteq issued /\ added \subseteq issued
        /\ rpc \in [Requests -> RequestStates] /\ rproc \in [Requests -> Procs \cup {None}]
        /\ rhost \in [Requests -> Hosts \cup {None}] /\ raddr \in [Requests -> Values]
        /\ rcookie \in [Requests -> Cookies \cup {None}]
    BY <1>2 DEF StickyInv, RequestInv, IssuedInv, OtherTypes
  <2>3. Ports \cup {None} = {PortOf[h] : h \in Hosts} \cup {WLSPort, None}
    BY DEF Ports
  <2>4. /\ proxyMap \in [Procs -> [Addrs -> {PortOf[h] : h \in Hosts} \cup {WLSPort, None}]]
        /\ rport \in [Requests -> {PortOf[h] : h \in Hosts} \cup {WLSPort, None}]
        /\ \A r \in Requests : rpc[r] = "serve" => rport[r] # None
    BY <1>2, <2>3 DEF ProxyInv
  <2>5. /\ leader \in [Procs -> BOOLEAN] /\ terms \in 0 .. MaxTerms
        /\ requests \in 0 .. MaxRequests
    BY <1>2 DEF OtherTypes
  <2>. QED  BY <1>2, <2>1, <2>2, <2>4, <2>5 DEF QueuedType, TypeOK
<1>. QED
  BY <1>1, <1>2, NextStickyInv, NextIssuedInv, NextProxyInv, NextOtherTypes, NextQueued,
     ImplementsRedis, RedisTypeCorrect, PTL DEF Spec
=============================================================================
