------------------------- MODULE RedisManagerProofs -------------------------
(***************************************************************************)
(* What TLAPS proves of RedisManager, for any number of processes, callers,*)
(* sessions and addresses and any number of failures and expiries.         *)
(***************************************************************************)
EXTENDS RedisManager, TLAPS

(* What is known of the table: an entry has the namespace once, belongs to *)
(* a session that was added, and holds the upstream that made it up.       *)
TableInv ==
  \A k \in Key : redis[k] # None => /\ k.ns = 1 /\ k.id \in added
                                    /\ redis[k] = Issuer[k.id]

(* What is known of a pass: its keys are of sessions added before; a value *)
(* it read is still that of the entry, unless the entry is gone (it does   *)
(* not come back); what it is going to delete has a dropped value.         *)
PassInv ==
  \A t \in Threads :
    /\ \A k \in ctodo[t] : k.ns > 0 /\ k.id \in added
    /\ \A k \in csnap[t] : k.id \in added
    /\ \A e \in centries[t] : /\ e.key.id \in added
                              /\ e.val = redis[e.key] \/ redis[e.key] = None
    /\ cpc[t] = "del" => \A e \in centries[t] : e.val \in cdrop[t]

(* Whom a pass without failures still has to deal with. *)
SnapInv ==
  \A t \in Threads :
    /\ cpc[t] = "return" => cfailed[t]
    /\ ~cfailed[t] =>
         \A k \in csnap[t] :
           /\ cpc[t] = "get" => k \in ctodo[t] \/ \E e \in centries[t] : e.key = k
           /\ cpc[t] = "del" => \/ redis[k] = None \/ redis[k] \notin cdrop[t]
                                \/ \E e \in centries[t] : e.key = k

RedisInv == RedisTypes /\ TableInv /\ PassInv

(* A key of KEYS already has the namespace. *)
LEMMA NamespaceOnce ==
  /\ \A k \in Key : createNamespacedKey(k) \in Key
  /\ \A k \in Key : k.ns > 0 => createNamespacedKey(k) = k
  /\ \A c \in Cookies : /\ createNamespacedKey(Cookie(c)) \in Key
                        /\ createNamespacedKey(Cookie(c)).ns = 1
                        /\ createNamespacedKey(Cookie(c)).id = c
<1>1. \A k \in Key : k.ns > 0 => createNamespacedKey(k) = k
  BY DEF createNamespacedKey
<1>2. ASSUME NEW c \in Cookies
      PROVE  createNamespacedKey(Cookie(c)) = [ns |-> 1, id |-> c]
  BY DEF createNamespacedKey, Cookie
<1>3. \A k \in Key : createNamespacedKey(k) \in Key
  BY DEF createNamespacedKey, Key
<1>. QED  BY <1>1, <1>2, <1>3 DEF Key

(* The initial state satisfies RedisInv. *)
LEMMA InitRedisInv == RedisInit => RedisInv /\ SnapInv
<1>. SUFFICES ASSUME RedisInit PROVE RedisInv /\ SnapInv
  OBVIOUS
<1>1. RedisTypes
  <2>1. \A k \in Key : k.id \in Earlier => Issuer[k.id] \in Values
    BY IssuerAssumption, EarlierAssumption DEF Values
  <2>2. redis \in [Key -> Values]
    BY <2>1 DEF RedisInit, Values
  <2>. QED  BY <2>2, BoundsAssumption, EarlierAssumption DEF RedisInit, RedisTypes, Values
<1>2. TableInv
  BY DEF RedisInit, TableInv
<1>. QED  BY <1>1, <1>2 DEF RedisInit, RedisInv, PassInv, SnapInv

(* Every step keeps the types. *)
LEMMA NextRedisTypes == RedisTypes /\ [RedisNext]_redisVars => RedisTypes'
<1>. SUFFICES ASSUME RedisTypes, [RedisNext]_redisVars PROVE RedisTypes'
  OBVIOUS
<1>. USE BoundsAssumption DEF RedisTypes, passVars
<1>0. ASSUME NEW p \in Procs, Fails(p) PROVE errors' \in 0 .. MaxErrors
  BY <1>0 DEF Fails
<1>1. ASSUME NEW p \in Procs, Start(p) \/ Stop(p) PROVE RedisTypes'
  BY <1>1 DEF Start, Stop
<1>2. ASSUME NEW p \in Procs, LookupOk(p) \/ LookupFails(p) PROVE RedisTypes'
  BY <1>0, <1>2 DEF LookupOk, LookupFails, Succeeds
<1>3. ASSUME NEW p \in Procs, NEW c \in Cookies, AddCookie(p, c, Issuer[c]) PROVE RedisTypes'
  <2>1. Issuer[c] \in Values
    BY IssuerAssumption DEF Values
  <2>2. CASE AddCookieOk(p, c, Issuer[c])
    BY <2>1, <2>2, NamespaceOnce DEF AddCookieOk, Succeeds
  <2>3. CASE AddCookieFails(p, c)
    BY <1>0, <2>3 DEF AddCookieFails
  <2>. QED  BY <1>3, <2>2, <2>3 DEF AddCookie
<1>4. ASSUME NEW k \in Key, Expire(k) PROVE RedisTypes'
  BY <1>4 DEF Expire, Values
<1>5. ASSUME NEW t \in Threads, NEW as \in SUBSET Addrs, CallClean(t, as) PROVE RedisTypes'
  BY <1>5 DEF CallClean, Values
<1>6. ASSUME NEW t \in Threads, NEW a \in Addrs, CallRemoveEndpoint(t, a) PROVE RedisTypes'
  BY <1>6 DEF CallRemoveEndpoint, Values
<1>7. ASSUME NEW t \in Threads, Lock(t) \/ PassStep(t) PROVE RedisTypes'
  <2>. t[1] \in Procs
    BY DEF Threads
  <2>1. CASE Lock(t)
    BY <2>1 DEF Lock
  <2>2. CASE KeysOk(t)
    BY <2>2 DEF KeysOk, Succeeds, NamespacedKeys
  <2>3. CASE KeysFails(t)
    BY <1>0, <2>3 DEF KeysFails
  <2>4. ASSUME NEW k \in Key, GetOk(t, k) PROVE RedisTypes'
    <3>1. GetEndpoint(k) \in Values
      BY NamespaceOnce DEF GetEndpoint
    <3>2. [key |-> k, val |-> GetEndpoint(k)] \in [key : Key, val : Values]
      BY <3>1
    <3>. QED  BY <2>4, <3>2 DEF GetOk, Succeeds
  <2>5. ASSUME NEW k \in Key, GetFails(t, k) PROVE RedisTypes'
    BY <1>0, <2>5 DEF GetFails
  <2>6. CASE StartRemoving(t)
    BY <2>6 DEF StartRemoving, Removable
  <2>7. ASSUME NEW e \in centries[t], DelOk(t, e) PROVE RedisTypes'
    BY <2>7 DEF DelOk, Succeeds, Values
  <2>8. ASSUME NEW e \in centries[t], DelFails(t, e) PROVE RedisTypes'
    BY <1>0, <2>8 DEF DelFails
  <2>9. CASE Return(t)
    BY <2>9 DEF Return
  <2>. QED  BY <1>7, <2>1, <2>2, <2>3, <2>4, <2>5, <2>6, <2>7, <2>8, <2>9 DEF PassStep
<1>8. ASSUME NEW p \in Procs, Crash(p) PROVE RedisTypes'
  <2>1. cpc' \in [Threads -> {"idle", "lock", "keys", "get", "del", "return"}]
    BY <1>8 DEF Crash
  <2>2. clocked' \in [Threads -> BOOLEAN] /\ cfailed' \in [Threads -> BOOLEAN]
    BY <1>8 DEF Crash
  <2>3. cdrop' \in [Threads -> SUBSET Values]
    BY <1>8 DEF Crash
  <2>4. ctodo' \in [Threads -> SUBSET Key] /\ csnap' \in [Threads -> SUBSET Key]
    BY <1>8 DEF Crash
  <2>5. centries' \in [Threads -> SUBSET [key : Key, val : Values]]
    BY <1>8 DEF Crash
  <2>6. /\ client' \in [Procs -> {"nil", "open", "closed"}] /\ mutx' \in [Procs -> BOOLEAN]
        /\ crashes' \in 0 .. MaxCrashes
        /\ UNCHANGED <<redis, added, errors, expiries>>
    BY <1>8 DEF Crash
  <2>. QED  BY <2>1, <2>2, <2>3, <2>4, <2>5, <2>6
<1>9. CASE UNCHANGED redisVars
  BY <1>9 DEF redisVars
<1>. QED  BY <1>1, <1>2, <1>3, <1>4, <1>5, <1>6, <1>7, <1>8, <1>9 DEF RedisNext

(* Every step keeps TableInv. *)
LEMMA NextTableInv == RedisInv /\ [RedisNext]_redisVars => TableInv'
<1>. SUFFICES ASSUME RedisInv, [RedisNext]_redisVars PROVE TableInv'
  OBVIOUS
<1>. USE DEF RedisInv, RedisTypes, TableInv
<1>1. ASSUME NEW p \in Procs, NEW c \in Cookies, AddCookieOk(p, c, Issuer[c]) PROVE TableInv'
  BY <1>1, NamespaceOnce DEF AddCookieOk
<1>2. ASSUME NEW p \in Procs, NEW c \in Cookies, AddCookieFails(p, c) PROVE TableInv'
  BY <1>2 DEF AddCookieFails
<1>3. ASSUME NEW k \in Key, Expire(k) PROVE TableInv'
  BY <1>3 DEF Expire
<1>4. ASSUME NEW t \in Threads, NEW e \in centries[t], DelOk(t, e) PROVE TableInv'
  BY <1>4 DEF DelOk
<1>5. CASE UNCHANGED <<redis, added>>
  BY <1>5
<1>6. \/ UNCHANGED <<redis, added>>
      \/ \E p \in Procs, c \in Cookies : AddCookieOk(p, c, Issuer[c]) \/ AddCookieFails(p, c)
      \/ \E k \in Key : Expire(k)
      \/ \E t \in Threads : \E e \in centries[t] : DelOk(t, e)
  BY DEF RedisNext, redisVars, Start, Stop, Crash, LookupOk, LookupFails, AddCookie, CallClean,
         CallRemoveEndpoint, Lock, PassStep, KeysOk, KeysFails, GetOk, GetFails, StartRemoving,
         DelFails, Return
<1>. QED  BY <1>1, <1>2, <1>3, <1>4, <1>5, <1>6

(* What a step does to the table as its readers see it: an entry of a      *)
(* session added before stays as it is or goes, and no session is unadded. *)
LEMMA TableStep ==
  ASSUME RedisInv, [RedisNext]_redisVars
  PROVE  /\ added \subseteq added'
         /\ \A k \in Key : k.id \in added => redis'[k] \in {redis[k], None}
<1>. USE DEF RedisInv, RedisTypes
<1>1. ASSUME NEW p \in Procs, NEW c \in Cookies, AddCookie(p, c, Issuer[c])
      PROVE  /\ added \subseteq added'
             /\ \A k \in Key : k.id \in added => redis'[k] \in {redis[k], None}
  BY <1>1, NamespaceOnce DEF AddCookie, AddCookieOk, AddCookieFails
<1>2. ASSUME NEW k \in Key, redis' = [redis EXCEPT ![k] = None], added' = added
      PROVE  \A j \in Key : redis'[j] \in {redis[j], None}
  BY <1>2
<1>3. ASSUME NEW p \in Procs, Crash(p) PROVE UNCHANGED <<redis, added>>
  BY <1>3 DEF Crash
<1>4. \/ UNCHANGED <<redis, added>>
      \/ \E p \in Procs, c \in Cookies : AddCookie(p, c, Issuer[c])
      \/ \E k \in Key : redis' = [redis EXCEPT ![k] = None] /\ added' = added
  BY <1>3 DEF RedisNext, redisVars, Start, Stop, LookupOk, LookupFails, CallClean, Expire,
         CallRemoveEndpoint, Lock, PassStep, KeysOk, KeysFails, GetOk, GetFails, StartRemoving,
         DelOk, DelFails, Return
<1>. QED  BY <1>1, <1>2, <1>4

(* Every step keeps PassInv. *)
LEMMA NextPassInv == RedisInv /\ [RedisNext]_redisVars => PassInv'
<1>. SUFFICES ASSUME RedisInv, [RedisNext]_redisVars PROVE PassInv'
  OBVIOUS
<1>0. /\ added \subseteq added'
      /\ \A k \in Key : k.id \in added => redis'[k] \in {redis[k], None}
  BY TableStep
<1>. USE DEF RedisInv, RedisTypes, passVars
<1>1. CASE UNCHANGED <<cpc, cdrop, ctodo, centries, csnap>>
  BY <1>0, <1>1 DEF PassInv
<1>2. ASSUME NEW t \in Threads, NEW as \in SUBSET Addrs,
             CallClean(t, as) \/ \E a \in Addrs : CallRemoveEndpoint(t, a)
      PROVE  PassInv'
  BY <1>2 DEF PassInv, CallClean, CallRemoveEndpoint
<1>3. ASSUME NEW t \in Threads, Lock(t) \/ PassStep(t) PROVE PassInv'
  <2>1. CASE Lock(t)
    BY <2>1 DEF PassInv, Lock
  <2>2. CASE KeysOk(t)
    BY <2>2 DEF PassInv, TableInv, KeysOk, NamespacedKeys
  <2>3. CASE KeysFails(t)
    BY <2>3 DEF PassInv, KeysFails
  <2>4. ASSUME NEW k \in Key, GetOk(t, k) PROVE PassInv'
    <3>1. k.ns > 0 /\ k.id \in added
      BY <2>4 DEF PassInv, GetOk
    <3>2. GetEndpoint(k) = redis[k]
      BY <3>1, NamespaceOnce DEF GetEndpoint
    <3>. QED  BY <2>4, <3>1, <3>2 DEF PassInv, GetOk
  <2>5. ASSUME NEW k \in Key, GetFails(t, k) PROVE PassInv'
    BY <2>5 DEF PassInv, GetFails
  <2>6. CASE StartRemoving(t)
    BY <2>6 DEF PassInv, StartRemoving, Removable
  <2>7. ASSUME NEW e \in centries[t], DelOk(t, e) PROVE PassInv'
    BY <1>0, <2>7 DEF PassInv, DelOk
  <2>8. ASSUME NEW e \in centries[t], DelFails(t, e) PROVE PassInv'
    BY <2>8 DEF PassInv, DelFails
  <2>9. CASE Return(t)
    BY <2>9 DEF PassInv, Return
  <2>. QED  BY <1>3, <2>1, <2>2, <2>3, <2>4, <2>5, <2>6, <2>7, <2>8, <2>9 DEF PassStep
<1>4. ASSUME NEW p \in Procs, Crash(p) PROVE PassInv'
  BY <1>0, <1>4 DEF PassInv, Crash
<1>5. \/ UNCHANGED <<cpc, cdrop, ctodo, centries, csnap>>
      \/ \E p \in Procs : Crash(p)
      \/ \E t \in Threads, as \in SUBSET Addrs :
           CallClean(t, as) \/ \E a \in Addrs : CallRemoveEndpoint(t, a)
      \/ \E t \in Threads : Lock(t) \/ PassStep(t)
  BY DEF RedisNext, redisVars, Start, Stop, LookupOk, LookupFails, AddCookie, AddCookieOk,
         AddCookieFails, Expire
<1>. QED  BY <1>1, <1>2, <1>3, <1>4, <1>5

(* RedisInv is inductive. *)
LEMMA NextRedisInv == RedisInv /\ [RedisNext]_redisVars => RedisInv'
BY NextRedisTypes, NextTableInv, NextPassInv DEF RedisInv

(* An entry that a step removes has expired or had a dropped address. *)
LEMMA SparesListedStep ==
  ASSUME RedisInv, [RedisNext]_redisVars,
         NEW k \in Key, redis[k] # None, redis'[k] = None
  PROVE  \/ Expire(k)
         \/ \E t \in Threads : cpc[t] = "del" /\ redis[k] \in cdrop[t]
<1>. USE DEF RedisInv, RedisTypes
<1>1. ASSUME NEW p \in Procs, NEW c \in Cookies, AddCookie(p, c, Issuer[c]) PROVE FALSE
  <2>1. Issuer[c] # None
    BY IssuerAssumption, NoneAssumption
  <2>. QED  BY <1>1, <2>1, NamespaceOnce DEF AddCookie, AddCookieOk, AddCookieFails
<1>2. ASSUME NEW j \in Key, Expire(j) PROVE Expire(k)
  BY <1>2 DEF Expire
<1>3. ASSUME NEW t \in Threads, NEW e \in centries[t], DelOk(t, e)
      PROVE  cpc[t] = "del" /\ redis[k] \in cdrop[t]
  BY <1>3 DEF DelOk, PassInv
<1>4. \/ redis' = redis
      \/ \E p \in Procs, c \in Cookies : AddCookie(p, c, Issuer[c])
      \/ \E j \in Key : Expire(j)
      \/ \E t \in Threads : \E e \in centries[t] : DelOk(t, e)
  BY DEF RedisNext, redisVars, Start, Stop, Crash, LookupOk, LookupFails, CallClean,
         CallRemoveEndpoint, Lock, PassStep, KeysOk, KeysFails, GetOk, GetFails, StartRemoving,
         DelFails, Return
<1>. QED  BY <1>1, <1>2, <1>3, <1>4

(* Clean and RemoveEndpoint never remove an entry of an address that was   *)
(* to be kept, however their commands interleave with other processes.     *)
THEOREM SparesListed == RedisSpec => CleanSparesListed
<1>1. RedisInv /\ [RedisNext]_redisVars
        => [\A k \in Key :
              redis[k] # None /\ redis'[k] = None
                => \/ Expire(k)
                   \/ \E t \in Threads : cpc[t] = "del" /\ redis[k] \in cdrop[t]]_redisVars
  BY SparesListedStep
<1>. QED  BY <1>1, InitRedisInv, NextRedisInv, PTL DEF RedisSpec, CleanSparesListed

---------------------------------------------------------------------------
(* Every step keeps SnapInv. *)
LEMMA NextSnapInv == RedisInv /\ SnapInv /\ [RedisNext]_redisVars => SnapInv'
<1>. SUFFICES ASSUME RedisInv, SnapInv, [RedisNext]_redisVars PROVE SnapInv'
  OBVIOUS
<1>0. \A k \in Key : k.id \in added => redis'[k] \in {redis[k], None}
  BY TableStep
<1>. USE DEF RedisInv, RedisTypes, passVars
<1>1. CASE UNCHANGED passVars
  BY <1>0, <1>1 DEF SnapInv, PassInv
<1>2. ASSUME NEW t \in Threads, NEW as \in SUBSET Addrs,
             CallClean(t, as) \/ \E a \in Addrs : CallRemoveEndpoint(t, a)
      PROVE  SnapInv'
  <2>1. PICK s \in {"lock", "keys"} : cpc' = [cpc EXCEPT ![t] = s]
    BY <1>2 DEF CallClean, CallRemoveEndpoint
  <2>2. /\ UNCHANGED <<redis, ctodo, centries, csnap, cfailed>>
        /\ \A v \in Threads : v # t => cdrop'[v] = cdrop[v]
    BY <1>2 DEF CallClean, CallRemoveEndpoint
  <2>. QED  BY <2>1, <2>2 DEF SnapInv
<1>3. ASSUME NEW t \in Threads, Lock(t) \/ PassStep(t) PROVE SnapInv'
  <2>1. CASE Lock(t)
    BY <2>1 DEF SnapInv, Lock
  <2>2. CASE KeysOk(t)
    BY <2>2 DEF SnapInv, KeysOk
  <2>3. CASE KeysFails(t)
    BY <2>3 DEF SnapInv, KeysFails
  <2>4. ASSUME NEW k \in Key, GetOk(t, k) PROVE SnapInv'
    <3>1. [key |-> k, val |-> GetEndpoint(k)].key = k
      OBVIOUS
    <3>2. /\ ctodo' = [ctodo EXCEPT ![t] = @ \ {k}]
          /\ centries' = [centries EXCEPT ![t] = @ \cup {[key |-> k, val |-> GetEndpoint(k)]}]
          /\ UNCHANGED <<redis, cpc, cdrop, csnap, cfailed>>
          /\ cpc[t] = "get"
      BY <2>4 DEF GetOk
    <3>3. \A j \in Key : j \in ctodo[t] \/ (\E e \in centries[t] : e.key = j)
                         => j \in ctodo'[t] \/ (\E e \in centries'[t] : e.key = j)
      BY <3>1, <3>2
    <3>4. \A v \in Threads : v # t => ctodo'[v] = ctodo[v] /\ centries'[v] = centries[v]
      BY <3>2
    <3>. QED  BY <3>2, <3>3, <3>4 DEF SnapInv
  <2>5. ASSUME NEW k \in Key, GetFails(t, k) PROVE SnapInv'
    BY <2>5 DEF SnapInv, GetFails
  <2>6. CASE StartRemoving(t)
    <3>1. ASSUME NEW k \in csnap[t], ~cfailed[t], redis[k] # None, redis[k] \in cdrop[t]
          PROVE  \E e \in Removable(t) : e.key = k
      <4>1. PICK e \in centries[t] : e.key = k
        BY <2>6, <3>1 DEF SnapInv, StartRemoving
      <4>2. e.val = redis[k]
        BY <3>1, <4>1 DEF PassInv
      <4>. QED  BY <3>1, <4>1, <4>2 DEF Removable
    <3>. QED  BY <2>6, <3>1 DEF SnapInv, StartRemoving
  <2>7. ASSUME NEW e \in centries[t], DelOk(t, e) PROVE SnapInv'
    <3>1. redis'[e.key] = None
      BY <2>7 DEF DelOk
    <3>2. \A v \in Threads : \A k \in csnap[v] : redis'[k] \in {redis[k], None}
      BY <1>0 DEF PassInv
    <3>. QED  BY <2>7, <3>1, <3>2 DEF SnapInv, DelOk
  <2>8. ASSUME NEW e \in centries[t], DelFails(t, e) PROVE SnapInv'
    BY <2>8 DEF SnapInv, DelFails
  <2>9. CASE Return(t)
    BY <2>9 DEF SnapInv, Return
  <2>. QED  BY <1>3, <2>1, <2>2, <2>3, <2>4, <2>5, <2>6, <2>7, <2>8, <2>9 DEF PassStep
<1>4. ASSUME NEW p \in Procs, Crash(p) PROVE SnapInv'
  <2>1. /\ redis' = redis
        /\ \A t \in Threads : \/ cpc'[t] = "idle" /\ csnap'[t] = {}
                             \/ /\ cpc'[t] = cpc[t] /\ csnap'[t] = csnap[t]
                                /\ ctodo'[t] = ctodo[t] /\ centries'[t] = centries[t]
                                /\ cfailed'[t] = cfailed[t] /\ cdrop'[t] = cdrop[t]
    BY <1>4 DEF Crash
  <2>. QED  BY <2>1 DEF SnapInv
<1>5. \/ UNCHANGED passVars
      \/ \E p \in Procs : Crash(p)
      \/ \E t \in Threads, as \in SUBSET Addrs :
           CallClean(t, as) \/ \E a \in Addrs : CallRemoveEndpoint(t, a)
      \/ \E t \in Threads : Lock(t) \/ PassStep(t)
  BY DEF RedisNext, redisVars, Start, Stop, LookupOk, LookupFails, AddCookie, AddCookieOk,
         AddCookieFails, Expire
<1>. QED  BY <1>1, <1>2, <1>3, <1>4, <1>5

(* A pass whose commands all succeed removes every entry of a dropped      *)
(* address that it was told of.                                            *)
THEOREM PassComplete == RedisSpec => CleanComplete
<1>1. RedisInv /\ SnapInv /\ [RedisNext]_redisVars
        => [\A t \in Threads :
              Return(t) /\ ~cfailed[t]
                => \A k \in csnap[t] : redis[k] = None \/ redis[k] \notin cdrop[t]]_redisVars
  BY DEF SnapInv, Return, PassDone
<1>. QED  BY <1>1, InitRedisInv, NextRedisInv, NextSnapInv, PTL DEF RedisSpec, CleanComplete

---------------------------------------------------------------------------
(* mutx is held exactly by the pass that locked it, and by one at most. *)
MutexInv ==
  \A p \in Procs :
    /\ mutx[p] <=> \E g \in Callers : clocked[<<p, g>>]
    /\ \A g, h \in Callers : clocked[<<p, g>>] /\ clocked[<<p, h>>] => g = h

(* RedisTypeOK holds in every reachable state. *)
THEOREM RedisTypeCorrect == RedisSpec => []RedisTypeOK
<1>1. RedisInit => MutexInv
  BY DEF RedisInit, MutexInv, Threads
<1>2. RedisTypes /\ MutexInv /\ [RedisNext]_redisVars => MutexInv'
  <2>. SUFFICES ASSUME RedisTypes, MutexInv, [RedisNext]_redisVars PROVE MutexInv'
    OBVIOUS
  <2>1. ASSUME NEW p \in Procs, NEW g \in Callers, Lock(<<p, g>>) PROVE MutexInv'
    BY <2>1 DEF MutexInv, RedisTypes, Threads, Lock
  <2>2. ASSUME NEW p \in Procs, NEW g \in Callers, Return(<<p, g>>) PROVE MutexInv'
    BY <2>2 DEF MutexInv, RedisTypes, Threads, Return
  <2>3. CASE UNCHANGED <<mutx, clocked>>
    BY <2>3 DEF MutexInv
  <2>4. ASSUME NEW p \in Procs, Crash(p) PROVE MutexInv'
    BY <2>4 DEF MutexInv, RedisTypes, Threads, Crash
  <2>5. \/ UNCHANGED <<mutx, clocked>>
        \/ \E p \in Procs : Crash(p)
        \/ \E p \in Procs, g \in Callers : Lock(<<p, g>>) \/ Return(<<p, g>>)
    BY DEF Threads, RedisNext, redisVars, passVars, Start, Stop, LookupOk, LookupFails, AddCookie,
           AddCookieOk, AddCookieFails, Expire, CallClean, CallRemoveEndpoint, PassStep, KeysOk,
           KeysFails, GetOk, GetFails, StartRemoving, DelOk, DelFails
  <2>. QED  BY <2>1, <2>2, <2>3, <2>4, <2>5
<1>3. RedisInv /\ MutexInv => RedisTypeOK
  BY DEF RedisInv, MutexInv, RedisTypeOK
<1>4. RedisInv => RedisTypes
  BY DEF RedisInv
<1>. QED  BY <1>1, <1>2, <1>3, <1>4, InitRedisInv, NextRedisInv, PTL DEF RedisSpec
=============================================================================
