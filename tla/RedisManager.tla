--------------------------- MODULE RedisManager ---------------------------
(***************************************************************************)
(* internal/redis/redis.go: the shared table from session cookies to       *)
(* upstream addresses, kept in redis and used by several controller        *)
(* processes at once.  Every redis command is one atomic step; Clean and   *)
(* RemoveEndpoint are the sequences of commands the code issues, so the    *)
(* passes of several goroutines and processes interleave with each other,  *)
(* with AddCookie and with the expiry of entries.                          *)
(***************************************************************************)
EXTENDS Naturals, FiniteSets

CONSTANTS Procs,        \* controller processes
          Callers,      \* goroutines of a process that call Clean
          Cookies,      \* session ids
          Addrs,        \* upstream addresses
          Issuer,       \* Issuer[c]: the upstream that makes up session id c
          Earlier,      \* sessions registered by processes that ran before these
          None,         \* "", a key that redis does not hold
          MaxErrors,    \* bound: failing redis commands
          MaxExpiries,  \* bound: entries that reach their TTL of an hour
          MaxCrashes    \* bound: processes that die

ASSUME IssuerAssumption == Issuer \in [Cookies -> Addrs]
ASSUME EarlierAssumption == Earlier \subseteq Cookies
ASSUME NoneAssumption == None \notin Addrs
ASSUME BoundsAssumption == MaxErrors \in Nat /\ MaxExpiries \in Nat /\ MaxCrashes \in Nat

Threads == Procs \X Callers
Values == Addrs \cup {None}

(* A key is a session id and how often the namespace was put before it. *)
Key == [ns : 0 .. 2, id : Cookies]

VARIABLES
  redis,     \* the table: Key -> Values
  client,    \* Manager.client of each process: nil, open or closed
  mutx,      \* whether Manager.mutx of each process is held
  cpc,       \* where each thread is in Clean or RemoveEndpoint
  clocked,   \* whether the thread holds mutx (Clean) or not (RemoveEndpoint)
  cdrop,     \* the values whose entries the pass removes
  ctodo,     \* keys returned by KEYS that were not read yet
  centries,  \* entryMap: key and value read
  csnap,     \* all the keys that KEYS returned (history)
  cfailed,   \* a command of the pass has failed (history)
  added,     \* session ids for which AddCookie was called
  errors, expiries, crashes

passVars == <<cpc, clocked, cdrop, ctodo, centries, csnap, cfailed>>
redisVars == <<redis, client, mutx, passVars, added, errors, expiries, crashes>>

(* Mutant of createNamespacedKey: it always puts the namespace in front.   *)
PrefixAlways(k) == [k EXCEPT !.ns = IF @ < 2 THEN @ + 1 ELSE @]

(* createNamespacedKey: the namespace is put in front of a key once; the   *)
(* keys KEYS returns carry it already.                                     *)
createNamespacedKey(k) == IF k.ns > 0 THEN k ELSE [k EXCEPT !.ns = 1]

Cookie(c) == [ns |-> 0, id |-> c]

(* The keys KEYS <namespace>:* returns. *)
NamespacedKeys == {k \in Key : k.ns > 0 /\ redis[k] # None}

(* The value GetEndpoint returns for a key when GET does not fail; a fresh *)
(* TTL of an hour, whose outcome is only logged, is all it may change.     *)
GetEndpoint(k) == redis[createNamespacedKey(k)]

---------------------------------------------------------------------------
(* The table outlives the processes: it may hold sessions already. *)
RedisInit ==
  /\ redis = [k \in Key |-> IF k.ns = 1 /\ k.id \in Earlier THEN Issuer[k.id] ELSE None]
  /\ client = [p \in Procs |-> "nil"]
  /\ mutx = [p \in Procs |-> FALSE]
  /\ cpc = [t \in Threads |-> "idle"]
  /\ clocked = [t \in Threads |-> FALSE]
  /\ cdrop = [t \in Threads |-> {}]
  /\ ctodo = [t \in Threads |-> {}]
  /\ centries = [t \in Threads |-> {}]
  /\ csnap = [t \in Threads |-> {}]
  /\ cfailed = [t \in Threads |-> FALSE]
  /\ added = Earlier
  /\ errors = 0 /\ expiries = 0 /\ crashes = 0

(* A command of process p succeeds, or fails: always after Stop, and now   *)
(* and then for reasons of its own.                                        *)
Succeeds(p) == client[p] = "open" /\ UNCHANGED errors
Fails(p) == \/ client[p] = "closed" /\ UNCHANGED errors
            \/ client[p] = "open" /\ errors < MaxErrors /\ errors' = errors + 1

Start(p) ==
  /\ client[p] = "nil"
  /\ client' = [client EXCEPT ![p] = "open"]
  /\ UNCHANGED <<redis, mutx, passVars, added, errors, expiries, crashes>>

Stop(p) ==
  /\ client[p] = "open"
  /\ client' = [client EXCEPT ![p] = "closed"]
  /\ UNCHANGED <<redis, mutx, passVars, added, errors, expiries, crashes>>

(* AddCookie: SET with a TTL of one hour.  Its error is only logged.       *)
AddCookieOk(p, c, endpoint) ==
  /\ Succeeds(p)
  /\ redis' = [redis EXCEPT ![createNamespacedKey(Cookie(c))] = endpoint]
  /\ added' = added \cup {c}
  /\ UNCHANGED <<client, mutx, passVars, expiries, crashes>>

AddCookieFails(p, c) ==
  /\ Fails(p)
  /\ added' = added \cup {c}
  /\ UNCHANGED <<redis, client, mutx, passVars, expiries, crashes>>

(* An upstream makes up a session id once, so that AddCookie is called     *)
(* once for it.                                                            *)
AddCookie(p, c, endpoint) ==
  /\ c \notin added
  /\ AddCookieOk(p, c, endpoint) \/ AddCookieFails(p, c)

(* The GET of a lookup by the handler, which changes nothing. *)
LookupOk(p) == Succeeds(p) /\ UNCHANGED <<redis, client, mutx, passVars, added, expiries,
                 crashes>>
LookupFails(p) == Fails(p) /\ UNCHANGED <<redis, client, mutx, passVars, added, expiries,
                 crashes>>

(* redis drops an entry whose TTL is over. *)
Expire(k) ==
  /\ redis[k] # None /\ expiries < MaxExpiries
  /\ expiries' = expiries + 1
  /\ redis' = [redis EXCEPT ![k] = None]
  /\ UNCHANGED <<client, mutx, passVars, added, errors, crashes>>

(* The process dies, wherever its goroutines are: they, the mutex and the  *)
(* client are gone, the table stays.                                       *)
Crash(p) ==
  LET lost(f, x) == [t \in Threads |-> IF t[1] = p THEN x ELSE f[t]] IN
  /\ client[p] # "nil" /\ crashes < MaxCrashes
  /\ crashes' = crashes + 1
  /\ client' = [client EXCEPT ![p] = "nil"]
  /\ mutx' = [mutx EXCEPT ![p] = FALSE]
  /\ cpc' = lost(cpc, "idle")
  /\ clocked' = lost(clocked, FALSE)
  /\ cdrop' = lost(cdrop, {})
  /\ ctodo' = lost(ctodo, {})
  /\ centries' = lost(centries, {})
  /\ csnap' = lost(csnap, {})
  /\ cfailed' = lost(cfailed, FALSE)
  /\ UNCHANGED <<redis, added, errors, expiries>>

---------------------------------------------------------------------------
(* Clean(endpoints) is called: everything but the listed addresses is to   *)
(* go, and so is an entry read as "".                                      *)
CallClean(t, endpoints) ==
  /\ cpc[t] = "idle" /\ client[t[1]] # "nil"
  /\ cdrop' = [cdrop EXCEPT ![t] = Values \ endpoints]
  /\ cpc' = [cpc EXCEPT ![t] = "lock"]
  /\ UNCHANGED <<redis, client, mutx, clocked, ctodo, centries, csnap, cfailed, added, errors,
                 expiries, crashes>>

(* mutx.Lock() *)
Lock(t) ==
  /\ cpc[t] = "lock" /\ ~mutx[t[1]]
  /\ mutx' = [mutx EXCEPT ![t[1]] = TRUE]
  /\ clocked' = [clocked EXCEPT ![t] = TRUE]
  /\ cpc' = [cpc EXCEPT ![t] = "keys"]
  /\ UNCHANGED <<redis, client, cdrop, ctodo, centries, csnap, cfailed, added, errors,
                 expiries, crashes>>

(* RemoveEndpoint(endpoint): the same pass for one address, without mutx.  *)
CallRemoveEndpoint(t, endpoint) ==
  /\ cpc[t] = "idle" /\ client[t[1]] # "nil"
  /\ cdrop' = [cdrop EXCEPT ![t] = {endpoint}]
  /\ cpc' = [cpc EXCEPT ![t] = "keys"]
  /\ UNCHANGED <<redis, client, mutx, clocked, ctodo, centries, csnap, cfailed, added, errors,
                 expiries, crashes>>

(* getAllEntries: the KEYS command. *)
KeysOk(t) ==
  /\ cpc[t] = "keys" /\ Succeeds(t[1])
  /\ ctodo' = [ctodo EXCEPT ![t] = NamespacedKeys]
  /\ csnap' = [csnap EXCEPT ![t] = NamespacedKeys]
  /\ cpc' = [cpc EXCEPT ![t] = "get"]
  /\ UNCHANGED <<redis, client, mutx, clocked, cdrop, centries, cfailed, added, expiries,
                 crashes>>

KeysFails(t) ==
  /\ cpc[t] = "keys" /\ Fails(t[1])
  /\ cfailed' = [cfailed EXCEPT ![t] = TRUE]
  /\ cpc' = [cpc EXCEPT ![t] = "return"]
  /\ UNCHANGED <<redis, client, mutx, clocked, cdrop, ctodo, centries, csnap, added,
                 expiries, crashes>>

(* getAllEntries: one GetEndpoint(cookie, false); an entry that cannot be  *)
(* read is left out of the map.                                            *)
GetOk(t, k) ==
  /\ cpc[t] = "get" /\ k \in ctodo[t] /\ Succeeds(t[1])
  /\ ctodo' = [ctodo EXCEPT ![t] = @ \ {k}]
  /\ centries' = [centries EXCEPT ![t] = @ \cup {[key |-> k, val |-> GetEndpoint(k)]}]
  /\ UNCHANGED <<redis, client, mutx, cpc, clocked, cdrop, csnap, cfailed, added,
                 expiries, crashes>>

GetFails(t, k) ==
  /\ cpc[t] = "get" /\ k \in ctodo[t] /\ Fails(t[1])
  /\ ctodo' = [ctodo EXCEPT ![t] = @ \ {k}]
  /\ cfailed' = [cfailed EXCEPT ![t] = TRUE]
  /\ UNCHANGED <<redis, client, mutx, cpc, clocked, cdrop, centries, csnap, added,
                 expiries, crashes>>

(* Mutant of Removable: the test of contains is turned round. *)
RemovableSwapped(t) == {e \in centries[t] : e.val \notin cdrop[t]}

(* The entries the loop of Clean or RemoveEndpoint does not skip. *)
Removable(t) == {e \in centries[t] : e.val \in cdrop[t]}

(* The map is complete: the loop over it starts. *)
StartRemoving(t) ==
  /\ cpc[t] = "get" /\ ctodo[t] = {}
  /\ centries' = [centries EXCEPT ![t] = Removable(t)]
  /\ cpc' = [cpc EXCEPT ![t] = "del"]
  /\ UNCHANGED <<redis, client, mutx, clocked, cdrop, ctodo, csnap, cfailed, added, errors,
                 expiries, crashes>>

DelOk(t, e) ==
  /\ cpc[t] = "del" /\ e \in centries[t] /\ Succeeds(t[1])
  /\ redis' = [redis EXCEPT ![e.key] = None]
  /\ centries' = [centries EXCEPT ![t] = @ \ {e}]
  /\ UNCHANGED <<client, mutx, cpc, clocked, cdrop, ctodo, csnap, cfailed, added,
                 expiries, crashes>>

(* The failure of one DEL is logged and the loop goes on. *)
DelFails(t, e) ==
  /\ cpc[t] = "del" /\ e \in centries[t] /\ Fails(t[1])
  /\ centries' = [centries EXCEPT ![t] = @ \ {e}]
  /\ cfailed' = [cfailed EXCEPT ![t] = TRUE]
  /\ UNCHANGED <<redis, client, mutx, cpc, clocked, cdrop, ctodo, csnap, added, expiries,
                 crashes>>

PassDone(t) == \/ cpc[t] = "return"
               \/ cpc[t] = "del" /\ centries[t] = {}

(* Mutant of Return: only the end of the loop unlocks, not the early return *)
ReturnLocked(t) ==
  /\ PassDone(t)
  /\ mutx' = IF clocked[t] /\ cpc[t] = "del" THEN [mutx EXCEPT ![t[1]] = FALSE] ELSE mutx
  /\ clocked' = [clocked EXCEPT ![t] = FALSE]
  /\ cdrop' = [cdrop EXCEPT ![t] = {}]
  /\ csnap' = [csnap EXCEPT ![t] = {}]
  /\ cfailed' = [cfailed EXCEPT ![t] = FALSE]
  /\ cpc' = [cpc EXCEPT ![t] = "idle"]
  /\ UNCHANGED <<redis, client, ctodo, centries, added, errors, expiries, crashes>>

(* The call returns, after an error of KEYS or at the end of the loop; the *)
(* deferred Unlock runs in both cases.                                     *)
Return(t) ==
  /\ PassDone(t)
  /\ mutx' = IF clocked[t] THEN [mutx EXCEPT ![t[1]] = FALSE] ELSE mutx
  /\ clocked' = [clocked EXCEPT ![t] = FALSE]
  /\ cdrop' = [cdrop EXCEPT ![t] = {}]
  /\ csnap' = [csnap EXCEPT ![t] = {}]
  /\ cfailed' = [cfailed EXCEPT ![t] = FALSE]
  /\ cpc' = [cpc EXCEPT ![t] = "idle"]
  /\ UNCHANGED <<redis, client, ctodo, centries, added, errors, expiries, crashes>>

---------------------------------------------------------------------------
(* What a thread does inside a pass, the wait for the mutex apart. *)
PassStep(t) ==
  \/ KeysOk(t) \/ KeysFails(t)
  \/ \E k \in ctodo[t] : GetOk(t, k) \/ GetFails(t, k)
  \/ StartRemoving(t)
  \/ \E e \in centries[t] : DelOk(t, e) \/ DelFails(t, e)
  \/ Return(t)

RedisNext ==
  \/ \E p \in Procs : Start(p) \/ Stop(p) \/ Crash(p) \/ LookupOk(p) \/ LookupFails(p)
  \/ \E p \in Procs, c \in Cookies : AddCookie(p, c, Issuer[c])
  \/ \E k \in Key : Expire(k)
  \/ \E t \in Threads, eps \in SUBSET Addrs : CallClean(t, eps)
  \/ \E t \in Threads, a \in Addrs : CallRemoveEndpoint(t, a)
  \/ \E t \in Threads : Lock(t) \/ PassStep(t)

RedisSpec == RedisInit /\ [][RedisNext]_redisVars

---------------------------------------------------------------------------
RedisTypes ==
  /\ redis \in [Key -> Values]
  /\ client \in [Procs -> {"nil", "open", "closed"}]
  /\ mutx \in [Procs -> BOOLEAN]
  /\ cpc \in [Threads -> {"idle", "lock", "keys", "get", "del", "return"}]
  /\ clocked \in [Threads -> BOOLEAN]
  /\ cdrop \in [Threads -> SUBSET Values]
  /\ ctodo \in [Threads -> SUBSET Key]
  /\ centries \in [Threads -> SUBSET [key : Key, val : Values]]
  /\ csnap \in [Threads -> SUBSET Key]
  /\ cfailed \in [Threads -> BOOLEAN]
  /\ added \subseteq Cookies
  /\ errors \in 0 .. MaxErrors /\ expiries \in 0 .. MaxExpiries /\ crashes \in 0 .. MaxCrashes

(* The types; mutx is held exactly while a pass that locked it runs, so    *)
(* that no path through Clean leaves it locked.                            *)
RedisTypeOK ==
  /\ RedisTypes
  /\ \A p \in Procs : mutx[p] <=> \E g \in Callers : clocked[<<p, g>>]

(* No pass, whatever it read and whatever ran since, removes an entry      *)
(* whose address was in the list given to Clean (redis.go:51-73): an entry *)
(* that disappears has expired or belongs to an address to be dropped.     *)
CleanSparesListed ==
  [][\A k \in Key :
       redis[k] # None /\ redis'[k] = None
         => \/ Expire(k)
            \/ \E t \in Threads : cpc[t] = "del" /\ redis[k] \in cdrop[t]]_redisVars

(* A pass none of whose commands failed leaves no entry of a dropped       *)
(* address among the keys it was given by KEYS (redis.go:61-72), although  *)
(* keys and values are read one by one while others write.                 *)
CleanComplete ==
  [][\A t \in Threads :
       Return(t) /\ ~cfailed[t]
         => \A k \in csnap[t] : redis[k] = None \/ redis[k] \notin cdrop[t]]_redisVars

(* Every call of Clean returns, failures of redis included: the mutex is   *)
(* released on every path (redis.go:53-54).                                *)
CleanReturns == \A t \in Threads : []<>(cpc[t] = "idle")
=============================================================================
