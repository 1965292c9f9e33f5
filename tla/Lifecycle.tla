----------------------------- MODULE Lifecycle -----------------------------
(***************************************************************************)
(* Start and Stop of the controller (wls.go) and handleSigterm (main.go),  *)
(* which share the redis client, the listener and two channels without a   *)
(* lock, while the HTTP server answers requests that need redis.           *)
(***************************************************************************)
EXTENDS Integers

CONSTANTS Requests,
          MaxRequests,   \* bound: requests
          StopEarly      \* bound: whether SIGTERM may arrive while Start is under way

ASSUME LifecycleAssumption == MaxRequests \in Nat /\ StopEarly \in BOOLEAN

VARIABLES
  start,           \* how far Start has come
  http,            \* how far the goroutine of the HTTP server has come
  stop,            \* how far handleSigterm and Stop have come
  caches,          \* the informers' caches are synced
  client,          \* redisManager.client: "nil", "open" or "closed"
  httpListener,    \* "nil", "made", "serving" or "shutdown"
  idleConnsClosed, \* "nil", "open" or "closed"
  stopCh,          \* whether stopCh is closed
  isShuttingDown,
  req,             \* the requests
  count,
  panicked         \* a nil pointer was followed, or a nil channel closed

vars == <<start, http, stop, caches, client, httpListener, idleConnsClosed, stopCh,
          isShuttingDown, req, count, panicked>>

startVars == <<start, http, caches>>
shared == <<client, httpListener, idleConnsClosed, stopCh, isShuttingDown>>
requestVars == <<req, count>>

Running == ~panicked /\ stop # "exited"
InFlight == {r \in Requests : req[r] \in {"accepted", "found"}}

Init ==
  /\ start = "store" /\ http = "none" /\ stop = "none" /\ caches = FALSE
  /\ client = "nil" /\ httpListener = "nil" /\ idleConnsClosed = "nil"
  /\ stopCh = FALSE /\ isShuttingDown = FALSE
  /\ req = [r \in Requests |-> "none"] /\ count = 0
  /\ panicked = FALSE

---------------------------------------------------------------------------
(* Start.  The queue is running and the initial sync is in it. *)

CachesSync ==
  /\ Running /\ ~caches
  /\ caches' = TRUE
  /\ UNCHANGED <<start, http, stop, shared, requestVars, panicked>>

(* Mutant of StoreRun: redis is not started. *)
StoreRunNoRedis ==
  /\ Running /\ start = "store" /\ (caches \/ stopCh)
  /\ start' = "http"
  /\ UNCHANGED <<http, stop, caches, shared, requestVars, panicked>>

(* store.Run returns when the caches are synced, or when stopCh is closed. *)
StoreRun ==
  /\ Running /\ start = "store" /\ (caches \/ stopCh)
  /\ start' = "redis"
  /\ UNCHANGED <<http, stop, caches, shared, requestVars, panicked>>

(* redisManager.Start *)
StartRedis ==
  /\ Running /\ start = "redis"
  /\ client' = "open"
  /\ start' = "http"
  /\ UNCHANGED <<http, stop, caches, httpListener, idleConnsClosed, stopCh, isShuttingDown,
                 requestVars, panicked>>

(* The election is set up and the goroutine of the server started; then    *)
(* Start stays in the event loop, stopped or not.                          *)
StartHTTP ==
  /\ Running /\ start = "http"
  /\ start' = "loop" /\ http' = "channel"
  /\ UNCHANGED <<stop, caches, shared, requestVars, panicked>>

MakeChannel ==
  /\ Running /\ http = "channel"
  /\ idleConnsClosed' = "open"
  /\ http' = "listener"
  /\ UNCHANGED <<start, stop, caches, client, httpListener, stopCh, isShuttingDown, requestVars,
                 panicked>>

MakeListener ==
  /\ Running /\ http = "listener"
  /\ httpListener' = "made"
  /\ http' = "listen"
  /\ UNCHANGED <<start, stop, caches, client, idleConnsClosed, stopCh, isShuttingDown, requestVars,
                 panicked>>

(* ListenAndServe; after Shutdown it returns at once. *)
ListenAndServe ==
  /\ Running /\ http = "listen"
  /\ http' = IF httpListener = "shutdown" THEN "wait" ELSE "serving"
  /\ httpListener' = IF httpListener = "shutdown" THEN "shutdown" ELSE "serving"
  /\ UNCHANGED <<start, stop, caches, client, idleConnsClosed, stopCh, isShuttingDown, requestVars,
                 panicked>>

(* It returns ErrServerClosed as soon as Shutdown is called. *)
ServeReturns ==
  /\ Running /\ http = "serving" /\ httpListener = "shutdown"
  /\ http' = "wait"
  /\ UNCHANGED <<start, stop, caches, shared, requestVars, panicked>>

(* <-n.idleConnsClosed *)
ServerDone ==
  /\ Running /\ http = "wait" /\ idleConnsClosed = "closed"
  /\ http' = "done"
  /\ UNCHANGED <<start, stop, caches, shared, requestVars, panicked>>

---------------------------------------------------------------------------
(* A request with a session cookie. *)

Accept(r) ==
  /\ Running /\ httpListener = "serving" /\ req[r] = "none" /\ count < MaxRequests
  /\ req' = [req EXCEPT ![r] = "accepted"]
  /\ count' = count + 1
  /\ UNCHANGED <<startVars, stop, shared, panicked>>

(* The lookup in redis: 500 if the client is closed. *)
Lookup(r) ==
  /\ Running /\ req[r] = "accepted"
  /\ req' = [req EXCEPT ![r] = IF client = "open" THEN "found" ELSE "failed"]
  /\ UNCHANGED <<startVars, stop, shared, count, panicked>>

Proxied(r) ==
  /\ Running /\ req[r] = "found"
  /\ req' = [req EXCEPT ![r] = "answered"]
  /\ UNCHANGED <<startVars, stop, shared, count, panicked>>

(* The goroutine is free for another request. *)
NextRequest(r) ==
  /\ Running /\ req[r] \in {"answered", "failed"}
  /\ req' = [req EXCEPT ![r] = "none"]
  /\ UNCHANGED <<startVars, stop, shared, count, panicked>>

---------------------------------------------------------------------------
(* handleSigterm and Stop. *)

Sigterm ==
  /\ Running /\ stop = "none"
  /\ StopEarly \/ httpListener # "nil"
  /\ isShuttingDown' = TRUE
  /\ stop' = "status"
  /\ UNCHANGED <<startVars, client, httpListener, idleConnsClosed, stopCh, requestVars, panicked>>

(* syncStatus.Shutdown (StatusSync), then close(n.stopCh). *)
CloseStopCh ==
  /\ Running /\ stop = "status"
  /\ stopCh' = TRUE
  /\ stop' = "redis"
  /\ UNCHANGED <<startVars, client, httpListener, idleConnsClosed, isShuttingDown, requestVars,
                 panicked>>

(* redisManager.Stop *)
StopRedis ==
  /\ Running /\ stop = "redis"
  /\ panicked' = (client = "nil")
  /\ client' = "closed"
  /\ stop' = "listener"
  /\ UNCHANGED <<startVars, httpListener, idleConnsClosed, stopCh, isShuttingDown, requestVars>>

(* httpListener.Shutdown: no request is accepted from here on. *)
ShutdownListener ==
  /\ Running /\ stop = "listener"
  /\ panicked' = (httpListener = "nil")
  /\ httpListener' = "shutdown"
  /\ stop' = "drain"
  /\ UNCHANGED <<startVars, client, idleConnsClosed, stopCh, isShuttingDown, requestVars>>

(* Mutant of ShutdownReturns: the requests in flight are not waited for. *)
ShutdownAtOnce ==
  /\ Running /\ stop = "drain"
  /\ stop' = "idle"
  /\ UNCHANGED <<startVars, shared, requestVars, panicked>>

(* Mutant of ShutdownReturns: the goroutine of the server is waited for. *)
ShutdownWaitsServer ==
  /\ Running /\ stop = "drain" /\ InFlight = {} /\ http = "done"
  /\ stop' = "idle"
  /\ UNCHANGED <<startVars, shared, requestVars, panicked>>

(* Shutdown with a background context waits for the requests in flight. *)
ShutdownReturns ==
  /\ Running /\ stop = "drain" /\ InFlight = {}
  /\ stop' = "idle"
  /\ UNCHANGED <<startVars, shared, requestVars, panicked>>

(* close(n.idleConnsClosed) *)
CloseIdle ==
  /\ Running /\ stop = "idle"
  /\ idleConnsClosed' = "closed"
  /\ stop' = "sleep"
  /\ UNCHANGED <<startVars, client, httpListener, stopCh, isShuttingDown, requestVars, panicked>>

(* After ten seconds, exit. *)
Exit ==
  /\ Running /\ stop = "sleep"
  /\ stop' = "exited"
  /\ UNCHANGED <<startVars, shared, requestVars, panicked>>

---------------------------------------------------------------------------
StartStep == StoreRun \/ StartRedis \/ StartHTTP
ServerStep == MakeChannel \/ MakeListener \/ ListenAndServe \/ ServeReturns \/ ServerDone
RequestStep(r) == Lookup(r) \/ Proxied(r) \/ NextRequest(r)
StopStep == CloseStopCh \/ StopRedis \/ ShutdownListener \/ ShutdownReturns \/ CloseIdle \/ Exit

Next ==
  \/ CachesSync \/ StartStep \/ ServerStep
  \/ \E r \in Requests : Accept(r) \/ RequestStep(r)
  \/ Sigterm \/ StopStep

Spec == Init /\ [][Next]_vars

(* Goroutines run and the server's timeouts end every request.  Neither    *)
(* SIGTERM nor synced caches are taken for granted.                        *)
FairSpec ==
  /\ Spec
  /\ WF_vars(StartStep) /\ WF_vars(ServerStep) /\ WF_vars(StopStep)
  /\ \A r \in Requests : WF_vars(RequestStep(r))

---------------------------------------------------------------------------
(* The types, and what is made before what. *)
TypeOK ==
  /\ start \in {"store", "redis", "http", "loop"}
  /\ http \in {"none", "channel", "listener", "listen", "serving", "wait", "done"}
  /\ stop \in {"none", "status", "redis", "listener", "drain", "idle", "sleep", "exited"}
  /\ client \in {"nil", "open", "closed"}
  /\ httpListener \in {"nil", "made", "serving", "shutdown"}
  /\ idleConnsClosed \in {"nil", "open", "closed"}
  /\ {caches, stopCh, isShuttingDown, panicked} \subseteq BOOLEAN
  /\ req \in [Requests -> {"none", "accepted", "found", "answered", "failed"}]
  /\ count \in 0 .. MaxRequests
  /\ httpListener # "nil" /\ ~panicked => idleConnsClosed # "nil" /\ client # "nil"

(* No request is cut off: when the process ends after SIGTERM every request*)
(* that was accepted has had its answer, and none is accepted while Stop   *)
(* waits for them (wls.go:250-254, main.go:138-147).                       *)
NoRequestCutOff == stop \in {"idle", "sleep", "exited"} => InFlight = {}

---------------------------------------------------------------------------
(* "Stop gracefully stops the WLS HTTP proxy." (wls.go:234): a SIGTERM     *)
(* that arrives while Start is under way is handled without a panic.       *)
StopWithoutPanic == ~panicked

(* The same sentence: no request that was accepted fails because of Stop.  *)
NoRequestFailedByStop == \A r \in Requests : req[r] # "failed"
=============================================================================
