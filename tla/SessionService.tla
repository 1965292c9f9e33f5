--------------------------- MODULE SessionService ---------------------------
(***************************************************************************)
(* What the controllers promise together about sticky sessions: a session  *)
(* that an upstream makes up may be stored; while it is, requests with its *)
(* cookie are routed to that upstream; it may be lost at any time, and a   *)
(* session that is lost stays lost.  There is no word about processes,     *)
(* redis, leaders, configurations or proxies.                              *)
(***************************************************************************)
CONSTANTS Cookies, Addrs, Requests,
          Issuer,   \* the upstream of each session
          None

VARIABLES life,    \* of each session
          route    \* where a request with a session is sent, None before and after

vars == <<life, route>>

Lives == {"new", "issued", "stored", "gone"}

(* Sessions of an earlier deployment may be stored already. *)
Init == /\ life \in [Cookies -> {"new", "stored"}]
        /\ route = [r \in Requests |-> None]

Issue(c) ==
  /\ life[c] = "new"
  /\ life' = [life EXCEPT ![c] = "issued"]
  /\ UNCHANGED route

Store(c) ==
  /\ life[c] = "issued"
  /\ life' = [life EXCEPT ![c] = "stored"]
  /\ UNCHANGED route

(* A request with a stored session goes to the upstream that made it up.   *)
Send(r, c) ==
  /\ life[c] = "stored" /\ route[r] = None
  /\ route' = [route EXCEPT ![r] = Issuer[c]]
  /\ UNCHANGED life

(* Sessions are lost and requests end, several at once when a process dies.*)
Lose ==
  /\ life' \in [Cookies -> Lives] /\ route' \in [Requests -> Addrs \cup {None}]
  /\ \A c \in Cookies : life'[c] \in {life[c], "gone"}
  /\ \A r \in Requests : route'[r] \in {route[r], None}

Next ==
  \/ Lose
  \/ \E c \in Cookies : Issue(c) \/ Store(c) \/ \E r \in Requests : Send(r, c)

Spec == Init /\ [][Next]_vars
=============================================================================
