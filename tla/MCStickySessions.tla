-------------------------- MODULE MCStickySessions --------------------------
(* StickySessions for TLC: the first address has two session ids, so that  *)
(* it may replace one, and the other has one.                              *)
EXTENDS StickySessions, TLC

CONSTANTS c1, c2, c3, a1, a2, h1, OtherPort

MCIssuer == [c \in Cookies |-> IF c = c2 THEN a2 ELSE a1]
FirstIssues == [c \in Cookies |-> a1]
FirstAddr == [h \in Hosts |-> {a1}]
SamePort == [h \in Hosts |-> WLSPort]
HasOtherPort == [h \in Hosts |-> OtherPort]

(* Two hosts, the first with both addresses: the first address moves to    *)
(* the second host and the Endpoints of the first are removed.             *)
BothAddrs == [h \in Hosts |-> IF h = h1 THEN {a1, a2} ELSE {}]
Moves == [h \in Hosts |-> IF h = h1 THEN {None} ELSE {{a1}}]

(* One host: its address is replaced, or its Endpoints are removed. *)
Replaced == [h \in Hosts |-> {{a2}, None}]

(* The processes are interchangeable, and so are the requests. *)
Symmetry == Permutations(Procs) \cup Permutations(Requests)
=============================================================================
