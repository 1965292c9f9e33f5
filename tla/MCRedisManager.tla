-------------------------- MODULE MCRedisManager --------------------------
(* RedisManager for TLC: each address has issued one of the session ids. *)
EXTENDS RedisManager, TLC

CONSTANTS c1, c2, a1, a2

MCIssuer == (c1 :> a1) @@ (c2 :> a2)
=============================================================================
