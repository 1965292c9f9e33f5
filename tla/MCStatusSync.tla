---------------------------- MODULE MCStatusSync ----------------------------
(* StatusSync for TLC: pods on nodes of their own, or all on one node.     *)
EXTENDS StatusSync

CONSTANTS n1

OwnNode == [p \in Pods |-> p]
OneNode == [p \in Pods |-> n1]
=============================================================================
