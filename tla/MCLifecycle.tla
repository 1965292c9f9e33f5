---------------------------- MODULE MCLifecycle ----------------------------
(* Process, and with it Lifecycle, for TLC: pods with a usable             *)
(* configuration, and one for each way that main refuses one.              *)
EXTENDS Process

Good == [version |-> FALSE, kubeConfig |-> TRUE, namespace |-> FALSE, podEnv |-> TRUE,
         httpPort |-> ProxyPort]

MCFlags == {Good,
            [Good EXCEPT !.namespace = TRUE],
            [Good EXCEPT !.version = TRUE],
            [Good EXCEPT !.kubeConfig = FALSE],
            [Good EXCEPT !.podEnv = FALSE]}

GoodFlags == {Good}

(* --http-port differs from the port Start listens on. *)
OtherPortFlags == {[Good EXCEPT !.httpPort = 9090]}
=============================================================================
