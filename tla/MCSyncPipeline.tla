--------------------------- MODULE MCSyncPipeline ---------------------------
(* SyncPipeline for TLC: the Service has its Endpoints, the ingress exists *)
(* with or without its class or is created later.                          *)
EXTENDS SyncPipeline, TLC

CONSTANTS v1, v2

Ing(annotations, rules) == [annotations |-> annotations, rules |-> rules]
Other == IngressKey :> Text("other")
Timeout(c) == WithPrefix("proxy-read-timeout") :> c
Size(c) == WithPrefix("proxy-body-size") :> c

(* No annotation; a blank class, a timeout that is no number and a size    *)
(* with blanks; another class, and a timeout for another controller; the   *)
(* same with a timeout that counts and a size that is blank.               *)
Bare == Ing(<<>>, <<<<"">>>>)
Blank == Ing(IngressKey :> Text("") @@ Timeout(<<Padded("60")>>) @@ Size(<<Padded("5m")>>),
             <<<<"/a", "">>, <<>>>>)
Foreign == Ing(Other @@ <<"nginx.ingress.kubernetes.io", "proxy-read-timeout">> :> Text("60"),
               <<<<"/a">>>>)
Timed == Ing(Timeout(Text("60")) @@ Size(<<Padded("")>>), <<<<"">>>>)
AllIngresses == {Bare, Blank, Foreign, Timed}
FewIngresses == {Blank, Foreign, Timed}

MCAtoi == "60" :> 60 @@ "300" :> 300 @@ "0" :> 0

FirstAPI ==
  {[o \in Objects |-> IF o \in Ingresses THEN x ELSE IF o = "pod" THEN None ELSE v1] :
     x \in {None, Timed, Foreign}}
=============================================================================
