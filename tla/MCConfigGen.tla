---------------------------- MODULE MCConfigGen ----------------------------
(* ConfigGen for TLC: small ingresses, Services and Endpoints that between *)
(* them take every branch.                                                 *)
EXTENDS ConfigGen

To(svc, port) == [svc |-> svc, port |-> port]
RuleFor(host, paths) == [host |-> host, paths |-> paths]
InNamespace(ns, rules) == [ns |-> ns, rules |-> rules]

s == <<"s">>
t == <<"t">>

(* By number, by name, both hosts, no host, no paths. *)
OneNamespace ==
  {InNamespace(<<"a">>, <<RuleFor("x", <<To(s, "80")>>)>>),
   InNamespace(<<"a">>, <<RuleFor("x", <<To(t, "8080")>>), RuleFor("y", <<To(s, "http")>>)>>),
   InNamespace(<<"a">>, <<RuleFor("", <<To(s, "80")>>)>>),
   InNamespace(<<"a">>, <<RuleFor("y", <<>>)>>)}

(* Two services whose names, joined with dashes, are the same. *)
JoinedNames ==
  {InNamespace(<<"a">>, <<RuleFor("x", <<To(<<"b", "c">>, "80")>>)>>),
   InNamespace(<<"a", "b">>, <<RuleFor("y", <<To(<<"c">>, "80")>>)>>)}

(* What the theorems suppose of names is true of the first and false of    *)
(* the second.                                                             *)
ASSUME NamesApart == NamesDistinct(OneNamespace) /\ ~NamesDistinct(JoinedNames)

(* A rule with two paths. *)
TwoPaths == {InNamespace(<<"a">>, <<RuleFor("x", <<To(s, "80"), To(t, "80")>>)>>)}

Port(name, port, targetPort) == [name |-> name, port |-> port, targetPort |-> targetPort]
NamedPorts == [ports |-> <<Port("admin", "81", "9090"), Port("http", "80", "8080")>>,
               external |-> None]
OnePort == [ports |-> <<Port("", "80", "8080")>>, external |-> None]
External == [ports |-> <<>>, external |-> "ext"]
ExternalIP == [External EXCEPT !.external = "10.0.0.1"]
AllServices == {NamedPorts, OnePort, External, ExternalIP}
PlainService == {OnePort}

EpPort(name, port, tcp) == [name |-> name, port |-> port, tcp |-> tcp]
Address(ip, pod) == [ip |-> ip, target |-> pod]
Subset(addresses, ports) == [addresses |-> addresses, ports |-> ports]
http == EpPort("http", "8080", TRUE)
TwoPods == <<Subset(<<Address("ip1", "pod1"), Address("ip2", "pod2")>>,
                    <<http, EpPort("admin", "9090", TRUE)>>)>>
Reordered == <<Subset(<<Address("ip2", "pod2")>>, <<http>>),
               Subset(<<Address("ip1", "pod1"), Address("ip2", "pod2")>>, <<http>>)>>
OtherPort == <<Subset(<<Address("ip1", "pod1"), Address("ip2", "pod2")>>,
                      <<EpPort("http", "8081", TRUE), EpPort("http", "8080", FALSE)>>)>>
AllSubsets == {TwoPods, Reordered, OtherPort}
PlainSubsets == {TwoPods}
=============================================================================
