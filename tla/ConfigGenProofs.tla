-------------------------- MODULE ConfigGenProofs --------------------------
(***************************************************************************)
(* Theorems about ConfigGen: Equal compares what two configurations say,   *)
(* whatever their order; after a sync every host is routed to the servers  *)
(* of its oldest rule; a sync without a change does not reload.  The last  *)
(* two rest on the invariant GenInv: the running configuration has no host *)
(* and no server twice, and while it is in sync it says of every host what *)
(* the rule of an owner of the host says, though which owner, in which     *)
(* order and with which endpoint first depends on the sync that made it.   *)
(*                                                                         *)
(* What a recursive function of the model or of the library computes is    *)
(* proved by SetInduction, the induction of the naturals with a set for    *)
(* the property.                                                           *)
(***************************************************************************)
EXTENDS ConfigGen, FiniteSetTheorems, TLAPS

---------------------------------------------------------------------------
(* Least and greatest elements. *)

LEMMA LeastOf ==
  ASSUME NEW S \in SUBSET Nat, S # {}
  PROVE  \E x \in S : \A y \in S : x <= y
<1>. DEFINE R == StrictSubsetOrdering(Nat)
            T == {0 .. x - 1 : x \in S}
<1>1. IsWellFoundedOn(R, FiniteSubsetsOf(Nat))
  BY FS_StrictSubsetOrderingWellFounded
<1>2. T \subseteq FiniteSubsetsOf(Nat) /\ T # {}
  <2>1. \A x \in S : 0 .. x - 1 \in SUBSET Nat /\ IsFiniteSet(0 .. x - 1)
    BY FS_Interval
  <2>. QED  BY <2>1 DEF FiniteSubsetsOf
<1>3. PICK t \in T : \A u \in T : <<u, t>> \notin R
  <2>. HIDE DEF T, R
  <2>. QED  BY <1>1, <1>2, WFMin
<1>4. PICK x \in S : t = 0 .. x - 1
  OBVIOUS
<1>5. ASSUME NEW y \in S, y < x PROVE FALSE
  <2>1. 0 .. y - 1 \subseteq 0 .. x - 1 /\ 0 .. y - 1 # 0 .. x - 1
    <3>1. y \in 0 .. x - 1 /\ y \notin 0 .. y - 1
      BY <1>5
    <3>2. \A z \in 0 .. y - 1 : z \in 0 .. x - 1
      BY <1>5
    <3>3. 0 .. y - 1 # 0 .. x - 1
      BY <3>1, Zenon
    <3>. QED  BY <3>2, <3>3
  <2>2. 0 .. y - 1 \in SUBSET Nat /\ 0 .. x - 1 \in SUBSET Nat /\ 0 .. y - 1 \in T
    OBVIOUS
  <2>3. <<0 .. y - 1, 0 .. x - 1>> \in R
    BY <2>1, <2>2, Zenon DEF StrictSubsetOrdering
  <2>. QED  BY <1>3, <1>4, <2>2, <2>3
<1>. QED  BY <1>5

(* Induction over the naturals, with a set in the place of a property. *)
LEMMA SetInduction ==
  ASSUME NEW S, 0 \in S, \A n \in Nat : n \in S => n + 1 \in S
  PROVE  Nat \subseteq S
<1>. SUFFICES ASSUME Nat \ S # {} PROVE FALSE
  OBVIOUS
<1>1. PICK x \in Nat \ S : \A y \in Nat \ S : x <= y
  BY LeastOf
<1>. QED  BY <1>1

---------------------------------------------------------------------------
(* What the operators on sets and lists choose is there. *)
LEMMA MinIsLeast ==
  ASSUME NEW S \in SUBSET Nat, S # {}
  PROVE  Min(S) \in S /\ \A y \in S : Min(S) <= y
BY LeastOf DEF Min

LEMMA GreatestOf ==
  ASSUME NEW S \in SUBSET Nat, S # {}, NEW n \in Nat, \A x \in S : x <= n
  PROVE  \E x \in S : \A y \in S : y <= x
<1>. DEFINE T == {n - x : x \in S}
<1>1. T \in SUBSET Nat /\ T # {}
  <2>1. \A x \in S : n - x \in Nat
    OBVIOUS
  <2>. QED  BY <2>1
<1>2. PICK t \in T : \A u \in T : t <= u
  <2>. HIDE DEF T
  <2>. QED  BY <1>1, LeastOf
<1>3. PICK x \in S : t = n - x
  OBVIOUS
<1>4. ASSUME NEW y \in S PROVE y <= x
  <2>1. n - x <= n - y
    BY <1>2, <1>3
  <2>. QED  BY <2>1
<1>. QED  BY <1>4

LEMMA FirstVisit ==
  ASSUME NEW vs \in SUBSET (Nat \X Nat), vs # {}
  PROVE  FirstOf(vs) \in vs /\ \A w \in vs \ {FirstOf(vs)} : Before(FirstOf(vs), w)
<1>. DEFINE I == {v[1] : v \in vs}
<1>1. PICK i \in I : \A k \in I : i <= k
  <2>1. I \in SUBSET Nat /\ I # {}
    OBVIOUS
  <2>. HIDE DEF I
  <2>. QED  BY <2>1, LeastOf
<1>. DEFINE J == {v[2] : v \in {u \in vs : u[1] = i}}
<1>2. PICK j \in J : \A k \in J : j <= k
  <2>1. J \in SUBSET Nat /\ J # {}
    OBVIOUS
  <2>. HIDE DEF J
  <2>. QED  BY <2>1, LeastOf
<1>3. <<i, j>> \in vs
  OBVIOUS
<1>4. ASSUME NEW w \in vs \ {<<i, j>>} PROVE Before(<<i, j>>, w)
  <2>1. w = <<w[1], w[2]>> /\ w[1] \in Nat /\ w[2] \in Nat /\ i \in Nat /\ j \in Nat
    OBVIOUS
  <2>2. i <= w[1] /\ (w[1] = i => j <= w[2])
    BY <1>1, <1>2
  <2>. QED  BY <2>1, <2>2 DEF Before
<1>. QED  BY <1>3, <1>4 DEF FirstOf

LEMMA LastVisit ==
  ASSUME NEW vs \in SUBSET (Nat \X Nat), vs # {}, NEW n \in Nat, \A v \in vs : v[1] <= n,
         NEW len, \A v \in vs : len[v[1]] \in Nat /\ v[2] <= len[v[1]]
  PROVE  LastOf(vs) \in vs
<1>. DEFINE I == {v[1] : v \in vs}
<1>1. PICK i \in I : \A k \in I : k <= i
  <2>1. I \in SUBSET Nat /\ I # {} /\ \A k \in I : k <= n
    OBVIOUS
  <2>. HIDE DEF I
  <2>. QED  BY <2>1, GreatestOf
<1>. DEFINE J == {v[2] : v \in {u \in vs : u[1] = i}}
<1>2. PICK j \in J : \A k \in J : k <= j
  <2>1. J \in SUBSET Nat /\ J # {} /\ len[i] \in Nat /\ \A k \in J : k <= len[i]
    OBVIOUS
  <2>. HIDE DEF J
  <2>. QED  BY <2>1, GreatestOf
<1>3. <<i, j>> \in vs
  OBVIOUS
<1>4. ASSUME NEW w \in vs \ {<<i, j>>} PROVE Before(w, <<i, j>>)
  <2>1. w = <<w[1], w[2]>> /\ w[1] \in Nat /\ w[2] \in Nat /\ i \in Nat /\ j \in Nat
    OBVIOUS
  <2>2. w[1] <= i /\ (w[1] = i => w[2] <= j)
    BY <1>1, <1>2
  <2>. QED  BY <2>1, <2>2 DEF Before
<1>. QED  BY <1>3, <1>4 DEF LastOf

(* The orders of a map are its keys, once each. *)
LEMMA Orders ==
  ASSUME NEW S, IsFiniteSet(S), NEW l \in SetToSeqs(S)
  PROVE  /\ l \in Seq(S) /\ DOMAIN l = 1 .. Len(l) /\ Len(l) \in Nat /\ ToSet(l) = S
         /\ \A i, j \in 1 .. Len(l) : l[i] = l[j] => i = j
<1>. DEFINE n == Cardinality(S)
<1>1. n \in Nat /\ IsFiniteSet(1 .. n) /\ Cardinality(1 .. n) = n
  BY FS_CardinalityType, FS_Interval
<1>2. l \in [1 .. n -> S] /\ \A i, j \in 1 .. n : i # j => l[i] # l[j]
  BY DEF SetToSeqs
<1>3. l \in Injection(1 .. n, S)
  BY <1>2 DEF Injection, IsInjective
<1>4. l \in Surjection(1 .. n, S)
  BY <1>1, <1>3, FS_Injection
<1>5. ToSet(l) = S
  BY <1>2, <1>4 DEF Surjection, ToSet
<1>6. Len(l) = n /\ l \in Seq(S)
  BY <1>1, <1>2
<1>. QED  BY <1>1, <1>2, <1>5, <1>6

---------------------------------------------------------------------------
(* Equality of configurations. *)

LEMMA Upto == \A n \in Nat : IsFiniteSet(1 .. n) /\ Cardinality(1 .. n) = n
<1>. SUFFICES ASSUME NEW n \in Nat PROVE IsFiniteSet(1 .. n) /\ Cardinality(1 .. n) = n
  OBVIOUS
<1>1. IsFiniteSet(1 .. n) /\ Cardinality(1 .. n) = IF 1 > n THEN 0 ELSE n - 1 + 1
  BY FS_Interval
<1>. QED  BY <1>1

(* When no element equals two of the other list, what sets.Compare finds   *)
(* is that each element of either list has its equal in the other.         *)
LEMMA CompareMatches ==
  ASSUME NEW a, NEW b, NEW same, Len(a) \in Nat, Len(b) \in Nat,
         \A i \in 1 .. Len(a) : \A j, k \in 1 .. Len(b) :
           <<i, j>> \in same /\ <<i, k>> \in same => j = k,
         \A j \in 1 .. Len(b) : \A i, k \in 1 .. Len(a) :
           <<i, j>> \in same /\ <<k, j>> \in same => i = k
  PROVE  Compare(a, b, same) <=>
           /\ \A i \in 1 .. Len(a) : \E j \in 1 .. Len(b) : <<i, j>> \in same
           /\ \A j \in 1 .. Len(b) : \E i \in 1 .. Len(a) : <<i, j>> \in same
<1>. DEFINE A == 1 .. Len(a)
            B == 1 .. Len(b)
            unvisited(f, i) == {j \in B : <<i, j>> \in same} \ {f[k] : k \in 1 .. i - 1}
            Found(f) == \A i \in A :
                          f[i] \in unvisited(f, i) /\ \A j \in unvisited(f, i) : f[i] <= j
<1>0. /\ IsFiniteSet(A) /\ Cardinality(A) = Len(a)
      /\ IsFiniteSet(B) /\ Cardinality(B) = Len(b)
  BY Upto
<1>1. Compare(a, b, same) <=> Len(a) = Len(b) /\ \E f \in [A -> B] : Found(f)
  BY DEF Compare
<1>2. ASSUME Len(a) = Len(b), NEW f \in [A -> B], Found(f)
      PROVE  /\ \A i \in A : \E j \in B : <<i, j>> \in same
             /\ \A j \in B : \E i \in A : <<i, j>> \in same
  <2>1. \A i \in A : <<i, f[i]>> \in same
    BY <1>2
  <2>2. ASSUME NEW i \in A, NEW k \in A, f[i] = f[k] PROVE i = k
    BY <2>1, <2>2
  <2>3. f \in Injection(A, B)
    BY <2>2 DEF Injection, IsInjective
  <2>4. f \in Surjection(A, B)
    BY <1>0, <1>2, <2>3, FS_Injection
  <2>. QED  BY <2>1, <2>4 DEF Surjection
<1>3. ASSUME \A i \in A : \E j \in B : <<i, j>> \in same,
             \A j \in B : \E i \in A : <<i, j>> \in same
      PROVE  Len(a) = Len(b) /\ \E f \in [A -> B] : Found(f)
  <2>. DEFINE f == [i \in A |-> CHOOSE j \in B : <<i, j>> \in same]
  <2>1. f \in [A -> B] /\ \A i \in A : <<i, f[i]>> \in same
    BY <1>3
  <2>. HIDE DEF f
  <2>2. \A i, k \in A : f[i] = f[k] => i = k
    BY <2>1
  <2>3. f \in Injection(A, B)
    BY <2>1, <2>2 DEF Injection, IsInjective
  <2>4. f \in Surjection(A, B)
    <3>1. \A i \in A, j \in B : <<i, j>> \in same => f[i] = j
      BY <2>1
    <3>. QED  BY <1>3, <2>1, <3>1 DEF Surjection
  <2>5. Len(a) = Len(b)
    BY <1>0, <2>3, <2>4, FS_Injection
  <2>6. ASSUME NEW i \in A PROVE unvisited(f, i) = {f[i]}
    <3>1. \A j \in B : <<i, j>> \in same => j = f[i]
      BY <2>1
    <3>2. \A k \in 1 .. i - 1 : f[k] # f[i]
      BY <2>2
    <3>3. f[i] \in unvisited(f, i)
      BY <2>1, <3>2
    <3>4. ASSUME NEW j \in unvisited(f, i) PROVE j = f[i]
      BY <3>1, <3>4
    <3>. QED  BY <3>3, <3>4
  <2>7. \A i \in A : f[i] <= f[i]
    BY <2>1
  <2>. QED  BY <2>1, <2>5, <2>6, <2>7
<1>. QED  BY <1>1, <1>2, <1>3

(* A configuration as it is made: of each host one service, and of its     *)
(* endpoints none twice.                                                   *)
OnceEach(eps) ==
  /\ IsList(eps)
  /\ \A i, j \in 1 .. Len(eps) : SameServer(eps[i], eps[j]) => i = j
WellFormed(config) ==
  /\ IsList(config)
  /\ \A i \in 1 .. Len(config) : OnceEach(config[i].Backend.Endpoints)
  /\ \A i, j \in 1 .. Len(config) : config[i].Hostname = config[j].Hostname => i = j

(* What a configuration says, in no order. *)
Server(e) == <<e.Address, e.Port, e.Target>>
ServiceContent(s) ==
  <<s.Hostname, s.Backend.Name, s.Backend.Service,
    {Server(e) : e \in ToSet(s.Backend.Endpoints)}>>
Content(config) == {ServiceContent(s) : s \in ToSet(config)}

LEMMA Listed ==
  ASSUME NEW s, IsList(s)
  PROVE  /\ Len(s) \in Nat /\ DOMAIN s = 1 .. Len(s)
         /\ ToSet(s) = {s[i] : i \in 1 .. Len(s)}
BY DEF IsList, ToSet

LEMMA EqualBackends ==
  ASSUME NEW b1, NEW b2, OnceEach(b1.Endpoints), OnceEach(b2.Endpoints)
  PROVE  BackendEqual(b1, b2) <=>
           /\ b1.Name = b2.Name /\ b1.Service = b2.Service
           /\ {Server(e) : e \in ToSet(b1.Endpoints)} = {Server(e) : e \in ToSet(b2.Endpoints)}
<1>. DEFINE e1 == b1.Endpoints
            e2 == b2.Endpoints
            same == {p \in Positions(e1, e2) : EndpointEqual(e1[p[1]], e2[p[2]])}
<1>1. /\ Len(e1) \in Nat /\ ToSet(e1) = {e1[i] : i \in 1 .. Len(e1)}
      /\ Len(e2) \in Nat /\ ToSet(e2) = {e2[i] : i \in 1 .. Len(e2)}
  BY Listed DEF OnceEach
<1>2. \A i \in 1 .. Len(e1), j \in 1 .. Len(e2) :
        <<i, j>> \in same <=> Server(e1[i]) = Server(e2[j])
  BY DEF Positions, EndpointEqual, Server
<1>3. /\ \A j, k \in 1 .. Len(e1) : Server(e1[j]) = Server(e1[k]) => j = k
      /\ \A j, k \in 1 .. Len(e2) : Server(e2[j]) = Server(e2[k]) => j = k
  BY DEF OnceEach, SameServer, Server
<1>4. Compare(e1, e2, same) <=>
        /\ \A i \in 1 .. Len(e1) : \E j \in 1 .. Len(e2) : <<i, j>> \in same
        /\ \A j \in 1 .. Len(e2) : \E i \in 1 .. Len(e1) : <<i, j>> \in same
  <2>. HIDE DEF same
  <2>1. /\ \A i \in 1 .. Len(e1) : \A j, k \in 1 .. Len(e2) :
             <<i, j>> \in same /\ <<i, k>> \in same => j = k
        /\ \A j \in 1 .. Len(e2) : \A i, k \in 1 .. Len(e1) :
             <<i, j>> \in same /\ <<k, j>> \in same => i = k
    BY <1>2, <1>3
  <2>. QED  BY <1>1, <2>1, CompareMatches
<1>5. Compare(e1, e2, same) <=>
        {Server(e) : e \in ToSet(e1)} = {Server(e) : e \in ToSet(e2)}
  <2>. HIDE DEF same
  <2>. DEFINE f == [i \in 1 .. Len(e1) |-> Server(e1[i])]
              g == [i \in 1 .. Len(e2) |-> Server(e2[i])]
  <2>. DEFINE F == {Server(e) : e \in ToSet(e1)}
              G == {Server(e) : e \in ToSet(e2)}
  <2>1. /\ \A x : x \in F <=> \E i \in 1 .. Len(e1) : x = f[i]
        /\ \A x : x \in G <=> \E i \in 1 .. Len(e2) : x = g[i]
    BY <1>1
  <2>2. \A i \in 1 .. Len(e1), j \in 1 .. Len(e2) : <<i, j>> \in same <=> f[i] = g[j]
    BY <1>2
  <2>. HIDE DEF f, g, F, G
  <2>3. Compare(e1, e2, same) <=>
          /\ \A i \in 1 .. Len(e1) : \E j \in 1 .. Len(e2) : f[i] = g[j]
          /\ \A j \in 1 .. Len(e2) : \E i \in 1 .. Len(e1) : f[i] = g[j]
    BY <1>4, <2>2
  <2>4. F = G <=>
          /\ \A i \in 1 .. Len(e1) : \E j \in 1 .. Len(e2) : f[i] = g[j]
          /\ \A j \in 1 .. Len(e2) : \E i \in 1 .. Len(e1) : f[i] = g[j]
    BY <2>1
  <2>. QED  BY <2>3, <2>4 DEF F, G
<1>. QED  BY <1>5 DEF BackendEqual

(* Equal finds two configurations equal just when they say the same,       *)
(* whatever the order of their services and endpoints                      *)
(* (config_equals.go, types_equals.go, match.go).                          *)
THEOREM EqualIsSameContent ==
  ASSUME NEW c1, NEW c2, WellFormed(c1), WellFormed(c2)
  PROVE  Equal(c1, c2) <=> Content(c1) = Content(c2)
<1>. DEFINE same == {p \in Positions(c1, c2) : ServiceEqual(c1[p[1]], c2[p[2]])}
<1>1. /\ Len(c1) \in Nat /\ ToSet(c1) = {c1[i] : i \in 1 .. Len(c1)}
      /\ Len(c2) \in Nat /\ ToSet(c2) = {c2[i] : i \in 1 .. Len(c2)}
  BY Listed DEF WellFormed
<1>2. ASSUME NEW i \in 1 .. Len(c1), NEW j \in 1 .. Len(c2)
      PROVE  <<i, j>> \in same <=> ServiceContent(c1[i]) = ServiceContent(c2[j])
  <2>1. <<i, j>> \in same <=> ServiceEqual(c1[i], c2[j])
    BY DEF Positions
  <2>2. OnceEach(c1[i].Backend.Endpoints) /\ OnceEach(c2[j].Backend.Endpoints)
    BY DEF WellFormed
  <2>. QED  BY <2>1, <2>2, EqualBackends DEF ServiceEqual, ServiceContent
<1>3. /\ \A j, k \in 1 .. Len(c1) : ServiceContent(c1[j]) = ServiceContent(c1[k]) => j = k
      /\ \A j, k \in 1 .. Len(c2) : ServiceContent(c2[j]) = ServiceContent(c2[k]) => j = k
  BY DEF WellFormed, ServiceContent
<1>. HIDE DEF same
<1>4. Compare(c1, c2, same) <=>
        /\ \A i \in 1 .. Len(c1) : \E j \in 1 .. Len(c2) : <<i, j>> \in same
        /\ \A j \in 1 .. Len(c2) : \E i \in 1 .. Len(c1) : <<i, j>> \in same
  <2>1. /\ \A i \in 1 .. Len(c1) : \A j, k \in 1 .. Len(c2) :
             <<i, j>> \in same /\ <<i, k>> \in same => j = k
        /\ \A j \in 1 .. Len(c2) : \A i, k \in 1 .. Len(c1) :
             <<i, j>> \in same /\ <<k, j>> \in same => i = k
    BY <1>2, <1>3
  <2>. QED  BY <1>1, <2>1, CompareMatches
<1>5. Compare(c1, c2, same) <=> Content(c1) = Content(c2)
  <2>. DEFINE f == [i \in 1 .. Len(c1) |-> ServiceContent(c1[i])]
              g == [i \in 1 .. Len(c2) |-> ServiceContent(c2[i])]
  <2>. DEFINE F == Content(c1)
              G == Content(c2)
  <2>1. /\ \A x : x \in F <=> \E i \in 1 .. Len(c1) : x = f[i]
        /\ \A x : x \in G <=> \E i \in 1 .. Len(c2) : x = g[i]
    BY <1>1 DEF Content
  <2>2. \A i \in 1 .. Len(c1), j \in 1 .. Len(c2) : <<i, j>> \in same <=> f[i] = g[j]
    BY <1>2
  <2>. HIDE DEF f, g, F, G
  <2>3. Compare(c1, c2, same) <=>
          /\ \A i \in 1 .. Len(c1) : \E j \in 1 .. Len(c2) : f[i] = g[j]
          /\ \A j \in 1 .. Len(c2) : \E i \in 1 .. Len(c1) : f[i] = g[j]
    BY <1>4, <2>2
  <2>4. F = G <=>
          /\ \A i \in 1 .. Len(c1) : \E j \in 1 .. Len(c2) : f[i] = g[j]
          /\ \A j \in 1 .. Len(c2) : \E i \in 1 .. Len(c1) : f[i] = g[j]
    BY <2>1
  <2>. QED  BY <2>3, <2>4 DEF F, G
<1>. QED  BY <1>5 DEF Equal, same

---------------------------------------------------------------------------
(* Lists of endpoints. *)

LEMMA ConcatElements ==
  ASSUME NEW E, NEW s \in Seq(E), NEW t \in Seq(E)
  PROVE  s \o t \in Seq(E) /\ ToSet(s \o t) = ToSet(s) \cup ToSet(t)
<1>1. /\ s \o t \in Seq(E) /\ DOMAIN (s \o t) = 1 .. Len(s) + Len(t)
      /\ \A i \in 1 .. Len(s) + Len(t) :
           (s \o t)[i] = IF i <= Len(s) THEN s[i] ELSE t[i - Len(s)]
  OBVIOUS
<1>2. /\ DOMAIN s = 1 .. Len(s) /\ Len(s) \in Nat
      /\ DOMAIN t = 1 .. Len(t) /\ Len(t) \in Nat
  OBVIOUS
<1>3. ASSUME NEW x \in ToSet(s \o t) PROVE x \in ToSet(s) \cup ToSet(t)
  <2>1. PICK i \in 1 .. Len(s) + Len(t) : x = (s \o t)[i]
    BY <1>1 DEF ToSet
  <2>2. CASE i <= Len(s)
    BY <1>1, <1>2, <2>1, <2>2 DEF ToSet
  <2>3. CASE i > Len(s)
    <3>1. i - Len(s) \in 1 .. Len(t) /\ x = t[i - Len(s)]
      BY <1>1, <1>2, <2>1, <2>3
    <3>. QED  BY <1>2, <3>1 DEF ToSet
  <2>. QED  BY <1>2, <2>2, <2>3
<1>4. ASSUME NEW x \in ToSet(s) PROVE x \in ToSet(s \o t)
  <2>1. PICK i \in 1 .. Len(s) : x = s[i]
    BY <1>2 DEF ToSet
  <2>2. i \in 1 .. Len(s) + Len(t) /\ (s \o t)[i] = x
    BY <1>1, <1>2, <2>1
  <2>. QED  BY <1>1, <2>2 DEF ToSet
<1>5. ASSUME NEW x \in ToSet(t) PROVE x \in ToSet(s \o t)
  <2>1. PICK i \in 1 .. Len(t) : x = t[i]
    BY <1>2 DEF ToSet
  <2>2. i + Len(s) \in 1 .. Len(s) + Len(t) /\ (s \o t)[i + Len(s)] = x
    BY <1>1, <1>2, <2>1
  <2>. QED  BY <1>1, <2>2 DEF ToSet
<1>. QED  BY <1>1, <1>3, <1>4, <1>5

(* The function FlattenSeq defines by recursion exists. *)
LEMMA FlattenExists ==
  ASSUME NEW ss
  PROVE  \A n \in Nat : \E g :
           g = [i \in 1 .. n |-> IF i = 1 THEN ss[i] ELSE g[i - 1] \o ss[i]]
<1>. DEFINE Def(g, n) == g = [i \in 1 .. n |-> IF i = 1 THEN ss[i] ELSE g[i - 1] \o ss[i]]
            S == {n \in Nat : \E g : Def(g, n)}
<1>1. 0 \in S
  <2>1. Def([i \in 1 .. 0 |-> 0], 0)
    OBVIOUS
  <2>. QED  BY <2>1
<1>2. ASSUME NEW n \in Nat, n \in S PROVE n + 1 \in S
  <2>1. PICK g : Def(g, n)
    BY <1>2
  <2>. DEFINE h == [i \in 1 .. n + 1 |->
                      IF i <= n THEN g[i] ELSE IF i = 1 THEN ss[i] ELSE g[i - 1] \o ss[i]]
  <2>2. ASSUME NEW i \in 1 .. n + 1
        PROVE  h[i] = IF i = 1 THEN ss[i] ELSE h[i - 1] \o ss[i]
    <3>1. CASE i = 1
      BY <2>1, <3>1
    <3>2. CASE i # 1 /\ i <= n
      <4>1. i \in 1 .. n /\ i - 1 \in 1 .. n /\ i - 1 \in 1 .. n + 1 /\ i - 1 <= n
        BY <3>2
      <4>2. g[i] = g[i - 1] \o ss[i] /\ h[i] = g[i] /\ h[i - 1] = g[i - 1]
        BY <2>1, <3>2, <4>1
      <4>. QED  BY <3>2, <4>2
    <3>3. CASE i # 1 /\ i = n + 1
      <4>1. i - 1 \in 1 .. n + 1 /\ i - 1 <= n /\ ~(i <= n)
        BY <3>3
      <4>2. h[i] = g[i - 1] \o ss[i]
        BY <3>3, <4>1
      <4>3. h[i - 1] = g[i - 1]
        BY <4>1
      <4>. HIDE DEF h
      <4>. QED  BY <3>3, <4>2, <4>3
    <3>. QED  BY <3>1, <3>2, <3>3
  <2>3. Def(h, n + 1)
    BY <2>2
  <2>. HIDE DEF h, Def
  <2>. QED  BY <2>3
<1>3. Nat \subseteq S
  <2>. HIDE DEF S
  <2>. QED  BY <1>1, <1>2, SetInduction
<1>. QED  BY <1>3

LEMMA FlattenElements ==
  ASSUME NEW ss, NEW E, NEW n \in Nat, Len(ss) = n,
         \A i \in 1 .. n : ss[i] \in Seq(E), ss \in Seq(Seq(E))
  PROVE  /\ FlattenSeq(ss) \in Seq(E)
         /\ ToSet(FlattenSeq(ss)) = UNION {ToSet(ss[i]) : i \in 1 .. n}
<1>. DEFINE f == CHOOSE g : g = [i \in 1 .. n |-> IF i = 1 THEN ss[i] ELSE g[i - 1] \o ss[i]]
            Met(m) == UNION {ToSet(ss[i]) : i \in 1 .. m}
            S == {m \in Nat : m \in 1 .. n => f[m] \in Seq(E) /\ ToSet(f[m]) = Met(m)}
<1>1. f = [i \in 1 .. n |-> IF i = 1 THEN ss[i] ELSE f[i - 1] \o ss[i]]
  BY FlattenExists
<1>2. FlattenSeq(ss) = IF n = 0 THEN ss ELSE f[n]
  BY DEF FlattenSeq
<1>. HIDE DEF f
<1>3. 0 \in S
  OBVIOUS
<1>4. ASSUME NEW m \in Nat, m \in S PROVE m + 1 \in S
  <2>. SUFFICES ASSUME m + 1 \in 1 .. n
                PROVE  f[m + 1] \in Seq(E) /\ ToSet(f[m + 1]) = Met(m + 1)
    OBVIOUS
  <2>1. CASE m = 0
    <3>1. f[m + 1] = ss[1] /\ ss[1] \in Seq(E)
      BY <1>1, <2>1
    <3>2. {ToSet(ss[i]) : i \in 1 .. m + 1} = {ToSet(ss[1])}
      <4>1. \A i : i \in 1 .. m + 1 <=> i = 1
        BY <2>1
      <4>. QED  BY <4>1
    <3>. QED  BY <3>1, <3>2
  <2>2. CASE m # 0
    <3>1. m \in 1 .. n /\ f[m + 1] = f[m] \o ss[m + 1]
      <4>1. \A i \in 1 .. n : i # 1 => f[i] = f[i - 1] \o ss[i]
        BY <1>1
      <4>2. m \in 1 .. n /\ m + 1 # 1 /\ (m + 1) - 1 = m
        BY <2>2
      <4>. QED  BY <4>1, <4>2
    <3>2. f[m] \in Seq(E) /\ ToSet(f[m]) = Met(m)
      BY <1>4, <3>1
    <3>3. f[m + 1] \in Seq(E) /\ ToSet(f[m + 1]) = ToSet(f[m]) \cup ToSet(ss[m + 1])
      BY <3>1, <3>2, ConcatElements
    <3>4. 1 .. m + 1 = 1 .. m \cup {m + 1}
      OBVIOUS
    <3>5. Met(m + 1) = Met(m) \cup ToSet(ss[m + 1])
      <4>1. \A x : /\ x \in Met(m) <=> \E i \in 1 .. m : x \in ToSet(ss[i])
                   /\ x \in Met(m + 1) <=> \E i \in 1 .. m + 1 : x \in ToSet(ss[i])
        OBVIOUS
      <4>. HIDE DEF Met
      <4>. QED  BY <3>4, <4>1
    <3>. HIDE DEF Met
    <3>. QED  BY <3>2, <3>3, <3>5
  <2>. QED  BY <2>1, <2>2
<1>5. n \in S
  <2>. HIDE DEF S
  <2>. QED  BY <1>3, <1>4, SetInduction
<1>6. CASE n = 0
  <2>1. FlattenSeq(ss) = ss /\ ss = <<>>
    BY <1>2, <1>6
  <2>. QED  BY <1>6, <2>1 DEF ToSet
<1>7. CASE n # 0
  BY <1>2, <1>5, <1>7
<1>. QED  BY <1>6, <1>7

(* So does the one of FirstOfEach. *)
LEMMA KeptExists ==
  ASSUME NEW eps
  PROVE  \A n \in Nat : \E g : g = [i \in 0 .. n |->
           IF i = 0 THEN <<>>
           ELSE IF \E e \in ToSet(g[i - 1]) : SameServer(e, eps[i]) THEN g[i - 1]
           ELSE Append(g[i - 1], eps[i])]
<1>. DEFINE More(l, e) == IF \E d \in ToSet(l) : SameServer(d, e) THEN l ELSE Append(l, e)
            Def(g, n) == g = [i \in 0 .. n |-> IF i = 0 THEN <<>> ELSE More(g[i - 1], eps[i])]
            S == {n \in Nat : \E g : Def(g, n)}
<1>. HIDE DEF More
<1>1. 0 \in S
  <2>. DEFINE h == [i \in 0 .. 0 |-> <<>>]
  <2>1. Def(h, 0)
    OBVIOUS
  <2>. HIDE DEF h, Def
  <2>. QED  BY <2>1
<1>2. ASSUME NEW n \in Nat, n \in S PROVE n + 1 \in S
  <2>1. PICK g : Def(g, n)
    BY <1>2
  <2>. DEFINE h == [i \in 0 .. n + 1 |-> IF i <= n THEN g[i] ELSE More(g[n], eps[n + 1])]
  <2>2. ASSUME NEW i \in 0 .. n + 1
        PROVE  h[i] = IF i = 0 THEN <<>> ELSE More(h[i - 1], eps[i])
    <3>1. CASE i = 0
      BY <2>1, <3>1
    <3>2. CASE i # 0 /\ i <= n
      <4>1. i \in 0 .. n /\ i - 1 \in 0 .. n + 1 /\ i - 1 <= n
        BY <3>2
      <4>2. g[i] = More(g[i - 1], eps[i]) /\ h[i] = g[i] /\ h[i - 1] = g[i - 1]
        BY <2>1, <3>2, <4>1
      <4>. QED  BY <3>2, <4>2
    <3>3. CASE i = n + 1
      <4>1. i - 1 = n /\ ~(i <= n) /\ n \in 0 .. n + 1
        BY <3>3
      <4>2. h[i] = More(g[n], eps[i]) /\ h[n] = g[n]
        BY <3>3, <4>1
      <4>. HIDE DEF h
      <4>. QED  BY <3>3, <4>1, <4>2
    <3>. QED  BY <3>1, <3>2, <3>3
  <2>3. Def(h, n + 1)
    BY <2>2
  <2>. HIDE DEF h, Def
  <2>. QED  BY <2>3
<1>3. Nat \subseteq S
  <2>. HIDE DEF S
  <2>. QED  BY <1>1, <1>2, SetInduction
<1>. QED  BY <1>3 DEF More

LEMMA AppendElements ==
  ASSUME NEW E, NEW s \in Seq(E), NEW e \in E
  PROVE  /\ Append(s, e) \in Seq(E) /\ Len(Append(s, e)) = Len(s) + 1 /\ Len(s) \in Nat
         /\ \A i \in 1 .. Len(s) : Append(s, e)[i] = s[i]
         /\ Append(s, e)[Len(s) + 1] = e
         /\ ToSet(Append(s, e)) = ToSet(s) \cup {e}
<1>1. /\ Append(s, e) \in Seq(E) /\ Len(Append(s, e)) = Len(s) + 1 /\ Len(s) \in Nat
      /\ \A i \in 1 .. Len(s) : Append(s, e)[i] = s[i]
      /\ Append(s, e)[Len(s) + 1] = e
  OBVIOUS
<1>2. DOMAIN s = 1 .. Len(s) /\ DOMAIN Append(s, e) = 1 .. Len(s) \cup {Len(s) + 1}
  BY <1>1
<1>. QED  BY <1>1, <1>2 DEF ToSet

LEMMA FirstOfEachElements ==
  ASSUME NEW E, NEW eps \in Seq(E)
  PROVE  /\ FirstOfEach(eps) \in Seq(E)
         /\ ToSet(FirstOfEach(eps)) \subseteq ToSet(eps)
         /\ \A e \in ToSet(eps) : \E d \in ToSet(FirstOfEach(eps)) : SameServer(d, e)
         /\ \A i, j \in 1 .. Len(FirstOfEach(eps)) :
              SameServer(FirstOfEach(eps)[i], FirstOfEach(eps)[j]) => i = j
<1>. DEFINE n == Len(eps)
            f == CHOOSE g : g = [i \in 0 .. n |->
                   IF i = 0 THEN <<>>
                   ELSE IF \E e \in ToSet(g[i - 1]) : SameServer(e, eps[i]) THEN g[i - 1]
                   ELSE Append(g[i - 1], eps[i])]
            Good(m) ==
              /\ f[m] \in Seq(E)
              /\ \A d \in ToSet(f[m]) : \E i \in 1 .. m : d = eps[i]
              /\ \A i \in 1 .. m : \E d \in ToSet(f[m]) : SameServer(d, eps[i])
              /\ \A i, j \in 1 .. Len(f[m]) : SameServer(f[m][i], f[m][j]) => i = j
            S == {m \in Nat : m \in 0 .. n => Good(m)}
<1>0. n \in Nat /\ DOMAIN eps = 1 .. n /\ \A i \in 1 .. n : eps[i] \in E
  OBVIOUS
<1>1. f = [i \in 0 .. n |->
             IF i = 0 THEN <<>>
             ELSE IF \E e \in ToSet(f[i - 1]) : SameServer(e, eps[i]) THEN f[i - 1]
             ELSE Append(f[i - 1], eps[i])]
  BY <1>0, KeptExists
<1>2. FirstOfEach(eps) = f[n]
  BY DEF FirstOfEach
<1>. HIDE DEF f, n
<1>3. 0 \in S
  <2>1. f[0] = <<>> /\ ToSet(f[0]) = {} /\ Len(f[0]) = 0 /\ f[0] \in Seq(E)
    <3>1. f[0] = <<>>
      BY <1>0, <1>1
    <3>. QED  BY <3>1 DEF ToSet
  <2>2. Good(0)
    BY <2>1
  <2>. HIDE DEF Good
  <2>. QED  BY <2>2
<1>4. ASSUME NEW m \in Nat, m \in S PROVE m + 1 \in S
  <2>. SUFFICES ASSUME m + 1 \in 0 .. n PROVE Good(m + 1)
    OBVIOUS
  <2>1. Good(m) /\ m + 1 \in 1 .. n /\ m + 1 \in 0 .. n /\ (m + 1) - 1 = m
    BY <1>0, <1>4
  <2>2. /\ eps[m + 1] \in E
        /\ f[m + 1] = IF \E e \in ToSet(f[m]) : SameServer(e, eps[m + 1]) THEN f[m]
                      ELSE Append(f[m], eps[m + 1])
    <3>1. \A i \in 0 .. n : i # 0 => f[i] =
            IF \E e \in ToSet(f[i - 1]) : SameServer(e, eps[i]) THEN f[i - 1]
            ELSE Append(f[i - 1], eps[i])
      BY <1>1
    <3>2. m + 1 \in 0 .. n /\ m + 1 # 0 /\ (m + 1) - 1 = m /\ eps[m + 1] \in E
      BY <1>0, <2>1
    <3>. QED  BY <3>1, <3>2
  <2>3. 1 .. m + 1 = 1 .. m \cup {m + 1}
    OBVIOUS
  <2>4. CASE \E e \in ToSet(f[m]) : SameServer(e, eps[m + 1])
    BY <2>1, <2>2, <2>3, <2>4
  <2>5. CASE ~\E e \in ToSet(f[m]) : SameServer(e, eps[m + 1])
    <3>. DEFINE l == f[m]
                k == Append(l, eps[m + 1])
    <3>1. f[m + 1] = k
      BY <2>2, <2>5
    <3>2. /\ k \in Seq(E) /\ Len(k) = Len(l) + 1 /\ Len(l) \in Nat
          /\ \A i \in 1 .. Len(l) : k[i] = l[i]
          /\ k[Len(l) + 1] = eps[m + 1]
          /\ ToSet(k) = ToSet(l) \cup {eps[m + 1]}
      <4>1. l \in Seq(E) /\ eps[m + 1] \in E
        BY <2>1, <2>2
      <4>. HIDE DEF l
      <4>. QED  BY <4>1, AppendElements
    <3>3. \A d \in ToSet(k) : \E i \in 1 .. m + 1 : d = eps[i]
      BY <2>1, <2>3, <3>2
    <3>4. \A i \in 1 .. m + 1 : \E d \in ToSet(k) : SameServer(d, eps[i])
      BY <2>1, <2>3, <3>2 DEF SameServer
    <3>5. \A i \in 1 .. Len(l) : ~SameServer(l[i], eps[m + 1]) /\ ~SameServer(eps[m + 1], l[i])
      <4>1. \A i \in 1 .. Len(l) : l[i] \in ToSet(l)
        BY <2>1 DEF ToSet
      <4>. QED  BY <2>5, <4>1 DEF SameServer
    <3>6. \A i, j \in 1 .. Len(k) : SameServer(k[i], k[j]) => i = j
      <4>1. 1 .. Len(k) = 1 .. Len(l) \cup {Len(l) + 1}
        BY <3>2
      <4>. QED  BY <2>1, <3>2, <3>5, <4>1
    <3>. QED  BY <3>1, <3>2, <3>3, <3>4, <3>6
  <2>. QED  BY <2>4, <2>5
<1>5. Good(n)
  <2>1. n \in S
    <3>. HIDE DEF S
    <3>. QED  BY <1>0, <1>3, <1>4, SetInduction
  <2>. QED  BY <1>0, <2>1
<1>6. f[n] \in Seq(E) /\ \A i, j \in 1 .. Len(f[n]) : SameServer(f[n][i], f[n][j]) => i = j
  BY <1>5
<1>7. /\ ToSet(f[n]) \subseteq ToSet(eps)
      /\ \A e \in ToSet(eps) : \E d \in ToSet(f[n]) : SameServer(d, e)
  <2>1. ToSet(eps) = {eps[i] : i \in 1 .. n}
    BY <1>0 DEF ToSet
  <2>2. /\ \A d \in ToSet(f[n]) : \E i \in 1 .. n : d = eps[i]
        /\ \A i \in 1 .. n : \E d \in ToSet(f[n]) : SameServer(d, eps[i])
    BY <1>5
  <2>. QED  BY <2>1, <2>2
<1>. QED  BY <1>2, <1>6, <1>7

LEMMA IsListOfSeq == \A E : \A s \in Seq(E) : IsList(s)
BY DEF IsList, ToSet

LEMMA FunctionIsList ==
  ASSUME NEW n \in Nat, NEW l, l = [i \in 1 .. n |-> l[i]]
  PROVE  /\ IsList(l) /\ Len(l) = n
         /\ \A x : x \in ToSet(l) <=> \E i \in 1 .. n : x = l[i]
<1>1. DOMAIN l = 1 .. n
  OBVIOUS
<1>2. \A x : x \in ToSet(l) <=> \E i \in 1 .. n : x = l[i]
  BY <1>1 DEF ToSet
<1>3. l \in [1 .. n -> ToSet(l)]
  BY <1>2
<1>4. l \in Seq(ToSet(l)) /\ Len(l) = n
  <2>. DEFINE F == ToSet(l)
  <2>. HIDE DEF F
  <2>. QED  BY <1>3
<1>. QED  BY <1>2, <1>4 DEF IsList

LEMMA ListIn ==
  ASSUME NEW l, IsList(l), NEW F, ToSet(l) \subseteq F
  PROVE  l \in Seq(F)
BY DEF IsList

(* Where the endpoints of a list are found. *)
Places(eps) == {<<e.Address, e.Port>> : e \in ToSet(eps)}
Lists(subsets) ==
  IsList(subsets) /\ \A s \in ToSet(subsets) : IsList(s.addresses) /\ IsList(s.ports)

LEMMA PortElements ==
  ASSUME NEW as, IsList(as), NEW p
  PROVE  /\ IsList(EndpointsOfPort(as, p))
         /\ Places(EndpointsOfPort(as, p)) = {<<a.ip, p.port>> : a \in ToSet(as)}
<1>. DEFINE l == EndpointsOfPort(as, p)
<1>1. Len(as) \in Nat /\ ToSet(as) = {as[i] : i \in 1 .. Len(as)}
  BY Listed
<1>2. /\ DOMAIN l = 1 .. Len(as)
      /\ \A a \in 1 .. Len(as) : l[a].Address = as[a].ip /\ l[a].Port = p.port
  BY DEF EndpointsOfPort
<1>3. IsList(l)
  <2>1. l = [a \in 1 .. Len(as) |-> l[a]]
    BY DEF EndpointsOfPort
  <2>. HIDE DEF l
  <2>. QED  BY <1>1, <2>1, FunctionIsList
<1>4. Places(l) = {<<a.ip, p.port>> : a \in ToSet(as)}
  <2>1. ToSet(l) = {l[i] : i \in 1 .. Len(as)}
    BY <1>2 DEF ToSet
  <2>2. \A x : x \in Places(l) <=> \E i \in 1 .. Len(as) : x = <<as[i].ip, p.port>>
    BY <1>2, <2>1 DEF Places
  <2>3. \A x : x \in {<<a.ip, p.port>> : a \in ToSet(as)} <=>
                 \E i \in 1 .. Len(as) : x = <<as[i].ip, p.port>>
    BY <1>1
  <2>. QED  BY <2>2, <2>3
<1>. QED  BY <1>3, <1>4

LEMMA FlattenPlaces ==
  ASSUME NEW n \in Nat, NEW ss, ss = [i \in 1 .. n |-> ss[i]], \A i \in 1 .. n : IsList(ss[i])
  PROVE  /\ IsList(FlattenSeq(ss))
         /\ \A x : x \in Places(FlattenSeq(ss)) <=> \E i \in 1 .. n : x \in Places(ss[i])
<1>. DEFINE E == UNION {ToSet(ss[i]) : i \in 1 .. n}
<1>1. \A i \in 1 .. n : ss[i] \in Seq(E)
  <2>1. \A i \in 1 .. n : ToSet(ss[i]) \subseteq E
    OBVIOUS
  <2>. HIDE DEF E
  <2>. QED  BY <2>1, ListIn
<1>2. ss \in Seq(Seq(E)) /\ Len(ss) = n
  <2>. HIDE DEF E
  <2>1. ss \in [1 .. n -> Seq(E)]
    BY <1>1
  <2>. QED  BY <2>1
<1>3. FlattenSeq(ss) \in Seq(E) /\ ToSet(FlattenSeq(ss)) = UNION {ToSet(ss[i]) : i \in 1 .. n}
  <2>. HIDE DEF E
  <2>. QED  BY <1>1, <1>2, FlattenElements
<1>. HIDE DEF E
<1>. QED  BY <1>3, IsListOfSeq DEF Places

LEMMA SubsetElements ==
  ASSUME NEW s, IsList(s.addresses), IsList(s.ports), NEW portName
  PROVE  /\ IsList(EndpointsOfSubset(s, portName))
         /\ Places(EndpointsOfSubset(s, portName)) = PortPlaces(s, portName)
<1>. DEFINE n == Len(s.ports)
            Of(q) == q.tcp /\ portName \in {"", q.name}
            At(q) == {<<a.ip, q.port>> : a \in ToSet(s.addresses)}
            ss == [i \in 1 .. n |->
                     IF Of(s.ports[i]) THEN EndpointsOfPort(s.addresses, s.ports[i]) ELSE <<>>]
            l == EndpointsOfSubset(s, portName)
<1>1. n \in Nat /\ ToSet(s.ports) = {s.ports[i] : i \in 1 .. n}
  BY Listed
<1>2. l = FlattenSeq(ss)
  BY DEF EndpointsOfSubset
<1>3. /\ ss = [i \in 1 .. n |-> ss[i]]
      /\ \A i \in 1 .. n :
           IF Of(s.ports[i]) THEN ss[i] = EndpointsOfPort(s.addresses, s.ports[i]) ELSE ss[i] = <<>>
  OBVIOUS
<1>. HIDE DEF n, ss, Of, l
<1>4. ASSUME NEW i \in 1 .. n
      PROVE  IsList(ss[i]) /\ Places(ss[i]) = IF Of(s.ports[i]) THEN At(s.ports[i]) ELSE {}
  <2>1. CASE Of(s.ports[i])
    <3>1. ss[i] = EndpointsOfPort(s.addresses, s.ports[i])
      BY <1>3, <2>1
    <3>2. IsList(ss[i]) /\ Places(ss[i]) = At(s.ports[i])
      BY <3>1, PortElements
    <3>. QED  BY <2>1, <3>2
  <2>2. CASE ~Of(s.ports[i])
    <3>1. ss[i] = <<>>
      BY <1>3, <2>2
    <3>2. IsList(<<>>) /\ Places(<<>>) = {}
      BY DEF Places, ToSet, IsList
    <3>. QED  BY <2>2, <3>1, <3>2
  <2>. QED  BY <2>1, <2>2
<1>5. IsList(l) /\ \A x : x \in Places(l) <=> \E i \in 1 .. n : x \in Places(ss[i])
  <2>. HIDE DEF At
  <2>. QED  BY <1>1, <1>2, <1>3, <1>4, FlattenPlaces
<1>6. \A x : x \in Places(l) <=> \E q \in ToSet(s.ports) : Of(q) /\ x \in At(q)
  <2>. HIDE DEF At
  <2>. QED  BY <1>1, <1>4, <1>5
<1>7. Places(l) = PortPlaces(s, portName)
  <2>1. \A x : x \in PortPlaces(s, portName) <=>
          \E a \in ToSet(s.addresses) : \E q \in ToSet(s.ports) : Of(q) /\ x = <<a.ip, q.port>>
    BY DEF PortPlaces, Of
  <2>2. \A x : x \in PortPlaces(s, portName) <=> x \in Places(l)
    BY <1>6, <2>1
  <2>. QED  BY <2>2
<1>. QED  BY <1>5, <1>7 DEF l

LEMMA SubsetsElements ==
  ASSUME NEW subsets, Lists(subsets), NEW portName
  PROVE  /\ IsList(AllEndpoints(subsets, portName))
         /\ Places(AllEndpoints(subsets, portName)) = ByPort(subsets, portName)
<1>. DEFINE n == Len(subsets)
            ss == [i \in 1 .. n |-> EndpointsOfSubset(subsets[i], portName)]
            l == AllEndpoints(subsets, portName)
<1>1. n \in Nat /\ ToSet(subsets) = {subsets[i] : i \in 1 .. n}
  BY Listed DEF Lists
<1>2. l = FlattenSeq(ss)
  BY DEF AllEndpoints
<1>3. /\ ss = [i \in 1 .. n |-> ss[i]]
      /\ \A i \in 1 .. n : ss[i] = EndpointsOfSubset(subsets[i], portName)
  OBVIOUS
<1>. HIDE DEF n, ss, l
<1>4. ASSUME NEW i \in 1 .. n
      PROVE  IsList(ss[i]) /\ Places(ss[i]) = PortPlaces(subsets[i], portName)
  <2>1. IsList(subsets[i].addresses) /\ IsList(subsets[i].ports)
    BY <1>1 DEF Lists
  <2>. QED  BY <1>3, <2>1, SubsetElements
<1>5. IsList(l) /\ \A x : x \in Places(l) <=> \E i \in 1 .. n : x \in Places(ss[i])
  BY <1>1, <1>2, <1>3, <1>4, FlattenPlaces
<1>6. \A x : x \in Places(l) <=> \E s \in ToSet(subsets) : x \in PortPlaces(s, portName)
  BY <1>1, <1>4, <1>5
<1>7. Places(l) = ByPort(subsets, portName)
  BY <1>6 DEF ByPort
<1>. QED  BY <1>5, <1>7 DEF l

(* getEndpoints leaves no address and port of the subsets out and has none *)
(* twice.                                                                  *)
LEMMA GetEndpoints ==
  ASSUME NEW key, endpoints[key] # None => Lists(endpoints[key]), NEW portName
  PROVE  /\ OnceEach(getEndpoints(key, portName))
         /\ Places(getEndpoints(key, portName)) =
              IF endpoints[key] = None THEN {} ELSE ByPort(endpoints[key], portName)
<1>1. CASE endpoints[key] = None
  <2>1. getEndpoints(key, portName) = <<>>
    BY <1>1 DEF getEndpoints
  <2>2. IsList(<<>>) /\ OnceEach(<<>>) /\ Places(<<>>) = {}
    BY DEF IsList, OnceEach, Places, ToSet
  <2>. QED  BY <1>1, <2>1, <2>2
<1>2. CASE endpoints[key] # None
  <2>. DEFINE all == AllEndpoints(endpoints[key], portName)
              l == FirstOfEach(all)
  <2>1. IsList(all) /\ Places(all) = ByPort(endpoints[key], portName)
    BY <1>2, SubsetsElements
  <2>2. all \in Seq(ToSet(all))
    BY <2>1 DEF IsList
  <2>. HIDE DEF all
  <2>3. /\ l \in Seq(ToSet(all)) /\ ToSet(l) \subseteq ToSet(all)
        /\ \A e \in ToSet(all) : \E d \in ToSet(l) : SameServer(d, e)
        /\ \A i, j \in 1 .. Len(l) : SameServer(l[i], l[j]) => i = j
    BY <2>2, FirstOfEachElements
  <2>. HIDE DEF l
  <2>4. OnceEach(l)
    BY <2>3, IsListOfSeq DEF OnceEach
  <2>5. Places(l) = Places(all)
    <3>1. \A d, e : SameServer(d, e) => <<d.Address, d.Port>> = <<e.Address, e.Port>>
      BY DEF SameServer
    <3>. QED  BY <2>3, <3>1 DEF Places
  <2>6. getEndpoints(key, portName) = l
    BY <1>2 DEF getEndpoints, l, all
  <2>. QED  BY <1>2, <2>1, <2>4, <2>5, <2>6
<1>. QED  BY <1>1, <1>2

(* What a Service and its Endpoints object hold. *)
Held(key) ==
  /\ services[key] # None => IsList(services[key].ports)
  /\ endpoints[key] # None => Lists(endpoints[key])

(* serviceEndpoints finds the servers of a path, none of them twice. *)
LEMMA ServiceEndpoints ==
  ASSUME NEW ns, NEW p, Held(<<ns, p.svc>>)
  PROVE  /\ OnceEach(serviceEndpoints(<<ns, p.svc>>, p.port))
         /\ Places(serviceEndpoints(<<ns, p.svc>>, p.port)) = Servers(ns, p)
<1>. DEFINE key == <<ns, p.svc>>
            svc == services[key]
            l == serviceEndpoints(key, p.port)
            Matching == {q \in 1 .. Len(svc.ports) : PortMatches(svc.ports[q], p.port)}
<1>1. /\ IsList(<<>>) /\ OnceEach(<<>>) /\ Places(<<>>) = {}
  BY DEF IsList, OnceEach, Places, ToSet
<1>2. CASE svc = None
  BY <1>1, <1>2 DEF serviceEndpoints, Servers
<1>3. CASE svc # None /\ svc.external # None
  <2>1. CASE p.port \in PortNumbers /\ Resolves(svc.external)
    <3>. DEFINE e == [Address |-> svc.external, Port |-> p.port, Target |-> None]
    <3>1. l = <<e>> /\ Servers(ns, p) = {<<svc.external, p.port>>}
      BY <1>3, <2>1 DEF serviceEndpoints, Servers
    <3>2. ToSet(<<e>>) = {e} /\ Len(<<e>>) = 1
      BY DEF ToSet
    <3>3. OnceEach(<<e>>)
      BY <3>2 DEF OnceEach, IsList
    <3>4. Places(<<e>>) = {<<svc.external, p.port>>}
      BY <3>2 DEF Places
    <3>. QED  BY <3>1, <3>3, <3>4
  <2>2. CASE ~(p.port \in PortNumbers /\ Resolves(svc.external))
    BY <1>1, <1>3, <2>2 DEF serviceEndpoints, Servers
  <2>. QED  BY <2>1, <2>2
<1>4. CASE svc # None /\ svc.external = None
  <2>1. Len(svc.ports) \in Nat /\ ToSet(svc.ports) = {svc.ports[i] : i \in 1 .. Len(svc.ports)}
    BY <1>4, Listed DEF Held
  <2>2. CASE Matching = {}
    <3>1. l = <<>>
      BY <1>4, <2>2 DEF serviceEndpoints, SelectInSeq
    <3>2. Servers(ns, p) = {}
      BY <1>4, <2>1, <2>2 DEF Servers
    <3>. QED  BY <1>1, <3>1, <3>2
  <2>3. CASE Matching # {}
    <3>. DEFINE i == Min(Matching)
    <3>1. Matching \in SUBSET Nat
      OBVIOUS
    <3>2. i \in Matching /\ \A y \in Matching : i <= y
      <4>. HIDE DEF Matching
      <4>. QED  BY <2>3, <3>1, MinIsLeast
    <3>3. l = getEndpoints(key, svc.ports[i].name)
      <4>1. i # 0
        BY <2>1, <3>2
      <4>. QED  BY <1>4, <2>3, <4>1 DEF serviceEndpoints, SelectInSeq
    <3>. HIDE DEF i
    <3>4. i = CHOOSE q \in 1 .. Len(svc.ports) :
                /\ PortMatches(svc.ports[q], p.port)
                /\ \A m \in 1 .. q - 1 : ~PortMatches(svc.ports[m], p.port)
      <4>. DEFINE First(q) == /\ PortMatches(svc.ports[q], p.port)
                              /\ \A m \in 1 .. q - 1 : ~PortMatches(svc.ports[m], p.port)
      <4>1. First(i) /\ i \in 1 .. Len(svc.ports)
        BY <2>1, <3>2
      <4>2. ASSUME NEW q \in 1 .. Len(svc.ports), First(q) PROVE q = i
        <5>1. i <= q
          BY <3>2, <4>2
        <5>2. ~(i < q)
          BY <2>1, <3>2, <4>1, <4>2
        <5>. QED  BY <3>2, <5>1, <5>2
      <4>. HIDE DEF First
      <4>3. i = CHOOSE q \in 1 .. Len(svc.ports) : First(q)
        BY <4>1, <4>2
      <4>. QED  BY <4>3 DEF First
    <3>5. ~\A q \in ToSet(svc.ports) : ~PortMatches(q, p.port)
      BY <2>1, <3>2
    <3>6. Servers(ns, p) = IF endpoints[key] = None THEN {}
                           ELSE ByPort(endpoints[key], svc.ports[i].name)
      BY <1>4, <3>4, <3>5 DEF Servers
    <3>. QED  BY <3>3, <3>6, GetEndpoints DEF Held
  <2>. QED  BY <2>2, <2>3
<1>. QED  BY <1>2, <1>3, <1>4

---------------------------------------------------------------------------
(* The inductive invariant. *)

(* The ingresses that are there. *)
Present == {n \in Names : ingresses[n] # None}
GenTypes ==
  /\ ingresses \in [Names -> [spec : IngressSpecs, created : Nat] \cup {None}]
  /\ services \in [SvcKeys -> ServiceSpecs \cup {None}]
  /\ endpoints \in [SvcKeys -> EndpointSpecs \cup {None}]
  /\ now \in Nat

(* What a configuration says of a host that has rule r. *)
Entry(r, h) ==
  <<h, upstreamName(r), Upstream(r).Service, {Server(e) : e \in ToSet(Upstream(r).Endpoints)}>>
RuleOf(n, h) ==
  [ns |-> ingresses[n].spec.ns, host |-> h, paths |-> FirstRule(n, h).paths]

ServiceOf(r) == <<r.ns, r.paths[1].svc>>

(* Every host has an owner whose rule names a known service, and the       *)
(* configuration says of every host what the rule of its owner says.       *)
SaysOf(config, own) ==
  /\ \A h \in Hosts : own[h] \in Owners(h) /\ Held(ServiceOf(RuleOf(own[h], h)))
  /\ Content(config) = {Entry(RuleOf(own[h], h), h) : h \in Hosts}
GenInv ==
  /\ GenTypes
  /\ WellFormed(running)
  /\ synced => \E own \in [Hosts -> Names] : SaysOf(running, own)

---------------------------------------------------------------------------
(* The rules of the ingresses. *)

LEMMA PresentSpec ==
  ASSUME GenTypes, NEW n \in Present
  PROVE  /\ ingresses[n].spec \in IngressSpecs /\ ingresses[n].created \in Nat
         /\ IsList(ingresses[n].spec.rules)
         /\ \A r \in ToSet(ingresses[n].spec.rules) : IsList(r.paths)
<1>1. ingresses[n] \in [spec : IngressSpecs, created : Nat]
  BY DEF GenTypes, Present
<1>. QED  BY <1>1, GenAssumption

LEMMA PresentFinite == IsFiniteSet(Present)
BY GenAssumption, FS_Subset DEF Present

LEMMA ListedIngresses ==
  ASSUME NEW list \in ListIngresses
  PROVE  /\ Len(list) \in Nat
         /\ \A i \in 1 .. Len(list) : list[i] \in Present
         /\ \A n \in Present : \E i \in 1 .. Len(list) : n = list[i]
         /\ \A i, j \in 1 .. Len(list) :
              i < j => ingresses[list[i]].created <= ingresses[list[j]].created
<1>1. list \in SetToSeqs(Present)
  BY DEF ListIngresses, Present
<1>2. DOMAIN list = 1 .. Len(list) /\ Len(list) \in Nat /\ ToSet(list) = Present
  BY <1>1, PresentFinite, Orders
<1>3. \A i, j \in 1 .. Len(list) :
        i < j => ingresses[list[i]].created <= ingresses[list[j]].created
  BY DEF ListIngresses
<1>. QED  BY <1>2, <1>3 DEF ToSet

LEMMA VisitsAre ==
  ASSUME GenTypes, NEW list \in ListIngresses
  PROVE  /\ Visits(list) \subseteq Nat \X Nat
         /\ \A i, j : <<i, j>> \in Visits(list) <=>
              i \in 1 .. Len(list) /\ j \in 1 .. Len(ingresses[list[i]].spec.rules)
<1>1. \A i \in 1 .. Len(list) : Len(ingresses[list[i]].spec.rules) \in Nat
  BY ListedIngresses, PresentSpec, Listed
<1>2. Len(list) \in Nat
  BY ListedIngresses
<1>. DEFINE R(i) == Len(ingresses[list[i]].spec.rules)
<1>3. Visits(list) = UNION {{i} \X (1 .. R(i)) : i \in 1 .. Len(list)}
  BY DEF Visits
<1>. HIDE DEF R
<1>4. \A i \in 1 .. Len(list) : R(i) \in Nat
  BY <1>1 DEF R
<1>5. Visits(list) \subseteq Nat \X Nat
  BY <1>2, <1>3, <1>4
<1>6. \A i, j : <<i, j>> \in Visits(list) <=> i \in 1 .. Len(list) /\ j \in 1 .. R(i)
  BY <1>3
<1>. QED  BY <1>5, <1>6 DEF R

(* A rule that is visited belongs to an ingress that is there. *)
LEMMA RuleVisited ==
  ASSUME GenTypes, NEW list \in ListIngresses, NEW v \in Visits(list)
  PROVE  /\ v = <<v[1], v[2]>> /\ v[1] \in 1 .. Len(list) /\ v[1] \in Nat /\ v[2] \in Nat
         /\ v[2] \in 1 .. Len(ingresses[list[v[1]]].spec.rules)
         /\ list[v[1]] \in Present
         /\ ingresses[list[v[1]]].spec.rules[v[2]] \in ToSet(ingresses[list[v[1]]].spec.rules)
         /\ Rule(list, v).ns = ingresses[list[v[1]]].spec.ns
         /\ Rule(list, v).host = ingresses[list[v[1]]].spec.rules[v[2]].host
         /\ Rule(list, v).paths = ingresses[list[v[1]]].spec.rules[v[2]].paths
<1>1. v = <<v[1], v[2]>> /\ v[1] \in Nat /\ v[2] \in Nat
  BY VisitsAre
<1>2. v[1] \in 1 .. Len(list) /\ v[2] \in 1 .. Len(ingresses[list[v[1]]].spec.rules)
  BY <1>1, VisitsAre
<1>3. list[v[1]] \in Present
  BY <1>2, ListedIngresses
<1>4. ingresses[list[v[1]]].spec.rules[v[2]] \in ToSet(ingresses[list[v[1]]].spec.rules)
  BY <1>2, <1>3, PresentSpec, Listed
<1>. QED  BY <1>1, <1>2, <1>3, <1>4 DEF Rule

LEMMA HostsVisited ==
  ASSUME GenTypes, NEW list \in ListIngresses
  PROVE  {Rule(list, v).host : v \in Visits(list)} \ {""} = Hosts
<1>1. \A x : x \in Hosts <=>
        x # "" /\ \E n \in Present : \E r \in ToSet(ingresses[n].spec.rules) : x = r.host
  <2>1. ASSUME NEW x \in Hosts
        PROVE  x # "" /\ \E n \in Present : \E r \in ToSet(ingresses[n].spec.rules) : x = r.host
    BY DEF Hosts, Present
  <2>2. ASSUME NEW n \in Present, NEW r \in ToSet(ingresses[n].spec.rules), r.host # ""
        PROVE  r.host \in Hosts
    <3>. DEFINE H(m) == {q.host : q \in ToSet(ingresses[m].spec.rules)}
    <3>1. r.host \in H(n)
      OBVIOUS
    <3>2. H(n) \in {H(m) : m \in Present}
      <4>. HIDE DEF H
      <4>. QED  OBVIOUS
    <3>3. Hosts = (UNION {H(m) : m \in Present}) \ {""}
      BY DEF Hosts, Present
    <3>. HIDE DEF H
    <3>. QED  BY <2>2, <3>1, <3>2, <3>3, Zenon
  <2>. QED  BY <2>1, <2>2
<1>2. ASSUME NEW v \in Visits(list), Rule(list, v).host # "" PROVE Rule(list, v).host \in Hosts
  <2>. DEFINE n == list[v[1]]
              r == ingresses[n].spec.rules[v[2]]
  <2>1. n \in Present /\ r \in ToSet(ingresses[n].spec.rules) /\ Rule(list, v).host = r.host
    BY RuleVisited
  <2>. HIDE DEF n, r
  <2>. QED  BY <1>1, <1>2, <2>1
<1>3. ASSUME NEW h \in Hosts PROVE \E v \in Visits(list) : Rule(list, v).host = h
  <2>1. PICK n \in Present : \E r \in ToSet(ingresses[n].spec.rules) : h = r.host
    BY <1>1
  <2>2. PICK j \in 1 .. Len(ingresses[n].spec.rules) : ingresses[n].spec.rules[j].host = h
    BY <2>1, PresentSpec, Listed
  <2>3. PICK i \in 1 .. Len(list) : list[i] = n
    BY ListedIngresses
  <2>4. <<i, j>> \in Visits(list)
    BY <2>2, <2>3, VisitsAre
  <2>. QED  BY <2>2, <2>3, <2>4 DEF Rule
<1>. QED  BY <1>1, <1>2, <1>3

(* The rule that serves a host is the one of an owner (controller.go:196). *)
LEMMA ServingRuleIsOwners ==
  ASSUME GenTypes, NEW list \in ListIngresses, NEW h \in Hosts
  PROVE  /\ \E v \in Visits(list) : ServingRule(list, h) = Rule(list, v)
         /\ \E n \in Owners(h) : ServingRule(list, h) = RuleOf(n, h)
<1>. DEFINE vs == {v \in Visits(list) : Rule(list, v).host = h}
            f == FirstOf(vs)
            n == list[f[1]]
            rules == ingresses[n].spec.rules
<1>1. f \in vs /\ \A w \in vs \ {f} : Before(f, w)
  <2>1. vs # {}
    BY HostsVisited
  <2>2. vs \in SUBSET (Nat \X Nat)
    BY VisitsAre
  <2>. HIDE DEF vs
  <2>. QED  BY <2>1, <2>2, FirstVisit
<1>2. ServingRule(list, h) = Rule(list, f)
  BY DEF ServingRule
<1>. HIDE DEF f
<1>3. /\ f[1] \in 1 .. Len(list) /\ f[1] \in Nat /\ f[2] \in Nat /\ f[2] \in 1 .. Len(rules)
      /\ n \in Present /\ rules[f[2]] \in ToSet(rules)
      /\ Rule(list, f).ns = ingresses[n].spec.ns
      /\ Rule(list, f).host = rules[f[2]].host /\ Rule(list, f).host = h
      /\ Rule(list, f).paths = rules[f[2]].paths
  BY <1>1, RuleVisited
<1>4. HasHost(n, h)
  BY <1>3 DEF HasHost, Present
<1>5. ASSUME NEW m \in Names, HasHost(m, h)
      PROVE  ingresses[n].created <= ingresses[m].created
  <2>1. m \in Present /\ \E r \in ToSet(ingresses[m].spec.rules) : r.host = h
    BY <1>5 DEF HasHost, Present
  <2>2. PICK j \in 1 .. Len(ingresses[m].spec.rules) : ingresses[m].spec.rules[j].host = h
    BY <2>1, PresentSpec, Listed
  <2>3. PICK i \in 1 .. Len(list) : list[i] = m
    BY <2>1, ListedIngresses
  <2>4. <<i, j>> \in vs
    <3>1. <<i, j>> \in Visits(list)
      BY <2>2, <2>3, VisitsAre
    <3>. QED  BY <2>2, <2>3, <3>1 DEF Rule
  <2>5. f[1] <= i /\ i \in Nat
    BY <1>1, <1>3, <2>4, ListedIngresses DEF Before
  <2>6. CASE f[1] < i
    BY <1>3, <2>3, <2>6, ListedIngresses
  <2>7. CASE f[1] = i
    BY <1>3, <2>3, <2>7, PresentSpec
  <2>. QED  BY <1>3, <2>5, <2>6, <2>7
<1>6. n \in Owners(h)
  BY <1>3, <1>4, <1>5 DEF Owners, Present
<1>7. FirstRule(n, h) = rules[f[2]]
  <2>. DEFINE First(i) == rules[i].host = h /\ \A j \in 1 .. i - 1 : rules[j].host # h
  <2>0. Len(rules) \in Nat
    BY <1>3, PresentSpec, Listed
  <2>1. First(f[2])
    <3>1. ASSUME NEW j \in 1 .. f[2] - 1, rules[j].host = h PROVE FALSE
      <4>1. <<f[1], j>> \in vs
        <5>1. j \in 1 .. Len(rules)
          BY <1>3, <2>0
        <5>2. <<f[1], j>> \in Visits(list)
          BY <1>3, <5>1, VisitsAre
        <5>. QED  BY <3>1, <5>2 DEF Rule
      <4>2. <<f[1], j>> # f /\ j < f[2]
        BY <1>3
      <4>. QED  BY <1>1, <1>3, <4>1, <4>2 DEF Before
    <3>. QED  BY <1>3, <3>1
  <2>2. ASSUME NEW i \in 1 .. Len(rules), First(i) PROVE i = f[2]
    <3>. DEFINE k == f[2]
    <3>0. i \in 1 .. Len(rules) /\ k \in 1 .. Len(rules) /\ Len(rules) \in Nat
      BY <1>3, <2>0
    <3>1. First(i) /\ First(k)
      BY <2>1, <2>2
    <3>. HIDE DEF rules, k
    <3>2. ASSUME i < k PROVE FALSE
      <4>1. i \in 1 .. k - 1
        BY <3>0, <3>2
      <4>. QED  BY <3>1, <4>1
    <3>3. ASSUME k < i PROVE FALSE
      <4>1. k \in 1 .. i - 1
        BY <3>0, <3>3
      <4>. QED  BY <3>1, <4>1
    <3>4. i = k
      <4>1. i \in Nat /\ k \in Nat
        BY <3>0
      <4>. HIDE DEF First
      <4>. QED  BY <4>1, <3>2, <3>3
    <3>. QED  BY <3>4 DEF k
  <2>3. f[2] = CHOOSE i \in 1 .. Len(rules) : First(i)
    <3>. HIDE DEF First
    <3>. QED  BY <1>3, <2>1, <2>2
  <2>. QED  BY <2>3 DEF FirstRule
<1>8. ServingRule(list, h) = RuleOf(n, h)
  BY <1>2, <1>3, <1>7 DEF Rule, RuleOf
<1>. QED  BY <1>1, <1>2, <1>6, <1>8

LEMMA ImageFinite ==
  ASSUME NEW S, IsFiniteSet(S), NEW f
  PROVE  IsFiniteSet({f[x] : x \in S})
<1>. DEFINE T == {f[x] : x \in S}
            g == [x \in S |-> f[x]]
<1>1. g \in Surjection(S, T)
  BY DEF Surjection
<1>. HIDE DEF g, T
<1>2. IsFiniteSet(T)
  BY <1>1, FS_Surjection
<1>. QED  BY <1>2 DEF T

LEMMA HostsFinite == GenTypes => IsFiniteSet(Hosts)
<1>. SUFFICES ASSUME GenTypes PROVE IsFiniteSet(Hosts)
  OBVIOUS
<1>. DEFINE H == [n \in Present |-> {r.host : r \in ToSet(ingresses[n].spec.rules)}]
            HH == {H[n] : n \in Present}
<1>1. ASSUME NEW n \in Present PROVE IsFiniteSet(H[n])
  <2>. DEFINE rules == ingresses[n].spec.rules
              f == [i \in 1 .. Len(rules) |-> rules[i].host]
              F == {f[i] : i \in 1 .. Len(rules)}
  <2>1. Len(rules) \in Nat /\ ToSet(rules) = {rules[i] : i \in 1 .. Len(rules)}
    BY PresentSpec, Listed
  <2>2. IsFiniteSet(1 .. Len(rules))
    BY <2>1, Upto
  <2>3. H[n] = F
    BY <2>1
  <2>4. IsFiniteSet(F)
    <3>. HIDE DEF f
    <3>. QED  BY <2>2, ImageFinite
  <2>. QED  BY <2>3, <2>4
<1>2. IsFiniteSet(HH)
  <2>. HIDE DEF H
  <2>. QED  BY PresentFinite, ImageFinite
<1>3. IsFiniteSet(UNION HH)
  <2>1. \A T \in HH : IsFiniteSet(T)
    BY <1>1
  <2>. HIDE DEF HH
  <2>. QED  BY <1>2, <2>1, FS_UNION
<1>4. Hosts \subseteq UNION HH
  <2>1. \A n \in Present : H[n] = {r.host : r \in ToSet(ingresses[n].spec.rules)}
    OBVIOUS
  <2>2. HH = {{r.host : r \in ToSet(ingresses[n].spec.rules)} : n \in Present}
    OBVIOUS
  <2>. QED  BY <2>2 DEF Hosts, Present
<1>. HIDE DEF HH
<1>. QED  BY <1>3, <1>4, FS_Subset

(* The path of a rule names a service that the model knows. *)
LEMMA FirstPath ==
  ASSUME GenTypes, NEW list \in ListIngresses, NEW v \in Visits(list),
         Rule(list, v).paths # <<>>
  PROVE  /\ \E s \in IngressSpecs :
              Rule(list, v).ns = s.ns /\ Rule(list, v).paths[1] \in Paths(s)
         /\ Held(<<Rule(list, v).ns, Rule(list, v).paths[1].svc>>)
<1>. DEFINE n == list[v[1]]
            s == ingresses[n].spec
            r == s.rules[v[2]]
            p == r.paths[1]
            key == <<s.ns, p.svc>>
<1>1. /\ n \in Present /\ r \in ToSet(s.rules)
      /\ Rule(list, v).ns = s.ns /\ Rule(list, v).paths = r.paths
  BY RuleVisited
<1>2. s \in IngressSpecs /\ IsList(r.paths)
  BY <1>1, PresentSpec
<1>3. p \in ToSet(r.paths)
  <2>1. Len(r.paths) \in Nat /\ ToSet(r.paths) = {r.paths[i] : i \in 1 .. Len(r.paths)}
    BY <1>2, Listed
  <2>2. Len(r.paths) # 0
    BY <1>1, <1>2 DEF IsList
  <2>. HIDE DEF r
  <2>3. 1 \in 1 .. Len(r.paths)
    BY <2>1, <2>2
  <2>. QED  BY <2>1, <2>3
<1>4. p \in Paths(s)
  <2>. HIDE DEF s, r, p
  <2>. QED  BY <1>1, <1>3 DEF Paths
<1>5. key \in SvcKeys
  <2>. HIDE DEF s, p
  <2>. QED  BY <1>2, <1>4 DEF SvcKeys
<1>6. Held(key)
  <2>. HIDE DEF key
  <2>1. services[key] \in ServiceSpecs \cup {None} /\ endpoints[key] \in EndpointSpecs \cup {None}
    BY <1>5 DEF GenTypes
  <2>. QED  BY <2>1, GenAssumption DEF Held, Lists
<1>. HIDE DEF s, r
<1>. QED  BY <1>1, <1>2, <1>4, <1>6

(* When no two services have the same name, the upstream that is left      *)
(* under the name of a rule is that rule's (controller.go:162-170).        *)
LEMMA UpstreamAgrees ==
  ASSUME NamesDistinct(IngressSpecs), GenTypes, NEW list \in ListIngresses,
         ~Panics(list), NEW h \in Hosts
  PROVE  createUpstreams(list)[upstreamName(ServingRule(list, h))]
           = Upstream(ServingRule(list, h))
<1>1. PICK v \in Visits(list) : ServingRule(list, h) = Rule(list, v)
  BY ServingRuleIsOwners
<1>. DEFINE u == upstreamName(Rule(list, v))
            vs == {x \in Visits(list) : upstreamName(Rule(list, x)) = u}
            w == LastOf(vs)
<1>2. w \in vs
  <2>. DEFINE len == [i \in 1 .. Len(list) |-> Len(ingresses[list[i]].spec.rules)]
  <2>1. vs # {} /\ vs \in SUBSET (Nat \X Nat) /\ Len(list) \in Nat
    BY VisitsAre, ListedIngresses
  <2>2. \A x \in Visits(list) :
          /\ x[1] <= Len(list) /\ x[1] \in 1 .. Len(list)
          /\ x[2] <= Len(ingresses[list[x[1]]].spec.rules)
          /\ Len(ingresses[list[x[1]]].spec.rules) \in Nat
    <3>1. \A x \in Visits(list) :
            /\ x[1] \in 1 .. Len(list) /\ list[x[1]] \in Present
            /\ x[2] \in 1 .. Len(ingresses[list[x[1]]].spec.rules)
      BY RuleVisited
    <3>2. \A n \in Present : Len(ingresses[n].spec.rules) \in Nat
      BY PresentSpec, Listed
    <3>. QED  BY <2>1, <3>1, <3>2
  <2>3. \A x \in vs : x[1] <= Len(list) /\ len[x[1]] \in Nat /\ x[2] <= len[x[1]]
    BY <2>2
  <2>. HIDE DEF vs, len
  <2>. QED  BY <2>1, <2>3, LastVisit
<1>3. createUpstreams(list)[u] = Upstream(Rule(list, w))
  <2>1. u \in {upstreamName(Rule(list, x)) : x \in Visits(list)}
    OBVIOUS
  <2>. HIDE DEF u
  <2>. QED  BY <2>1 DEF createUpstreams
<1>4. w \in Visits(list) /\ upstreamName(Rule(list, w)) = u
  BY <1>2
<1>. HIDE DEF w, vs
<1>5. Upstream(Rule(list, w)) = Upstream(Rule(list, v))
  <2>. DEFINE a == Rule(list, w)
              b == Rule(list, v)
  <2>1. /\ \E s \in IngressSpecs : a.ns = s.ns /\ a.paths[1] \in Paths(s)
        /\ \E s \in IngressSpecs : b.ns = s.ns /\ b.paths[1] \in Paths(s)
    BY <1>4, FirstPath DEF Panics
  <2>2. upstreamName(a) = upstreamName(b)
    BY <1>4
  <2>. HIDE DEF a, b
  <2>3. a.ns = b.ns /\ a.paths[1].svc = b.paths[1].svc /\ a.paths[1].port = b.paths[1].port
    <3>1. PICK s1 \in IngressSpecs : a.ns = s1.ns /\ a.paths[1] \in Paths(s1)
      BY <2>1
    <3>2. PICK s2 \in IngressSpecs : b.ns = s2.ns /\ b.paths[1] \in Paths(s2)
      BY <2>1
    <3>. DEFINE p1 == a.paths[1]
                p2 == b.paths[1]
    <3>3. a.ns \o p1.svc \o <<p1.port>> = b.ns \o p2.svc \o <<p2.port>>
      BY <2>2, Zenon DEF upstreamName
    <3>4. s1.ns \o p1.svc \o <<p1.port>> = s2.ns \o p2.svc \o <<p2.port>>
      BY <3>1, <3>2, <3>3, Zenon
    <3>. HIDE DEF p1, p2
    <3>5. p1 \in Paths(s1) /\ p2 \in Paths(s2)
      BY <3>1, <3>2 DEF p1, p2
    <3>6. s1.ns = s2.ns /\ p1.svc = p2.svc /\ p1.port = p2.port
      BY <3>4, <3>5, Zenon DEF NamesDistinct
    <3>. QED  BY <3>1, <3>2, <3>6 DEF p1, p2
  <2>4. Upstream(a) = Upstream(b)
    BY <2>2, <2>3 DEF Upstream
  <2>. QED  BY <2>4 DEF a, b
<1>. QED  BY <1>1, <1>3, <1>5

LEMMA UpstreamOnceEach ==
  ASSUME NEW r, Held(ServiceOf(r))
  PROVE  /\ OnceEach(Upstream(r).Endpoints)
         /\ Places(Upstream(r).Endpoints) = Servers(r.ns, r.paths[1])
<1>1. Upstream(r).Endpoints = serviceEndpoints(<<r.ns, r.paths[1].svc>>, r.paths[1].port)
  BY DEF Upstream
<1>2. Held(<<r.ns, r.paths[1].svc>>)
  BY DEF ServiceOf
<1>. QED  BY <1>1, <1>2, ServiceEndpoints

(* What a sync generates has no host and no server twice and says of every *)
(* host what an owner's rule says, in whatever order (controller.go:88).   *)
LEMMA Generated ==
  ASSUME NamesDistinct(IngressSpecs), GenTypes, NEW list \in ListIngresses, ~Panics(list),
         NEW g \in getConfiguration(list)
  PROVE  WellFormed(g) /\ \E own \in [Hosts -> Names] : SaysOf(g, own)
<1>. DEFINE servers == createServers(list, createUpstreams(list))
            serving(h) == ServingRule(list, h)
<1>1. DOMAIN servers = Hosts
  BY HostsVisited DEF createServers
<1>2. \A h \in Hosts : servers[h] = Upstream(serving(h))
  BY <1>1, UpstreamAgrees DEF createServers
<1>3. PICK hs \in SetToSeqs(Hosts) :
        g = [i \in 1 .. Len(hs) |-> [Hostname |-> hs[i], Backend |-> servers[hs[i]]]]
  BY <1>1 DEF getConfiguration
<1>4. /\ Len(hs) \in Nat /\ ToSet(hs) = {hs[i] : i \in 1 .. Len(hs)}
      /\ \A i \in 1 .. Len(hs) : hs[i] \in Hosts
      /\ \A h \in Hosts : \E i \in 1 .. Len(hs) : h = hs[i]
      /\ \A i, j \in 1 .. Len(hs) : hs[i] = hs[j] => i = j
  <2>1. /\ DOMAIN hs = 1 .. Len(hs) /\ Len(hs) \in Nat /\ ToSet(hs) = Hosts
        /\ \A i, j \in 1 .. Len(hs) : hs[i] = hs[j] => i = j
    BY HostsFinite, Orders
  <2>. QED  BY <2>1 DEF ToSet
<1>5. ASSUME NEW h \in Hosts
      PROVE  /\ Held(ServiceOf(serving(h)))
             /\ \E n \in Owners(h) : serving(h) = RuleOf(n, h)
  <2>1. PICK v \in Visits(list) : serving(h) = Rule(list, v)
    BY ServingRuleIsOwners
  <2>2. Rule(list, v).paths # <<>>
    BY DEF Panics
  <2>3. Held(ServiceOf(serving(h)))
    BY <2>1, <2>2, FirstPath DEF ServiceOf
  <2>. QED  BY <2>3, ServingRuleIsOwners
<1>. HIDE DEF servers, serving
<1>6. \A i \in 1 .. Len(hs) :
        /\ g[i].Hostname = hs[i]
        /\ g[i].Backend = Upstream(serving(hs[i]))
  BY <1>2, <1>3, <1>4
<1>7. IsList(g) /\ Len(g) = Len(hs) /\ \A x : x \in ToSet(g) <=> \E i \in 1 .. Len(hs) : x = g[i]
  <2>1. g = [i \in 1 .. Len(hs) |-> g[i]]
    BY <1>3
  <2>. QED  BY <1>4, <2>1, FunctionIsList
<1>8. WellFormed(g)
  <2>1. \A i \in 1 .. Len(g) : OnceEach(g[i].Backend.Endpoints)
    BY <1>4, <1>5, <1>6, <1>7, UpstreamOnceEach
  <2>2. \A i, j \in 1 .. Len(g) : g[i].Hostname = g[j].Hostname => i = j
    BY <1>4, <1>6, <1>7
  <2>. QED  BY <1>7, <2>1, <2>2 DEF WellFormed
<1>. DEFINE own == [h \in Hosts |-> CHOOSE n \in Owners(h) : serving(h) = RuleOf(n, h)]
<1>9. /\ own \in [Hosts -> Names]
      /\ \A h \in Hosts : own[h] \in Owners(h) /\ serving(h) = RuleOf(own[h], h)
  BY <1>5 DEF Owners
<1>. HIDE DEF own
<1>10. Content(g) = {Entry(RuleOf(own[h], h), h) : h \in Hosts}
  <2>1. \A i \in 1 .. Len(hs) : ServiceContent(g[i]) = Entry(serving(hs[i]), hs[i])
    <3>1. \A r : Upstream(r).Name = upstreamName(r)
      BY DEF Upstream
    <3>. QED  BY <1>6, <3>1 DEF ServiceContent, Entry
  <2>2. \A x : x \in Content(g) <=> \E i \in 1 .. Len(hs) : x = ServiceContent(g[i])
    BY <1>7 DEF Content
  <2>3. \A x : x \in Content(g) <=> \E h \in Hosts : x = Entry(RuleOf(own[h], h), h)
    BY <1>4, <1>9, <2>1, <2>2
  <2>. QED  BY <2>3
<1>11. SaysOf(g, own)
  BY <1>5, <1>9, <1>10 DEF SaysOf
<1>. QED  BY <1>8, <1>9, <1>11

---------------------------------------------------------------------------
(* The invariant and the two properties. *)

LEMMA InvInit == Init => GenInv
<1>. SUFFICES ASSUME Init PROVE GenInv
  OBVIOUS
<1>1. GenTypes
  BY DEF Init, GenTypes
<1>2. WellFormed(<<>>)
  BY DEF WellFormed, IsList, ToSet
<1>. QED  BY <1>1, <1>2 DEF Init, GenInv

LEMMA TypesStep == GenTypes /\ [Next]_vars => GenTypes'
<1>. SUFFICES ASSUME GenTypes, [Next]_vars PROVE GenTypes'
  OBVIOUS
<1>. USE DEF GenTypes, Changed
<1>1. CASE UNCHANGED vars
  BY <1>1 DEF vars
<1>2. ASSUME NEW n \in Names, DeleteIngress(n) PROVE GenTypes'
  BY <1>2 DEF DeleteIngress
<1>3. ASSUME NEW n \in Names, NEW spec \in IngressSpecs, PutIngress(n, spec) PROVE GenTypes'
  <2>1. CASE /\ ingresses[n] = None
             /\ \E gap \in 0 .. 1 : now' = now + gap
             /\ ingresses' = [ingresses EXCEPT ![n] = [spec |-> spec, created |-> now']]
    <3>1. now' \in Nat
      BY <2>1
    <3>2. [spec |-> spec, created |-> now'] \in [spec : IngressSpecs, created : Nat]
      BY <3>1
    <3>. QED  BY <1>3, <2>1, <3>1, <3>2 DEF PutIngress
  <2>2. CASE /\ ingresses[n] # None /\ ingresses[n].spec # spec
             /\ ingresses' = [ingresses EXCEPT ![n].spec = spec]
             /\ UNCHANGED now
    <3>1. ingresses[n] \in [spec : IngressSpecs, created : Nat]
      BY <2>2
    <3>2. [ingresses[n] EXCEPT !.spec = spec] \in [spec : IngressSpecs, created : Nat]
      BY <3>1
    <3>3. ingresses' = [ingresses EXCEPT ![n] = [ingresses[n] EXCEPT !.spec = spec]]
      BY <2>2
    <3>. QED  BY <1>3, <2>2, <3>2, <3>3 DEF PutIngress
  <2>. QED  BY <1>3, <2>1, <2>2 DEF PutIngress
<1>4. ASSUME NEW k \in SvcKeys, NEW svc \in ServiceSpecs \cup {None}, PutService(k, svc)
      PROVE  GenTypes'
  BY <1>4 DEF PutService, SvcKeys
<1>5. ASSUME NEW k \in SvcKeys, NEW ss \in EndpointSpecs \cup {None}, PutEndpoints(k, ss)
      PROVE  GenTypes'
  BY <1>5 DEF PutEndpoints, SvcKeys
<1>6. CASE ChangeDNS
  BY <1>6 DEF ChangeDNS
<1>7. CASE syncIngress
  BY <1>7 DEF syncIngress, clusterVars
<1>8. CASE SyncPanics
  BY <1>8 DEF SyncPanics, clusterVars
<1>9. CASE Restart
  BY <1>9 DEF Restart, clusterVars
<1>. QED  BY <1>1, <1>2, <1>3, <1>4, <1>5, <1>6, <1>7, <1>8, <1>9 DEF Next

(* A step that is no sync leaves everything a configuration depends on     *)
(* alone, or the process is no longer in sync after it.                    *)
LEMMA OtherSteps ==
  ASSUME [Next]_vars, ~syncIngress
  PROVE  \/ running' = running /\ UNCHANGED clusterVars /\ synced' = synced
         \/ running' = running /\ synced' = FALSE
         \/ running' = <<>> /\ synced' = FALSE
BY DEF Next, vars, clusterVars, Changed, DeleteIngress, PutIngress, PutService, PutEndpoints,
       ChangeDNS, SyncPanics, Restart

(* A sync leaves a configuration that says of every host what an owner's   *)
(* rule says, and leaves the running one alone when that says the same.    *)
LEMMA SyncStep ==
  ASSUME NamesDistinct(IngressSpecs), GenTypes, WellFormed(running), syncIngress
  PROVE  /\ WellFormed(running') /\ UNCHANGED clusterVars
         /\ \E own \in [Hosts -> Names] :
              /\ \A h \in Hosts : own[h] \in Owners(h) /\ Held(ServiceOf(RuleOf(own[h], h)))
              /\ Content(running') = {Entry(RuleOf(own[h], h), h) : h \in Hosts}
              /\ Content(running') = Content(running) => running' = running
<1>0. PICK list \in ListIngresses :
        /\ ~Panics(list)
        /\ \E generated \in getConfiguration(list) :
             running' = IF Equal(running, generated) THEN running ELSE generated
  BY DEF syncIngress
<1>1. PICK generated \in getConfiguration(list) :
        running' = IF Equal(running, generated) THEN running ELSE generated
  BY <1>0
<1>2. PICK own \in [Hosts -> Names] : SaysOf(generated, own)
  BY <1>0, Generated
<1>3. WellFormed(generated)
  BY <1>0, Generated
<1>4. Equal(running, generated) <=> Content(running) = Content(generated)
  BY <1>3, EqualIsSameContent
<1>5. Content(running') = Content(generated)
  BY <1>1, <1>4
<1>6. WellFormed(running')
  BY <1>1, <1>3
<1>7. Content(running') = Content(running) => running' = running
  BY <1>1, <1>4, <1>5
<1>. QED  BY <1>2, <1>5, <1>6, <1>7 DEF SaysOf, syncIngress

(* What a configuration should say depends on the cluster alone. *)
LEMMA ClusterAlone ==
  ASSUME UNCHANGED clusterVars
  PROVE  /\ Hosts' = Hosts
         /\ \A h : Owners(h)' = Owners(h)
         /\ \A n, h : RuleOf(n, h)' = RuleOf(n, h)
         /\ \A k : Held(k)' <=> Held(k)
         /\ \A r, h : Entry(r, h)' = Entry(r, h)
<1>. USE DEF clusterVars
<1>1. Hosts' = Hosts
  BY DEF Hosts
<1>2. \A h : Owners(h)' = Owners(h)
  BY DEF Owners, HasHost
<1>3. \A n, h : RuleOf(n, h)' = RuleOf(n, h)
  BY DEF RuleOf, FirstRule
<1>4. \A k : Held(k)' <=> Held(k)
  BY DEF Held
<1>5. \A k, p : serviceEndpoints(k, p)' = serviceEndpoints(k, p)
  BY DEF serviceEndpoints, getEndpoints, SelectInSeq, Resolves
<1>6. \A r : Upstream(r)' = Upstream(r)
  BY <1>5 DEF Upstream, upstreamName
<1>7. \A r, h : Entry(r, h)' = Entry(r, h)
  BY <1>6 DEF Entry, upstreamName
<1>. QED  BY <1>1, <1>2, <1>3, <1>4, <1>7

LEMMA InvStep == NamesDistinct(IngressSpecs) /\ GenInv /\ [Next]_vars => GenInv'
<1>. SUFFICES ASSUME NamesDistinct(IngressSpecs), GenInv, [Next]_vars PROVE GenInv'
  OBVIOUS
<1>1. GenTypes'
  BY TypesStep DEF GenInv
<1>2. CASE syncIngress
  <2>1. WellFormed(running')
    BY <1>2, SyncStep DEF GenInv
  <2>2. PICK own \in [Hosts -> Names] :
          /\ \A h \in Hosts : own[h] \in Owners(h) /\ Held(ServiceOf(RuleOf(own[h], h)))
          /\ Content(running') = {Entry(RuleOf(own[h], h), h) : h \in Hosts}
    BY <1>2, SyncStep DEF GenInv
  <2>3. UNCHANGED clusterVars
    BY <1>2, SyncStep DEF GenInv
  <2>4. SaysOf(running, own)'
    BY <2>2, <2>3, ClusterAlone DEF SaysOf, ServiceOf
  <2>. QED  BY <1>1, <2>1, <2>2, <2>3, <2>4, ClusterAlone DEF GenInv
<1>3. CASE ~syncIngress
  <2>1. WellFormed(<<>>)
    BY DEF WellFormed, IsList, ToSet
  <2>2. WellFormed(running')
    BY <1>3, <2>1, OtherSteps DEF GenInv
  <2>3. ASSUME synced' PROVE \E own \in [Hosts' -> Names] : SaysOf(running, own)'
    <3>1. running' = running /\ UNCHANGED clusterVars /\ synced
      BY <1>3, <2>3, OtherSteps
    <3>2. PICK own \in [Hosts -> Names] : SaysOf(running, own)
      BY <3>1 DEF GenInv
    <3>3. SaysOf(running, own)'
      BY <3>1, <3>2, ClusterAlone DEF SaysOf, ServiceOf
    <3>. QED  BY <3>1, <3>2, <3>3, ClusterAlone
  <2>. QED  BY <1>1, <2>2, <2>3 DEF GenInv
<1>. QED  BY <1>2, <1>3

LEMMA SamePlaces ==
  ASSUME NEW k, NEW l, {Server(e) : e \in ToSet(k)} = {Server(e) : e \in ToSet(l)}
  PROVE  Places(k) = Places(l)
<1>1. \A d, e : Server(d) = Server(e) => <<d.Address, d.Port>> = <<e.Address, e.Port>>
  BY DEF Server
<1>2. /\ \A d \in ToSet(k) : \E e \in ToSet(l) : Server(d) = Server(e)
      /\ \A e \in ToSet(l) : \E d \in ToSet(k) : Server(d) = Server(e)
  OBVIOUS
<1>. QED  BY <1>1, <1>2 DEF Places

LEMMA ServesAll == GenInv => RunningServes
<1>. SUFFICES ASSUME GenInv, synced
              PROVE  /\ {s.Hostname : s \in ToSet(running)} = Hosts
                     /\ \A h \in Hosts : \E n \in Owners(h) :
                          {<<x[2], x[3]>> : x \in {x \in Routes(running) : x[1] = h}}
                            = Servers(ingresses[n].spec.ns, FirstRule(n, h).paths[1])
  BY DEF RunningServes
<1>1. PICK own \in [Hosts -> Names] : SaysOf(running, own)
  BY DEF GenInv
<1>. DEFINE r(h) == RuleOf(own[h], h)
<1>2. /\ \A h \in Hosts : own[h] \in Owners(h) /\ Held(ServiceOf(r(h)))
      /\ Content(running) = {Entry(r(h), h) : h \in Hosts}
  BY <1>1 DEF SaysOf
<1>3. ASSUME NEW s \in ToSet(running)
      PROVE  s.Hostname \in Hosts /\ ServiceContent(s) = Entry(r(s.Hostname), s.Hostname)
  <2>1. ServiceContent(s) \in Content(running)
    BY DEF Content
  <2>2. PICK h \in Hosts : ServiceContent(s) = Entry(r(h), h)
    BY <1>2, <2>1
  <2>3. s.Hostname = h
    BY <2>2 DEF ServiceContent, Entry
  <2>. QED  BY <2>2, <2>3
<1>4. ASSUME NEW h \in Hosts PROVE \E s \in ToSet(running) : s.Hostname = h
  <2>1. PICK s \in ToSet(running) : Entry(r(h), h) = ServiceContent(s)
    BY <1>2 DEF Content
  <2>2. s.Hostname = h
    BY <2>1 DEF ServiceContent, Entry
  <2>. QED  BY <2>2
<1>5. {s.Hostname : s \in ToSet(running)} = Hosts
  BY <1>3, <1>4
<1>6. ASSUME NEW h \in Hosts
      PROVE  {<<x[2], x[3]>> : x \in {x \in Routes(running) : x[1] = h}}
               = Servers(ingresses[own[h]].spec.ns, FirstRule(own[h], h).paths[1])
  <2>. DEFINE L == {<<x[2], x[3]>> : x \in {x \in Routes(running) : x[1] = h}}
              eps == Upstream(r(h)).Endpoints
  <2>1. Places(eps) = Servers(ingresses[own[h]].spec.ns, FirstRule(own[h], h).paths[1])
    BY <1>2, UpstreamOnceEach DEF RuleOf
  <2>2. ASSUME NEW s \in ToSet(running), s.Hostname = h
        PROVE  Places(s.Backend.Endpoints) = Places(eps)
    <3>1. {Server(e) : e \in ToSet(s.Backend.Endpoints)} = {Server(e) : e \in ToSet(eps)}
      BY <1>3, <2>2 DEF ServiceContent, Entry
    <3>. QED  BY <3>1, SamePlaces
  <2>3. \A y : y \in L <=>
          \E s \in ToSet(running) : s.Hostname = h /\ y \in Places(s.Backend.Endpoints)
    <3>1. \A x : x \in Routes(running) <=>
            \E s \in ToSet(running) : \E e \in ToSet(s.Backend.Endpoints) :
              x = <<s.Hostname, e.Address, e.Port>>
      BY DEF Routes
    <3>2. \A y : y \in L <=> \E x \in Routes(running) : x[1] = h /\ y = <<x[2], x[3]>>
      OBVIOUS
    <3>3. \A s, y : y \in Places(s.Backend.Endpoints) <=>
            \E e \in ToSet(s.Backend.Endpoints) : y = <<e.Address, e.Port>>
      BY DEF Places
    <3>. HIDE DEF L
    <3>4. ASSUME NEW y \in L
          PROVE  \E s \in ToSet(running) : s.Hostname = h /\ y \in Places(s.Backend.Endpoints)
      <4>1. PICK x \in Routes(running) : x[1] = h /\ y = <<x[2], x[3]>>
        BY <3>2
      <4>. QED  BY <3>1, <3>3, <4>1
    <3>5. ASSUME NEW s \in ToSet(running), s.Hostname = h, NEW y \in Places(s.Backend.Endpoints)
          PROVE  y \in L
      <4>1. PICK e \in ToSet(s.Backend.Endpoints) : y = <<e.Address, e.Port>>
        BY <3>3
      <4>2. <<h, e.Address, e.Port>> \in Routes(running)
        BY <3>1, <3>5
      <4>. QED  BY <3>2, <4>1, <4>2
    <3>. QED  BY <3>4, <3>5
  <2>. HIDE DEF L, eps
  <2>4. L = Places(eps)
    BY <1>4, <2>2, <2>3
  <2>. QED  BY <2>1, <2>4 DEF L
<1>. QED  BY <1>2, <1>5, <1>6

LEMMA IdleStep ==
  NamesDistinct(IngressSpecs) /\ GenInv /\ [Next]_vars =>
    [synced /\ synced' /\ (\A h \in Hosts : Cardinality(Owners(h)) = 1)
       => running' = running]_vars
<1>. SUFFICES ASSUME NamesDistinct(IngressSpecs), GenInv, [Next]_vars, synced, synced',
                     \A h \in Hosts : Cardinality(Owners(h)) = 1
              PROVE  running' = running
  OBVIOUS
<1>1. CASE syncIngress
  <2>1. PICK own1 \in [Hosts -> Names] : SaysOf(running, own1)
    BY DEF GenInv
  <2>2. PICK own2 \in [Hosts -> Names] :
          /\ \A h \in Hosts : own2[h] \in Owners(h)
          /\ Content(running') = {Entry(RuleOf(own2[h], h), h) : h \in Hosts}
          /\ Content(running') = Content(running) => running' = running
    BY <1>1, SyncStep DEF GenInv
  <2>3. ASSUME NEW h \in Hosts PROVE own1[h] = own2[h]
    <3>1. own1[h] \in Owners(h) /\ own2[h] \in Owners(h)
      BY <2>1, <2>2 DEF SaysOf
    <3>2. IsFiniteSet(Owners(h)) /\ Cardinality(Owners(h)) = 1
      BY GenAssumption, FS_Subset DEF Owners
    <3>3. \E x : Owners(h) = {x}
      BY <3>2, FS_Singleton
    <3>. QED  BY <3>1, <3>3
  <2>4. {Entry(RuleOf(own1[h], h), h) : h \in Hosts} = {Entry(RuleOf(own2[h], h), h) : h \in Hosts}
    BY <2>3
  <2>. QED  BY <2>1, <2>2, <2>4 DEF SaysOf
<1>2. CASE ~syncIngress
  BY <1>2, OtherSteps
<1>. QED  BY <1>1, <1>2

(* The invariant holds of every sequence of changes, syncs, panics and     *)
(* restarts (controller.go:47-100).                                        *)
THEOREM GenInvariant == NamesDistinct(IngressSpecs) => (Spec => []GenInv)
<1>. SUFFICES ASSUME NamesDistinct(IngressSpecs) PROVE Spec => []GenInv
  OBVIOUS
<1>1. GenInv /\ [Next]_vars => GenInv'
  BY InvStep
<1>. QED  BY InvInit, <1>1, PTL DEF Spec

(* When no two services share a name, whatever the ingresses, services and *)
(* endpoints are: after a sync every host is routed to the servers of the  *)
(* service of its oldest rule (controller.go:88-215).                      *)
THEOREM RunningServesHosts == NamesDistinct(IngressSpecs) => (Spec => []RunningServes)
<1>. SUFFICES ASSUME NamesDistinct(IngressSpecs) PROVE Spec => []RunningServes
  OBVIOUS
<1>1. Spec => []GenInv
  BY GenInvariant
<1>. QED  BY <1>1, ServesAll, PTL

(* When no two services share a name and no two ingresses of one second    *)
(* claim a host, a sync without a change leaves the running configuration  *)
(* alone (controller.go:69-72).                                            *)
THEOREM NoReloadWithoutChange == NamesDistinct(IngressSpecs) => (Spec => NoIdleReload)
<1>. SUFFICES ASSUME NamesDistinct(IngressSpecs) PROVE Spec => NoIdleReload
  OBVIOUS
<1>1. Spec => []GenInv
  BY GenInvariant
<1>2. GenInv /\ [Next]_vars =>
        [synced /\ synced' /\ (\A h \in Hosts : Cardinality(Owners(h)) = 1)
           => running' = running]_vars
  BY IdleStep
<1>. QED  BY <1>1, <1>2, PTL DEF Spec, NoIdleReload
=============================================================================
