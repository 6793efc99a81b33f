-------------------------- MODULE FlowServiceProofs --------------------------
(***************************************************************************)
(* The LogicFlowService controller is well typed, and when it has nothing  *)
(* left to do the status of the service is true, although what it reads of *)
(* definitions and runtimes is not watched.                                *)
(***************************************************************************)
EXTENDS FlowService, SequenceTheorems, FiniteSetTheorems, TLAPS

DefsType   == [Defs -> DefStates]
RtsType    == [Runtimes -> RtStates]
TargetType == [version : Versions \cup {""}, weight : 0..100]
CallType   == [op : {"apply", "delete"}, k : Kinds, to : Targets]
DoType     == [busy : BOOLEAN, obj : Service, todo : Calls]
WorkerType == [do : DoType, defs : DefsType, rts : RtsType]
CacheType  == [svc : Service, defs : DefsType, rts : RtsType, net : Networking]
ObjectType == [uid : Nat, rt : Runtimes \cup {""}, to : Targets]

-----------------------------------------------------------------------------
(* Resolution                                                              *)

LEMMA SpecFields ==
  ASSUME NEW s \in ServiceSpec
  PROVE  /\ s.traffic \in Traffic /\ s.gateway \in BOOLEAN /\ s.hosted \in BOOLEAN
         /\ DOMAIN s.traffic = 1..Len(s.traffic)
         /\ \A i \in DOMAIN s.traffic : s.traffic[i].def \in Defs /\ s.traffic[i].weight \in 0..100
  <1>1. s.traffic \in Traffic /\ s.gateway \in BOOLEAN /\ s.hosted \in BOOLEAN
    BY DEF ServiceSpec
  <1>2. PICK t : t = s.traffic
    OBVIOUS
  <1>3. DOMAIN t = 1..Len(t) /\ \A i \in DOMAIN t : t[i] \in [def : Defs, weight : 0..100]
    <2>1. PICK S : S = [def : Defs, weight : 0..100]
      OBVIOUS
    <2>2. t \in Seq(S)
      BY <1>1, <1>2, <2>1 DEF Traffic
    <2>3. DOMAIN t = 1..Len(t) /\ \A i \in DOMAIN t : t[i] \in S
      BY <2>2
    <2> QED BY <2>1, <2>3
  <1> QED BY <1>1, <1>2, <1>3

LEMMA RefsType ==
  ASSUME NEW s \in ServiceSpec
  PROVE  /\ resolveDefinitionRefs(s) \in Seq(Defs)
         /\ s.default \notin Defs /\ resolveDefinitionRefs(s) # <<>> => Len(s.traffic) > 0
  <1>1. CASE s.default \in Defs
    BY <1>1 DEF resolveDefinitionRefs
  <1>2. CASE s.default \notin Defs
    <2>1. PICK r : r = resolveDefinitionRefs(s)
      OBVIOUS
    <2>2. PICK n : n = Len(s.traffic)
      OBVIOUS
    <2>3. n \in Nat
      BY <2>2, SpecFields DEF Traffic
    <2>4. r = [i \in 1..n |-> s.traffic[i].def] /\ \A i \in 1..n : s.traffic[i].def \in Defs
      BY <1>2, <2>1, <2>2, SpecFields DEF resolveDefinitionRefs
    <2>5. r \in Seq(Defs) /\ Len(r) = n
      BY <2>3, <2>4
    <2>6. r # <<>> => n > 0
      BY <2>3, <2>5
    <2> QED BY <1>2, <2>1, <2>2, <2>5, <2>6
  <1> QED BY <1>1, <1>2

LEMMA RuntimeType ==
  ASSUME NEW s \in ServiceSpec, resolveDefinitionRefs(s) # <<>> PROVE resolveRuntime(s) \in Runtimes
  <1>1. PICK r : r = resolveDefinitionRefs(s)
    OBVIOUS
  <1>2. r \in Seq(Defs) /\ r # <<>>
    BY <1>1, RefsType
  <1>3. r[1] \in Defs
    BY <1>2
  <1> QED BY <1>1, <1>3, ServiceConstants DEF resolveRuntime

LEMMA VersionType == ASSUME NEW ds, NEW d PROVE VersionOf(ds, d) \in Versions \cup {""}
  BY DEF VersionOf

LEMMA Single == ASSUME NEW S, NEW t \in S PROVE <<t>> \in Seq(S)
  OBVIOUS

LEMMA TargetIs ==
  ASSUME NEW v \in Versions \cup {""}, NEW n \in 0..100
  PROVE  Target(v, n) \in TargetType /\ <<Target(v, n)>> \in Targets
  <1>1. Target(v, n) \in TargetType
    BY DEF Target, TargetType
  <1>2. <<Target(v, n)>> \in Seq(TargetType)
    BY <1>1, Single
  <1> QED BY <1>1, <1>2 DEF Targets, TargetType

\* The two weights that no spec contains.
LEMMA FixedTargets ==
  /\ Target("", 0) \in TargetType
  /\ \A v \in Versions \cup {""} : <<Target(v, 100)>> \in Targets
  <1>1. 0 \in 0..100 /\ 100 \in 0..100 /\ "" \in Versions \cup {""}
    OBVIOUS
  <1> QED BY <1>1, TargetIs

\* What entry i of the spec's traffic becomes.
TargetOf(s, ds, i) == Target(VersionOf(ds, s.traffic[i].def), s.traffic[i].weight)

LEMMA TargetOfType ==
  ASSUME NEW s \in ServiceSpec, NEW ds, NEW i \in DOMAIN s.traffic
  PROVE  TargetOf(s, ds, i) \in TargetType
  BY SpecFields, VersionType, TargetIs DEF TargetOf

\* With one version or two, one has the larger weight, and the other one is the canary.
LEMMA PrimaryIs ==
  ASSUME NEW s \in ServiceSpec, Len(s.traffic) \in 1..2
  PROVE  PrimaryIndex(s.traffic) \in DOMAIN s.traffic
  <1> DEFINE largest == {i \in DOMAIN s.traffic : \A j \in DOMAIN s.traffic : s.traffic[j].weight <= s.traffic[i].weight}
  <1>1. DOMAIN s.traffic = 1..Len(s.traffic) /\ \A i \in DOMAIN s.traffic : s.traffic[i].weight \in 0..100
    BY SpecFields
  <1>2. largest \subseteq 1..2
    BY <1>1
  <1>3. \E i \in largest : TRUE
    <2>1. CASE Len(s.traffic) = 1
      BY <1>1, <2>1
    <2>2. CASE Len(s.traffic) = 2
      <3>1. DOMAIN s.traffic = 1..2 /\ s.traffic[1].weight \in 0..100 /\ s.traffic[2].weight \in 0..100
        BY <1>1, <2>2
      <3>2. PICK a, b : a \in 0..100 /\ b \in 0..100 /\ a = s.traffic[1].weight /\ b = s.traffic[2].weight
        BY <3>1
      <3>3. CASE b <= a
        <4>1. 1 \in largest
          BY <3>1, <3>2, <3>3
        <4> QED BY <4>1
      <3>4. CASE a <= b
        <4>1. 2 \in largest
          BY <3>1, <3>2, <3>4
        <4> QED BY <4>1
      <3>5. b <= a \/ a <= b
        BY <3>2
      <3> HIDE DEF largest
      <3> QED BY <3>3, <3>4, <3>5, Zenon
    <2> QED BY <2>1, <2>2
  <1>4. PrimaryIndex(s.traffic) = Min(largest)
    BY DEF PrimaryIndex
  <1>5. largest \subseteq DOMAIN s.traffic
    OBVIOUS
  <1> HIDE DEF largest
  <1>6. \E x \in largest : \A y \in largest : x =< y
    BY <1>2, <1>3
  <1>7. Min(largest) \in largest
    BY <1>6 DEF Min
  <1> QED BY <1>4, <1>5, <1>7

LEMMA SplitType ==
  ASSUME NEW s \in ServiceSpec, NEW ds, Len(s.traffic) \in 1..2
  PROVE  splitTrafficTargets(s, ds)[1] \in TargetType /\ splitTrafficTargets(s, ds)[2] \in TargetType
  <1> DEFINE p == PrimaryIndex(s.traffic)
             second == IF 3 - p \in DOMAIN s.traffic THEN TargetOf(s, ds, 3 - p) ELSE Target("", 0)
  <1>1. TargetOf(s, ds, p) \in TargetType
    BY PrimaryIs, TargetOfType
  <1>2. second \in TargetType
    BY TargetOfType, FixedTargets
  <1>3. splitTrafficTargets(s, ds) = <<TargetOf(s, ds, p), second>>
    BY DEF splitTrafficTargets, TargetOf
  <1> HIDE DEF p, second
  <1> QED BY <1>1, <1>2, <1>3

LEMMA BuildType ==
  ASSUME NEW s \in ServiceSpec, NEW ds PROVE buildTrafficTargets(s, ds) \in Targets
  <1>1. CASE s.default # NoDef
    <2>1. buildTrafficTargets(s, ds) = <<Target(VersionOf(ds, resolveDefinitionRefs(s)[1]), 100)>>
      BY <1>1 DEF buildTrafficTargets
    <2> QED BY <2>1, VersionType, FixedTargets
  <1>2. CASE s.default = NoDef
    <2>1. PICK n : n = Len(s.traffic)
      OBVIOUS
    <2>2. n \in Nat /\ DOMAIN s.traffic = 1..n
      BY <2>1, SpecFields DEF Traffic
    <2>3. \A i \in 1..n : TargetOf(s, ds, i) \in TargetType
      BY <2>2, TargetOfType
    <2>4. buildTrafficTargets(s, ds) = [i \in 1..n |-> TargetOf(s, ds, i)]
      BY <1>2, <2>2 DEF buildTrafficTargets, TargetOf
    <2>5. [i \in 1..n |-> TargetOf(s, ds, i)] \in Seq(TargetType)
      BY <2>2, <2>3
    <2> QED BY <2>4, <2>5 DEF Targets, TargetType
  <1> QED BY <1>1, <1>2

-----------------------------------------------------------------------------
(* The lists of calls                                                      *)

\* An Ingress has the host's name, a Route is made on OpenShift only.
CallFits(c) == c.op = "apply" => (c.k = "main" => ~sc.openshift) /\ (c.k = "route" => sc.openshift)

Makes(l, k) == \E i \in DOMAIN l : l[i].op = "apply" /\ l[i].k = k

\* What is referred to in the status is made by the list.
OutcomeOK(out) ==
    /\ out.todo \in Calls /\ out.cond \in Conds /\ out.ref \in {"none", "main", "route", "http"}
    /\ \A i \in DOMAIN out.todo : CallFits(out.todo[i])
    /\ out.ref # "none" => Makes(out.todo, out.ref)

LEMMA OneCall ==
  ASSUME NEW a \in CallType, CallFits(a), NEW c \in Conds, NEW k \in {"none", "main", "route", "http"},
         k # "none" => a.op = "apply" /\ a.k = k
  PROVE  OutcomeOK(Outcome(<<a>>, c, k))
  BY DEF OutcomeOK, Outcome, Calls, CallType, Makes

LEMMA ThreeCalls ==
  ASSUME NEW l \in Seq(CallType), Len(l) = 3, CallFits(l[1]), CallFits(l[2]), CallFits(l[3]),
         NEW c \in Conds, NEW k \in {"main", "route"}, NEW i \in 1..3, l[i].op = "apply", l[i].k = k
  PROVE  OutcomeOK(Outcome(l, c, k))
  <1>1. l \in Calls /\ DOMAIN l = 1..3
    BY DEF Calls, CallType
  <1>2. \A j \in DOMAIN l : CallFits(l[j])
    BY <1>1
  <1>3. Makes(l, k)
    BY <1>1 DEF Makes
  <1> QED BY <1>1, <1>2, <1>3 DEF OutcomeOK, Outcome

LEMMA ThirdAppended ==
  ASSUME NEW S, NEW a \in S, NEW b \in S, NEW d \in S,
         NEW l, l = <<a, b>>, NEW x, x = Append(l, d)
  PROVE  x \in Seq(S) /\ Len(x) = 3 /\ x[1] = a /\ x[2] = b /\ x[3] = d
  <1>1. l \in Seq(S) /\ Len(l) = 2
    OBVIOUS
  <1> QED BY <1>1

LEMMA ListOfThree ==
  ASSUME NEW a \in CallType, NEW b \in CallType, NEW d \in CallType
  PROVE  \A l \in {<<a, b, d>>, Append(<<a, b>>, d), <<a, b>> \o <<d>>} :
            l \in Seq(CallType) /\ Len(l) = 3 /\ l[1] = a /\ l[2] = b /\ l[3] = d
  <1>1. <<a, b, d>> \in Seq(CallType) /\ Len(<<a, b, d>>) = 3
        /\ <<a, b, d>>[1] = a /\ <<a, b, d>>[2] = b /\ <<a, b, d>>[3] = d
    OBVIOUS
  <1>2. <<a, b>> \in Seq(CallType)
    OBVIOUS
  <1>3. PICK l : l = <<a, b>>
    OBVIOUS
  <1>4. PICK x : x = Append(l, d)
    OBVIOUS
  <1>5. x \in Seq(CallType) /\ Len(x) = 3 /\ x[1] = a /\ x[2] = b /\ x[3] = d
    BY <1>3, <1>4, ThirdAppended
  <1>6. l \o <<d>> = x
    BY <1>2, <1>3, <1>4, AppendIsConcat
  <1> QED BY <1>1, <1>3, <1>4, <1>5, <1>6

LEMMA NoCall == ASSUME NEW c \in Conds PROVE OutcomeOK(Outcome(<<>>, c, "none"))
  <1>1. <<>> \in Calls /\ DOMAIN <<>> = {}
    BY DEF Calls
  <1> QED BY <1>1 DEF OutcomeOK, Outcome

LEMMA CallsAre ==
  /\ \A k \in Kinds, to \in Targets : Apply(k, to) \in CallType /\ Apply(k, to).op = "apply" /\ Apply(k, to).k = k
  /\ \A k \in Kinds : Delete(k) \in CallType /\ CallFits(Delete(k))
  <1>1. <<>> \in Targets
    BY DEF Targets
  <1> QED BY <1>1 DEF Apply, Delete, CallType, CallFits

LEMMA NetworkingOK ==
  ASSUME NEW s \in ServiceSpec, NEW ds, resolveDefinitionRefs(s) # <<>>, sc.openshift \in BOOLEAN
  PROVE  OutcomeOK(applyNetworking(s, ds))
  <1>0. /\ {"main", "canary", "direct", "route", "http"} \subseteq Kinds
        /\ {"True", "Misconfigured", "GatewayRefRequired", "GatewayAPINotAvailable"} \subseteq Conds
        /\ <<>> \in Targets
    BY DEF Kinds, Conds, Targets
  <1>1. CASE ~s.gateway /\ ~sc.openshift /\ ~s.hosted
    BY <1>0, <1>1, NoCall DEF applyNetworking
  <1>2. CASE s.gateway
    <2>1. applyNetworking(s, ds) = applyHTTPRoute(s, ds)
      BY <1>2 DEF applyNetworking
    <2>2. CASE ~sc.gatewayAPI
      BY <1>0, <2>1, <2>2, NoCall DEF applyHTTPRoute
    <2>3. CASE sc.gatewayAPI
      <3> DEFINE a == Apply("http", buildTrafficTargets(s, ds))
      <3>1. a \in CallType /\ a.op = "apply" /\ a.k = "http"
        BY <1>0, BuildType, CallsAre
      <3>2. applyNetworking(s, ds) = Outcome(<<a>>, "True", "http")
        BY <2>1, <2>3 DEF applyHTTPRoute, httpRouteForService
      <3> HIDE DEF a
      <3>3. CallFits(a)
        BY <3>1 DEF CallFits
      <3> QED BY <1>0, <3>1, <3>2, <3>3, OneCall
    <2> QED BY <2>2, <2>3
  <1>3. CASE ~s.gateway /\ (sc.openshift \/ s.hosted) /\ s.default # NoDef
    <2> DEFINE a == Delete("canary")
               b == Delete("direct")
    <2>1. a \in CallType /\ b \in CallType /\ CallFits(a) /\ CallFits(b)
      BY <1>0, CallsAre
    <2>2. CASE sc.openshift
      <3> DEFINE d == Apply("route", <<>>)
      <3>1. d \in CallType /\ d.op = "apply" /\ d.k = "route"
        BY <1>0, CallsAre
      <3>2. applyNetworking(s, ds) = Outcome(Append(<<a, b>>, d), "True", "route")
        BY <1>3, <2>2 DEF applyNetworking, deleteStaleCanaryIngresses, routeForDefault
      <3> HIDE DEF a, b, d
      <3>3. CallFits(d)
        BY <2>2, <3>1 DEF CallFits
      <3>4. PICK l : l = Append(<<a, b>>, d)
        OBVIOUS
      <3>5. l \in Seq(CallType) /\ Len(l) = 3 /\ l[1] = a /\ l[2] = b /\ l[3] = d
        BY <2>1, <3>1, <3>4, ListOfThree
      <3>6. OutcomeOK(Outcome(l, "True", "route"))
        BY <1>0, <2>1, <3>1, <3>3, <3>5, ThreeCalls
      <3> QED BY <3>2, <3>4, <3>6
    <2>3. CASE ~sc.openshift
      <3> DEFINE d == Apply("main", <<>>)
      <3>1. d \in CallType /\ d.op = "apply" /\ d.k = "main"
        BY <1>0, CallsAre
      <3>2. applyNetworking(s, ds) = Outcome(<<a, b>> \o <<d>>, "True", "main")
        BY <1>3, <2>3 DEF applyNetworking, deleteStaleCanaryIngresses, applyDefaultIngress, ingressForService
      <3> HIDE DEF a, b, d
      <3>3. CallFits(d)
        BY <2>3, <3>1 DEF CallFits
      <3>4. PICK l : l = <<a, b>> \o <<d>>
        OBVIOUS
      <3>5. l \in Seq(CallType) /\ Len(l) = 3 /\ l[1] = a /\ l[2] = b /\ l[3] = d
        BY <2>1, <3>1, <3>4, ListOfThree
      <3>6. OutcomeOK(Outcome(l, "True", "main"))
        BY <1>0, <2>1, <3>1, <3>3, <3>5, ThreeCalls
      <3> QED BY <3>2, <3>4, <3>6
    <2> QED BY <2>2, <2>3
  <1>4. CASE /\ ~s.gateway /\ (sc.openshift \/ s.hosted) /\ s.default = NoDef
             /\ sc.openshift \/ Len(s.traffic) > 2
    BY <1>0, <1>4, NoCall DEF applyNetworking
  <1>5. CASE /\ ~s.gateway /\ (sc.openshift \/ s.hosted) /\ s.default = NoDef
             /\ ~(sc.openshift \/ Len(s.traffic) > 2)
    <2>1. Len(s.traffic) \in 1..2
      <3>1. s.default \notin Defs /\ s.traffic \in Traffic
        BY <1>5, SpecFields, ServiceConstants
      <3>2. PICK n : n = Len(s.traffic)
        OBVIOUS
      <3>3. n \in Nat
        BY <3>1, <3>2 DEF Traffic
      <3>4. n > 0 /\ ~(n > 2)
        BY <1>5, <3>1, <3>2, RefsType
      <3>5. n \in 1..2
        BY <3>3, <3>4
      <3> QED BY <3>2, <3>5
    <2>2. PICK split : split = splitTrafficTargets(s, ds)
      OBVIOUS
    <2>3. split[1] \in TargetType /\ split[2] \in TargetType
      BY <2>1, <2>2, SplitType
    <2> DEFINE a == Apply("main", <<split[1]>>)
               b == Apply("canary", <<split[2]>>)
               d == Apply("direct", <<>>)
    <2>4. <<split[1]>> \in Targets /\ <<split[2]>> \in Targets
      <3>1. \A t \in TargetType : <<t>> \in Seq(TargetType)
        OBVIOUS
      <3> QED BY <2>3, <3>1 DEF Targets, TargetType
    <2>5. /\ a \in CallType /\ a.op = "apply" /\ a.k = "main"
          /\ b \in CallType /\ b.op = "apply" /\ b.k = "canary"
          /\ d \in CallType /\ d.op = "apply" /\ d.k = "direct"
      BY <1>0, <2>4, CallsAre
    <2>6. applyNetworking(s, ds) = Outcome(<<a, b, d>>, "True", "main")
      BY <1>5, <2>2 DEF applyNetworking, applyCanaryIngresses, ingressForService,
                        canaryIngressForService, directVersionIngress
    <2> HIDE DEF a, b, d
    <2>7. CallFits(a) /\ CallFits(b) /\ CallFits(d)
      BY <1>5, <2>5 DEF CallFits
    <2>8. PICK l : l = <<a, b, d>>
      OBVIOUS
    <2>9. l \in Seq(CallType) /\ Len(l) = 3 /\ l[1] = a /\ l[2] = b /\ l[3] = d
      BY <2>5, <2>8, ListOfThree
    <2>10. OutcomeOK(Outcome(l, "True", "main"))
      BY <1>0, <2>5, <2>7, <2>9, ThreeCalls
    <2> QED BY <2>6, <2>8, <2>10
  <1>6. s.gateway \in BOOLEAN /\ s.hosted \in BOOLEAN
    BY SpecFields
  <1> QED BY <1>1, <1>2, <1>3, <1>4, <1>5, <1>6

-----------------------------------------------------------------------------
(* Type correctness                                                        *)

\* The worker goes on only with a service that is there and resolves to a runtime.
WorkerInv == w.do.busy => Exists(w.do.obj) /\ resolveDefinitionRefs(w.do.obj.spec) # <<>>

TypeInv == TypeOK /\ WorkerInv

LEMMA ScenarioIs ==
  ASSUME sc \in Scenarios
  PROVE  /\ sc.openshift \in BOOLEAN /\ sc.specs \subseteq ServiceSpec /\ sc.stored \subseteq ServiceSpec
         /\ sc.defs \in DefsType /\ sc.rts \in RtsType /\ sc.edits \in Nat /\ sc.faults \in Nat
  BY ServiceConstants DEF Scenario, DefsType, RtsType

LEMMA ZeroTypes ==
  /\ Nothing \in ObjectType /\ ~There(Nothing)
  /\ NoSvc \in Service /\ ~Exists(NoSvc)
  /\ Idle \in DoType /\ Idle.busy = FALSE
  /\ \A s \in ServiceSpec, u \in Nat : [NoSvc EXCEPT !.uid = u, !.gen = 1, !.spec = s] \in Service
  <1>1. <<>> \in Targets /\ <<>> \in Traffic /\ <<>> \in Calls
    BY DEF Targets, Traffic, Calls
  <1>2. Nothing \in ObjectType /\ ~There(Nothing)
    BY <1>1 DEF Nothing, ObjectType, There
  <1>3. NoSpec \in ServiceSpec
    BY <1>1 DEF NoSpec, ServiceSpec
  <1>4. NoStatus \in ServiceStatus
    BY <1>1 DEF NoStatus, ServiceStatus, Conds
  <1>5. NoSvc \in Service /\ ~Exists(NoSvc)
    BY <1>3, <1>4 DEF NoSvc, Service, Exists
  <1>6. Idle \in DoType /\ Idle.busy = FALSE
    BY <1>1, <1>5 DEF Idle, DoType
  <1>7. \A s \in ServiceSpec, u \in Nat : [NoSvc EXCEPT !.uid = u, !.gen = 1, !.spec = s] \in Service
    BY <1>5 DEF Service
  <1> QED BY <1>2, <1>5, <1>6, <1>7

LEMMA RespecType ==
  ASSUME NEW o \in Service, NEW s \in ServiceSpec
  PROVE  [o EXCEPT !.spec = s, !.gen = o.gen + 1] \in Service
  <1>1. o.gen + 1 \in Nat
    BY DEF Service
  <1> QED BY <1>1 DEF Service

LEMMA Types ==
  TypeOK <=> /\ svc \in Service /\ defs \in DefsType /\ rts \in RtsType /\ net \in [Kinds -> ObjectType]
             /\ cache \in CacheType /\ w \in WorkerType
             /\ news \subseteq Informers /\ queue \in BOOLEAN /\ later \in BOOLEAN
             /\ sc \in Scenarios /\ edits \in Nat /\ faults \in Nat
  BY DEF TypeOK, DefsType, RtsType, CacheType, WorkerType, DoType, ObjectType, Networking

LEMMA NewsType == ASSUME news \subseteq Informers, Notify PROVE news' \subseteq Informers
  BY DEF Notify, Informers

LEMMA TypeInit == ASSUME Init PROVE TypeInv
  <1>1. /\ sc \in Scenarios /\ sc.openshift \in BOOLEAN /\ sc.stored \subseteq ServiceSpec
        /\ sc.defs \in DefsType /\ sc.rts \in RtsType /\ sc.edits \in Nat /\ sc.faults \in Nat
    BY ScenarioIs DEF Init
  <1>2. svc \in Service
    <2>1. svc = NoSvc \/ \E s \in sc.stored : svc = [NoSvc EXCEPT !.uid = 1, !.gen = 1, !.spec = s]
      BY DEF Init
    <2>2. ASSUME NEW s \in sc.stored PROVE [NoSvc EXCEPT !.uid = 1, !.gen = 1, !.spec = s] \in Service
      <3>1. s \in ServiceSpec /\ 1 \in Nat
        BY <1>1
      <3> QED BY <3>1, ZeroTypes
    <2> QED BY <2>1, <2>2, ZeroTypes
  <1>3. net \in [Kinds -> ObjectType]
    BY ZeroTypes DEF Init
  <1>4. cache \in CacheType
    BY <1>1, <1>2, <1>3 DEF Init, CacheType, Networking, ObjectType
  <1>5. w \in WorkerType /\ ~w.do.busy
    BY <1>1, ZeroTypes DEF Init, WorkerType
  <1>6. queue \in BOOLEAN
    BY DEF Init, Exists
  <1>7. TypeOK
    BY <1>1, <1>2, <1>3, <1>4, <1>5, <1>6, Types DEF Init
  <1> QED BY <1>5, <1>7 DEF TypeInv, WorkerInv

LEMMA UsersType == ASSUME TypeInv, Users PROVE TypeInv'
  <1>0. /\ svc \in Service /\ defs \in DefsType /\ rts \in RtsType /\ net \in [Kinds -> ObjectType]
        /\ cache \in CacheType /\ w \in WorkerType /\ news \subseteq Informers
        /\ queue \in BOOLEAN /\ later \in BOOLEAN /\ sc \in Scenarios /\ edits \in Nat /\ faults \in Nat
    BY Types DEF TypeInv
  <1>1. /\ UNCHANGED <<cache, queue, later, w, sc, faults>> /\ Notify
        /\ edits > 0 /\ edits' = edits - 1
    BY DEF Users, CreateService, UpdateService, DeleteService, ChangeDefinition, ChangeRuntime, TouchObject, Edit
  <1>2. edits' \in Nat
    BY <1>0, <1>1
  <1>3. svc' \in Service
    <2>1. ASSUME NEW s \in sc.specs, CreateService(s) PROVE svc' \in Service
      <3>1. s \in ServiceSpec /\ 1 + edits \in Nat
        BY <1>0, ScenarioIs
      <3> QED BY <2>1, <3>1, ZeroTypes DEF CreateService
    <2>2. ASSUME NEW s \in sc.specs, UpdateService(s) PROVE svc' \in Service
      <3>1. s \in ServiceSpec
        BY <1>0, ScenarioIs
      <3>2. svc' = [svc EXCEPT !.spec = s, !.gen = svc.gen + 1]
        BY <1>0, <2>2 DEF UpdateService, Service
      <3> QED BY <1>0, <3>1, <3>2, RespecType
    <2>3. CASE DeleteService
      BY <2>3, ZeroTypes DEF DeleteService
    <2>4. CASE UNCHANGED svc
      BY <1>0, <2>4
    <2> QED BY <2>1, <2>2, <2>3, <2>4 DEF Users, ChangeDefinition, ChangeRuntime, TouchObject
  <1>4. defs' \in DefsType
    <2>1. ASSUME NEW d \in Defs, NEW st \in DefStates, ChangeDefinition(d, st) PROVE defs' \in DefsType
      BY <1>0, <2>1 DEF ChangeDefinition, DefsType
    <2> QED BY <1>0, <2>1 DEF Users, CreateService, UpdateService, DeleteService, ChangeRuntime, TouchObject
  <1>5. rts' \in RtsType
    <2>1. ASSUME NEW r \in Runtimes, NEW st \in RtStates, ChangeRuntime(r, st) PROVE rts' \in RtsType
      BY <1>0, <2>1 DEF ChangeRuntime, RtsType
    <2> QED BY <1>0, <2>1 DEF Users, CreateService, UpdateService, DeleteService, ChangeDefinition, TouchObject
  <1>6. net' \in [Kinds -> ObjectType]
    <2>1. ASSUME NEW k \in Kinds, TouchObject(k) PROVE net' \in [Kinds -> ObjectType]
      BY <1>0, <2>1, ZeroTypes DEF TouchObject
    <2> QED BY <1>0, <2>1 DEF Users, CreateService, UpdateService, DeleteService, ChangeDefinition, ChangeRuntime
  <1>7. news' \subseteq Informers
    BY <1>0, <1>1, NewsType
  <1>8. TypeOK'
    <2>1. /\ svc' \in Service /\ defs' \in DefsType /\ rts' \in RtsType /\ net' \in [Kinds -> ObjectType]
          /\ cache' \in CacheType /\ w' \in WorkerType /\ news' \subseteq Informers
          /\ queue' \in BOOLEAN /\ later' \in BOOLEAN /\ sc' \in Scenarios /\ edits' \in Nat /\ faults' \in Nat
      BY <1>0, <1>1, <1>2, <1>3, <1>4, <1>5, <1>6, <1>7
    <2> QED BY <2>1 DEF TypeOK, DefsType, RtsType, CacheType, WorkerType, DoType, ObjectType, Networking
  <1> QED BY <1>1, <1>8 DEF TypeInv, WorkerInv

LEMMA CollectType == ASSUME TypeInv, NEW k \in Kinds, CollectGarbage(k) PROVE TypeInv'
  <1>0. net \in [Kinds -> ObjectType] /\ news \subseteq Informers /\ TypeOK
    BY Types DEF TypeInv
  <1>1. UNCHANGED <<svc, defs, rts, cache, queue, later, w, sc, edits, faults>> /\ Notify
    BY DEF CollectGarbage
  <1>2. net' \in [Kinds -> ObjectType]
    BY <1>0, ZeroTypes DEF CollectGarbage
  <1>3. news' \subseteq Informers
    BY <1>0, <1>1, NewsType
  <1> QED BY <1>0, <1>1, <1>2, <1>3 DEF TypeInv, WorkerInv, TypeOK, ObjectType, Networking

LEMMA DeliverType == ASSUME TypeInv, NEW i \in Informers, Deliver(i) PROVE TypeInv'
  <1>0. /\ TypeOK /\ cache \in CacheType /\ svc \in Service /\ defs \in DefsType /\ rts \in RtsType
        /\ net \in Networking
    BY Types DEF TypeInv, TypeOK
  <1>1. UNCHANGED <<svc, defs, rts, net, later, w, sc, edits, faults>> /\ news' \subseteq news
    BY DEF Deliver
  <1>2. cache' \in CacheType
    <2>1. CASE i = "svc"
      BY <1>0, <2>1 DEF Deliver, CacheType
    <2>2. CASE i = "defs"
      BY <1>0, <2>2 DEF Deliver, CacheType
    <2>3. CASE i = "rts"
      BY <1>0, <2>3 DEF Deliver, CacheType
    <2>4. CASE i = "net"
      BY <1>0, <2>4 DEF Deliver, CacheType
    <2> QED BY <2>1, <2>2, <2>3, <2>4 DEF Informers
  <1>3. queue' \in BOOLEAN
    BY <1>0 DEF Deliver, watches, TypeOK
  <1> QED BY <1>0, <1>1, <1>2, <1>3 DEF TypeInv, WorkerInv, TypeOK, CacheType, DefsType, RtsType

\* The worker begins with a service that resolves, or does not begin.
LEMMA BeginOK ==
  ASSUME TypeInv, Begin
  PROVE  /\ TypeInv'
         /\ \/ UNCHANGED w
            \/ /\ Exists(cache.svc) /\ w'.do.busy /\ w'.do.obj = cache.svc
               /\ resolveDefinitionRefs(cache.svc.spec) # <<>>
               /\ w'.do.todo = applyNetworking(cache.svc.spec, cache.defs).todo
               /\ w'.defs = cache.defs /\ queue' = FALSE /\ UNCHANGED later
         /\ w' = w => queue' \/ later' \/ ~Exists(cache.svc)
  <1>0. TypeOK /\ cache \in CacheType /\ w \in WorkerType /\ sc \in Scenarios /\ ~w.do.busy /\ queue
    BY Types DEF TypeInv, Begin
  <1>1. UNCHANGED <<svc, defs, rts, net, cache, news, sc, edits, faults>>
    BY DEF Begin
  <1>2. CASE UNCHANGED w
    <2>1. queue' \in BOOLEAN /\ later' \in BOOLEAN
      BY <1>0 DEF Begin, TypeOK
    <2>2. queue' \/ later' \/ ~Exists(cache.svc)
      <3>1. CASE queue' = FALSE /\ Exists(cache.svc) /\ ~UNCHANGED later
        BY <3>1 DEF Begin
      <3>2. ~(w' = [do |-> [busy |-> TRUE, obj |-> cache.svc,
                            todo |-> applyNetworking(cache.svc.spec, cache.defs).todo],
                    defs |-> cache.defs, rts |-> cache.rts])
        BY <1>0, <1>2
      <3> QED BY <1>0, <3>1, <3>2 DEF Begin
    <2> QED BY <1>0, <1>1, <1>2, <2>1, <2>2 DEF TypeInv, WorkerInv, TypeOK
  <1>3. CASE w' # w
    <2> DEFINE s == cache.svc
               out == applyNetworking(s.spec, cache.defs)
    <2>1. /\ Exists(s) /\ resolveDefinitions(s.spec, cache.defs) /\ queue' = FALSE /\ UNCHANGED later
          /\ w' = [do |-> [busy |-> TRUE, obj |-> s, todo |-> out.todo], defs |-> cache.defs, rts |-> cache.rts]
      BY <1>3 DEF Begin
    <2>2. s \in Service /\ s.spec \in ServiceSpec /\ cache.defs \in DefsType /\ cache.rts \in RtsType
      BY <1>0 DEF CacheType, Service
    <2>3. resolveDefinitionRefs(s.spec) # <<>>
      BY <2>1 DEF resolveDefinitions
    <2>4. out.todo \in Calls
      BY <1>0, <2>2, <2>3, NetworkingOK, ScenarioIs DEF OutcomeOK
    <2> HIDE DEF s, out
    <2>5. w' \in WorkerType /\ w'.do.busy = TRUE /\ w'.do.obj = s /\ w'.do.todo = out.todo /\ w'.defs = cache.defs
      BY <2>1, <2>2, <2>4 DEF WorkerType, DoType
    <2>6. TypeOK'
      BY <1>0, <1>1, <2>1, <2>5 DEF TypeOK, WorkerType, DoType, DefsType, RtsType
    <2> QED BY <1>3, <2>1, <2>3, <2>5, <2>6 DEF TypeInv, WorkerInv, s, out
  <1> QED BY <1>2, <1>3

LEMMA CallOK ==
  ASSUME TypeInv, Call
  PROVE  /\ TypeInv'
         /\ \E c \in CallType, t \in Calls :
               /\ w.do.todo # <<>> /\ c = Head(w.do.todo) /\ t = Tail(w.do.todo)
               /\ w' = [w EXCEPT !.do = [w.do EXCEPT !.todo = t]]
               /\ w'.do.busy /\ w'.do.obj = w.do.obj /\ w'.do.todo = t /\ w'.defs = w.defs /\ w'.rts = w.rts
               /\ c.op = "delete" => net' = [net EXCEPT ![c.k] = Nothing]
               /\ c.op = "apply" => There(net'[c.k]) /\ \A k \in Kinds \ {c.k} : net'[k] = net[k]
  <1>0. /\ TypeOK /\ w \in WorkerType /\ net \in [Kinds -> ObjectType] /\ sc \in Scenarios
        /\ w.do.busy /\ w.do.todo # <<>> /\ news \subseteq Informers
    BY Types DEF TypeInv, Call
  <1>1. UNCHANGED <<svc, defs, rts, cache, queue, later, sc, edits, faults>> /\ Notify
    BY DEF Call
  <1>2. /\ w.do \in DoType /\ w.do.todo \in Seq(CallType) /\ w.do.obj \in Service
        /\ w.do.obj.spec \in ServiceSpec /\ w.do.obj.uid \in Nat \ {0}
        /\ resolveDefinitionRefs(w.do.obj.spec) # <<>>
    BY <1>0 DEF TypeInv, WorkerInv, WorkerType, DoType, Calls, CallType, Service, Exists
  <1>3. PICK c : c = Head(w.do.todo)
    OBVIOUS
  <1>4. PICK t : t = Tail(w.do.todo)
    OBVIOUS
  <1>5. c \in CallType
    BY <1>0, <1>2, <1>3
  <1>6. t \in Seq(CallType)
    BY <1>0, <1>2, <1>4
  <1>7. t \in Calls
    BY <1>6 DEF Calls, CallType
  <1>8. PICK o : o = [uid |-> w.do.obj.uid, rt |-> resolveRuntime(w.do.obj.spec), to |-> c.to]
    OBVIOUS
  <1>9. o \in ObjectType /\ There(o)
    <2>1. resolveRuntime(w.do.obj.spec) \in Runtimes
      BY <1>2, RuntimeType
    <2> QED BY <1>2, <1>5, <1>8, <2>1 DEF ObjectType, CallType, There
  <1>10. net' = [net EXCEPT ![c.k] = IF c.op = "delete" THEN Nothing ELSE o]
    BY <1>3, <1>8 DEF Call
  <1>11. net' \in [Kinds -> ObjectType]
    BY <1>0, <1>9, <1>10, ZeroTypes
  <1>12. /\ c.op = "delete" => net' = [net EXCEPT ![c.k] = Nothing]
         /\ c.op = "apply" => There(net'[c.k]) /\ \A k \in Kinds \ {c.k} : net'[k] = net[k]
    <2>1. c.k \in Kinds
      BY <1>5 DEF CallType
    <2> QED BY <1>0, <1>9, <1>10, <2>1
  <1>13. w' = [w EXCEPT !.do = [w.do EXCEPT !.todo = t]]
    BY <1>0, <1>4 DEF Call, WorkerType, DoType
  <1>14. PICK do : do = [w.do EXCEPT !.todo = t]
    OBVIOUS
  <1>15. do \in DoType /\ do.busy = w.do.busy /\ do.obj = w.do.obj /\ do.todo = t
    BY <1>2, <1>7, <1>14 DEF DoType
  <1>16. w' \in WorkerType /\ w'.do = do /\ w'.defs = w.defs /\ w'.rts = w.rts
    BY <1>0, <1>13, <1>14, <1>15 DEF WorkerType
  <1>17. news' \subseteq Informers
    BY <1>0, <1>1, NewsType
  <1>18. TypeOK'
    BY <1>0, <1>1, <1>11, <1>16, <1>17 DEF TypeOK, WorkerType, DoType, DefsType, RtsType, Networking, ObjectType
  <1>19. WorkerInv'
    BY <1>15, <1>16 DEF TypeInv, WorkerInv
  <1> QED BY <1>0, <1>3, <1>4, <1>5, <1>7, <1>12, <1>13, <1>15, <1>16, <1>18, <1>19 DEF TypeInv

\* The worker stops: its object and list are forgotten, what it read last is not.
LEMMA StopOK ==
  ASSUME TypeInv, w' = [w EXCEPT !.do = Idle]
  PROVE  w' \in WorkerType /\ ~w'.do.busy /\ w'.defs = w.defs /\ w'.rts = w.rts /\ WorkerInv'
  <1>1. w \in WorkerType
    BY Types DEF TypeInv
  <1>2. w' \in WorkerType /\ w'.do = Idle /\ w'.defs = w.defs /\ w'.rts = w.rts
    BY <1>1, ZeroTypes DEF WorkerType
  <1> QED BY <1>2, ZeroTypes DEF WorkerInv

\* What the status would be now, of what was read.
NextStatus ==
    LET s == w.do.obj
        out == applyNetworking(s.spec, w.defs)
    IN  [og |-> s.gen, cond |-> out.cond, ref |-> out.ref,
         traffic |-> IF s.spec.default \in Defs
                     THEN <<[def |-> s.spec.default, weight |-> 100]>> ELSE s.spec.traffic,
         ready |-> w.rts[resolveRuntime(s.spec)] = "up", url |-> resolveURL(s.spec)]

LEMMA UpdateStatusOK ==
  ASSUME TypeInv, updateStatus
  PROVE  /\ TypeInv' /\ w' = [w EXCEPT !.do = Idle] /\ w.do.busy /\ w.do.todo = <<>>
         /\ \/ /\ w.do.obj = svc /\ svc' = [svc EXCEPT !.status = NextStatus] /\ svc'.status = NextStatus
               /\ UNCHANGED queue
            \/ queue'
  <1>0. /\ TypeOK /\ w \in WorkerType /\ svc \in Service /\ sc \in Scenarios /\ news \subseteq Informers
        /\ cache \in CacheType /\ w.do.busy /\ w.do.todo = <<>>
    BY Types DEF TypeInv, updateStatus
  <1>1. UNCHANGED <<defs, rts, net, cache, later, sc, edits, faults>> /\ Notify
    BY DEF updateStatus
  <1>2. PICK st : st = NextStatus
    OBVIOUS
  <1>3. st \in ServiceStatus
    <2> DEFINE s == w.do.obj
               out == applyNetworking(s.spec, w.defs)
               tr == IF s.spec.default \in Defs
                     THEN <<[def |-> s.spec.default, weight |-> 100]>> ELSE s.spec.traffic
    <2>1. s \in Service /\ s.spec \in ServiceSpec /\ s.gen \in Nat /\ resolveDefinitionRefs(s.spec) # <<>>
      BY <1>0 DEF TypeInv, WorkerInv, WorkerType, DoType, Service
    <2>2. out.cond \in Conds /\ out.ref \in Kinds \cup {"none"}
      BY <1>0, <2>1, NetworkingOK, ScenarioIs DEF OutcomeOK, Kinds
    <2>3. tr \in Traffic
      <3>1. CASE s.spec.default \in Defs
        <4>1. [def |-> s.spec.default, weight |-> 100] \in [def : Defs, weight : 0..100]
          BY <3>1
        <4> QED BY <3>1, <4>1, Single DEF Traffic
      <3> QED BY <2>1, <3>1, SpecFields
    <2>4. resolveURL(s.spec) \in BOOLEAN
      BY <2>1, SpecFields DEF resolveURL, There
    <2>5. st = [og |-> s.gen, cond |-> out.cond, ref |-> out.ref, traffic |-> tr,
                ready |-> w.rts[resolveRuntime(s.spec)] = "up", url |-> resolveURL(s.spec)]
      BY <1>2 DEF NextStatus
    <2> HIDE DEF s, out, tr
    <2> QED BY <2>1, <2>2, <2>3, <2>4, <2>5 DEF ServiceStatus
  <1>4. /\ \/ w.do.obj = svc /\ svc' = [svc EXCEPT !.status = st] /\ UNCHANGED queue
           \/ queue' = TRUE /\ svc' = svc
        /\ w' = [w EXCEPT !.do = Idle]
    BY <1>2 DEF updateStatus, NextStatus, Requeue
  <1>5. w' \in WorkerType /\ WorkerInv'
    BY <1>4, StopOK
  <1>6. svc' \in Service /\ (svc' = [svc EXCEPT !.status = st] => svc'.status = st)
    BY <1>0, <1>3, <1>4 DEF Service
  <1>7. news' \subseteq Informers
    BY <1>0, <1>1, NewsType
  <1>8. TypeOK'
    BY <1>0, <1>1, <1>4, <1>5, <1>6, <1>7 DEF TypeOK, WorkerType, DoType, DefsType, RtsType
  <1> QED BY <1>0, <1>2, <1>4, <1>5, <1>6, <1>8 DEF TypeInv

LEMMA RestType == ASSUME TypeInv, RequeueAfter \/ CallFails \/ Restart PROVE TypeInv'
  <1>0. TypeOK
    BY DEF TypeInv
  <1>1. CASE RequeueAfter
    BY <1>0, <1>1 DEF RequeueAfter, TypeInv, WorkerInv, TypeOK
  <1>2. CASE CallFails
    <2>1. w' \in WorkerType /\ WorkerInv'
      BY <1>2, StopOK DEF CallFails, Requeue
    <2> QED BY <1>0, <1>2, <2>1 DEF CallFails, Requeue, Fault, TypeInv, TypeOK, WorkerType, DoType, DefsType, RtsType
  <1>3. CASE Restart
    <2>1. w' \in WorkerType /\ WorkerInv'
      BY <1>3, StopOK DEF Restart
    <2>2. queue' \in BOOLEAN /\ later' \in BOOLEAN /\ news' = {}
      BY <1>3 DEF Restart, Exists
    <2>4. faults' \in Nat
      BY <1>0, <1>3 DEF Restart, Fault, TypeOK
    <2>3. cache' \in CacheType /\ UNCHANGED <<svc, defs, rts, net, sc, edits>>
      BY <1>0, <1>3 DEF Restart, CacheType, TypeOK, DefsType, RtsType
    <2> QED BY <1>0, <2>1, <2>2, <2>3, <2>4 DEF TypeInv, TypeOK, WorkerType, DoType, DefsType, RtsType, CacheType
  <1> QED BY <1>1, <1>2, <1>3

LEMMA TypeStep == ASSUME TypeInv, [Next]_vars PROVE TypeInv'
  <1>1. CASE UNCHANGED vars
    BY <1>1 DEF vars, TypeInv, WorkerInv, TypeOK
  <1> QED BY <1>1, UsersType, CollectType, DeliverType, BeginOK, CallOK, UpdateStatusOK, RestType DEF Next, Work

\* Service, objects, caches and the worker with its list of calls keep their types; weights
\* stay between 0 and 100, whichever of two versions is the canary.
THEOREM ServiceTypeCorrect == Spec => []TypeOK
  <1>1. Spec => []TypeInv
    BY TypeInit, TypeStep, PTL DEF Spec
  <1>2. TypeInv => TypeOK
    BY DEF TypeInv
  <1> QED BY <1>1, <1>2, PTL

-----------------------------------------------------------------------------
(* The status when there is nothing left to do                             *)

Synced == ("svc" \notin news => cache.svc = svc) /\ ("net" \notin news => cache.net = net)

FitInv == /\ There(net["main"]) => ~sc.openshift
          /\ There(net["route"]) => sc.openshift
          /\ \A i \in DOMAIN w.do.todo : CallFits(w.do.todo[i])

Ref == applyNetworking(w.do.obj.spec, w.defs).ref

\* What the status is going to refer to is there or still to be made, unless the service is
\* queued again or the change that removed it is on its way.
MadeInv == w.do.busy /\ ~queue /\ "net" \notin news =>
               Ref = "none" \/ There(net[Ref]) \/ Makes(w.do.todo, Ref)

Rests == ~w.do.busy /\ ~queue /\ ~later /\ "svc" \notin news /\ "net" \notin news /\ Exists(svc)

Current ==
    /\ svc.status.og = svc.gen
    /\ svc.status.url = IF svc.spec.gateway THEN There(net["http"]) /\ svc.spec.hosted
                        ELSE There(net[IF sc.openshift THEN "route" ELSE "main"])
    /\ svc.status.ref # "none" => There(net[svc.status.ref])
    /\ svc.status.ready = (w.rts[resolveRuntime(svc.spec)] = "up")

ServiceInv == TypeInv /\ Synced /\ FitInv /\ MadeInv /\ (Rests => Current)

LEMMA NotifyTells ==
  ASSUME Notify
  PROVE  /\ "svc" \notin news' => "svc" \notin news /\ svc' = svc
         /\ "net" \notin news' => "net" \notin news /\ net' = net
  BY DEF Notify

LEMMA RefSame ==
  ASSUME w'.do.obj = w.do.obj, w'.defs = w.defs, sc' = sc
  PROVE  Ref' = Ref
  BY DEF Ref, applyNetworking, applyHTTPRoute, applyCanaryIngresses, httpRouteForService,
         ingressForService, canaryIngressForService, applyDefaultIngress, splitTrafficTargets,
         buildTrafficTargets

LEMMA RefKnown == ASSUME TypeInv, w.do.busy PROVE Ref = "none" \/ Ref \in Kinds
  <1>1. w.do.obj.spec \in ServiceSpec /\ resolveDefinitionRefs(w.do.obj.spec) # <<>> /\ sc.openshift \in BOOLEAN
    BY Types, ScenarioIs DEF TypeInv, WorkerInv, WorkerType, DoType, Service
  <1> QED BY <1>1, NetworkingOK DEF Ref, OutcomeOK, Kinds

\* What a list makes is made by its first call or by the others.
Splits(l, c, t) ==
    /\ \A k : Makes(l, k) => (c.op = "apply" /\ c.k = k) \/ Makes(t, k)
    /\ \A i \in DOMAIN t : \E j \in DOMAIN l : t[i] = l[j]
    /\ 1 \in DOMAIN l /\ c = l[1]

LEMMA HeadOrTail ==
  ASSUME NEW l \in Seq(CallType), l # <<>>, NEW c, c = Head(l), NEW t, t = Tail(l)
  PROVE  Splits(l, c, t)
  <1>1. PICK n : n = Len(l)
    OBVIOUS
  <1>2. n \in Nat \ {0} /\ DOMAIN l = 1..n /\ c = l[1]
    BY <1>1
  <1>3. DOMAIN t = 1..(n - 1) /\ \A i \in 1..(n - 1) : t[i] = l[i + 1]
    BY <1>1, <1>2, HeadTailProperties
  <1>4. \A j \in 1..n : j = 1 \/ (j - 1 \in 1..(n - 1) /\ (j - 1) + 1 = j)
    BY <1>2
  <1>5. \A i \in 1..(n - 1) : i + 1 \in 1..n
    BY <1>2
  <1>6. ASSUME NEW k, Makes(l, k) PROVE (c.op = "apply" /\ c.k = k) \/ Makes(t, k)
    <2>1. PICK j \in 1..n : l[j].op = "apply" /\ l[j].k = k
      BY <1>2, <1>6 DEF Makes
    <2>2. CASE j = 1
      BY <1>2, <2>1, <2>2
    <2>3. CASE j - 1 \in 1..(n - 1) /\ (j - 1) + 1 = j
      <3>1. j - 1 \in DOMAIN t /\ t[j - 1] = l[j]
        BY <1>3, <2>3
      <3> QED BY <2>1, <3>1 DEF Makes
    <2> QED BY <1>4, <2>2, <2>3
  <1>7. 1 \in 1..n
    BY <1>2
  <1> QED BY <1>2, <1>3, <1>5, <1>6, <1>7 DEF Splits

LEMMA ServiceInit == ASSUME Init PROVE ServiceInv
  <1>1. TypeInv
    BY TypeInit
  <1>2. /\ w.do = Idle /\ cache.svc = svc /\ cache.net = net /\ queue = Exists(svc)
        /\ \A k \in Kinds : net[k] = Nothing
    BY DEF Init
  <1>3. FitInv
    <2>1. ~There(net["main"]) /\ ~There(net["route"])
      BY <1>2, ZeroTypes DEF Kinds
    <2>2. DOMAIN w.do.todo = {}
      BY <1>2 DEF Idle
    <2> QED BY <2>1, <2>2 DEF FitInv
  <1> QED BY <1>1, <1>2, <1>3, ZeroTypes DEF ServiceInv, Synced, MadeInv, Rests

\* Steps that leave the worker and the queues as they are, and make no object.
LEMMA ServiceFrame ==
  ASSUME ServiceInv, TypeInv', Notify, UNCHANGED <<cache, queue, later, w, sc>>,
         \A k \in Kinds : There(net'[k]) => There(net[k])
  PROVE  ServiceInv'
  <1>1. Synced'
    BY NotifyTells DEF ServiceInv, Synced
  <1>2. FitInv'
    BY DEF ServiceInv, FitInv, CallFits, Kinds
  <1>3. MadeInv'
    BY NotifyTells, RefSame DEF ServiceInv, MadeInv
  <1>4. Rests' => Current'
    BY NotifyTells DEF ServiceInv, Rests, Current, resolveRuntime, resolveDefinitionRefs
  <1> QED BY <1>1, <1>2, <1>3, <1>4 DEF ServiceInv

LEMMA ServiceUsers == ASSUME ServiceInv, Users \/ \E k \in Kinds : CollectGarbage(k) PROVE ServiceInv'
  <1>1. UNCHANGED <<cache, queue, later, w, sc>> /\ Notify
    BY DEF Users, CreateService, UpdateService, DeleteService, ChangeDefinition, ChangeRuntime, TouchObject,
           CollectGarbage
  <1>2. TypeInv'
    BY UsersType, CollectType DEF ServiceInv
  <1>3. net' = net \/ \E k \in Kinds : net' = [net EXCEPT ![k] = Nothing]
    BY DEF Users, CreateService, UpdateService, DeleteService, ChangeDefinition, ChangeRuntime, TouchObject,
           CollectGarbage
  <1>4. \A k \in Kinds : There(net'[k]) => There(net[k])
    <2>1. net \in [Kinds -> ObjectType]
      BY Types DEF ServiceInv, TypeInv
    <2> QED BY <1>3, <2>1, ZeroTypes
  <1> QED BY <1>1, <1>2, <1>4, ServiceFrame

LEMMA ServiceDeliver == ASSUME ServiceInv, NEW i \in Informers, Deliver(i) PROVE ServiceInv'
  <1>0. TypeInv' /\ cache \in CacheType /\ UNCHANGED <<svc, net, later, w, sc>> /\ news' = news \ {i}
        /\ queue' = (queue \/ watches(i)) /\ queue \in BOOLEAN
    BY DeliverType, Types DEF ServiceInv, TypeInv, Deliver
  <1>1. Synced'
    BY <1>0 DEF ServiceInv, Synced, Deliver, CacheType, Informers
  <1>2. FitInv'
    BY <1>0 DEF ServiceInv, FitInv, CallFits
  <1>3. CASE queue'
    BY <1>0, <1>1, <1>2, <1>3 DEF ServiceInv, MadeInv, Rests
  <1>4. CASE ~queue'
    <2>1. ~queue /\ i # "svc" /\ i # "net"
      BY <1>0, <1>4 DEF watches
    <2>2. MadeInv'
      BY <1>0, <2>1, RefSame DEF ServiceInv, MadeInv
    <2>3. Rests' => Current'
      BY <1>0, <2>1 DEF ServiceInv, Rests, Current, resolveRuntime, resolveDefinitionRefs
    <2> QED BY <1>0, <1>1, <1>2, <2>2, <2>3 DEF ServiceInv
  <1> QED BY <1>3, <1>4

LEMMA ServiceBegin == ASSUME ServiceInv, Begin PROVE ServiceInv'
  <1>0. /\ TypeInv' /\ UNCHANGED <<svc, net, cache, news, sc>> /\ ~w.do.busy
        /\ cache \in CacheType /\ sc \in Scenarios /\ w \in WorkerType
    BY BeginOK, Types DEF ServiceInv, TypeInv, Begin
  <1>1. Synced'
    BY <1>0 DEF ServiceInv, Synced
  <1>2. CASE UNCHANGED w
    <2>1. queue' \/ later' \/ ~Exists(cache.svc)
      BY <1>2, BeginOK DEF ServiceInv
    <2>2. ~Rests'
      BY <1>0, <2>1 DEF Rests, ServiceInv, Synced
    <2> QED BY <1>0, <1>1, <1>2, <2>2 DEF ServiceInv, FitInv, CallFits, MadeInv
  <1>3. CASE w' # w
    <2> DEFINE out == applyNetworking(cache.svc.spec, cache.defs)
    <2>1. /\ w'.do.busy /\ w'.do.obj = cache.svc /\ w'.do.todo = out.todo /\ w'.defs = cache.defs
          /\ resolveDefinitionRefs(cache.svc.spec) # <<>>
      BY <1>3, BeginOK DEF ServiceInv
    <2>2. cache.svc.spec \in ServiceSpec /\ sc.openshift \in BOOLEAN
      BY <1>0, ScenarioIs DEF CacheType, Service
    <2>3. OutcomeOK(out)
      BY <2>1, <2>2, NetworkingOK
    <2>4. Ref' = out.ref
      BY <1>0, <2>1
      DEF Ref, applyNetworking, applyHTTPRoute, applyCanaryIngresses, httpRouteForService,
          ingressForService, canaryIngressForService, applyDefaultIngress, splitTrafficTargets,
          buildTrafficTargets
    <2> HIDE DEF out
    <2>5. MadeInv'
      BY <2>1, <2>3, <2>4 DEF MadeInv, OutcomeOK
    <2>6. FitInv'
      BY <1>0, <2>1, <2>3 DEF ServiceInv, FitInv, OutcomeOK, CallFits
    <2> QED BY <1>0, <1>1, <2>1, <2>5, <2>6 DEF ServiceInv, Rests
  <1> QED BY <1>2, <1>3

LEMMA ServiceCall == ASSUME ServiceInv, Call PROVE ServiceInv'
  <1>0. /\ TypeInv' /\ UNCHANGED <<svc, cache, queue, later, sc>> /\ Notify /\ w.do.busy
        /\ w.do.todo \in Seq(CallType) /\ net \in [Kinds -> ObjectType]
    BY CallOK, Types DEF ServiceInv, TypeInv, Call, WorkerType, DoType, Calls, CallType
  <1>1. PICK c \in CallType, t \in Calls :
            /\ w.do.todo # <<>> /\ c = Head(w.do.todo) /\ t = Tail(w.do.todo)
            /\ w'.do.busy /\ w'.do.obj = w.do.obj /\ w'.do.todo = t /\ w'.defs = w.defs
            /\ c.op = "delete" => net' = [net EXCEPT ![c.k] = Nothing]
            /\ c.op = "apply" => There(net'[c.k]) /\ \A k \in Kinds \ {c.k} : net'[k] = net[k]
    BY CallOK DEF ServiceInv
  <1>2. PICK l : l = w.do.todo
    OBVIOUS
  <1>3. /\ \A k : Makes(l, k) => (c.op = "apply" /\ c.k = k) \/ Makes(t, k)
        /\ \A i \in DOMAIN t : \E j \in DOMAIN l : t[i] = l[j]
        /\ 1 \in DOMAIN l /\ c = l[1]
    <2>1. l \in Seq(CallType) /\ l # <<>> /\ c = Head(l) /\ t = Tail(l)
      BY <1>0, <1>1, <1>2
    <2>2. Splits(l, c, t)
      BY <2>1, HeadOrTail, Zenon
    <2> QED BY <2>2 DEF Splits
  <1>4. Synced'
    BY <1>0, NotifyTells DEF ServiceInv, Synced
  <1>5. \A i \in DOMAIN l : CallFits(l[i])
    BY <1>2 DEF ServiceInv, FitInv
  <1>6. CallFits(c) /\ \A i \in DOMAIN t : CallFits(t[i])
    BY <1>3, <1>5
  <1>7. c.op \in {"apply", "delete"} /\ c.k \in Kinds
    BY DEF CallType
  <1>8. There(net'["main"]) => ~sc.openshift
    BY <1>0, <1>1, <1>6, <1>7, ZeroTypes DEF ServiceInv, FitInv, CallFits, Kinds
  <1>9. There(net'["route"]) => sc.openshift
    BY <1>0, <1>1, <1>6, <1>7, ZeroTypes DEF ServiceInv, FitInv, CallFits, Kinds
  <1>10. FitInv'
    BY <1>0, <1>1, <1>6, <1>8, <1>9 DEF FitInv, CallFits
  <1>11. MadeInv'
    <2>1. Ref' = Ref
      BY <1>0, <1>1, RefSame
    <2>2. ASSUME ~queue, "net" \notin news' PROVE Ref = "none" \/ There(net'[Ref]) \/ Makes(t, Ref)
      <3>1. "net" \notin news /\ net' = net
        BY <1>0, <2>2, NotifyTells
      <3>2. Ref = "none" \/ There(net[Ref]) \/ Makes(l, Ref)
        BY <1>0, <1>2, <2>2, <3>1 DEF ServiceInv, MadeInv
      <3> QED BY <1>1, <1>3, <3>1, <3>2
    <2> QED BY <1>0, <1>1, <2>1, <2>2 DEF MadeInv
  <1> QED BY <1>0, <1>1, <1>4, <1>10, <1>11 DEF ServiceInv, Rests

LEMMA ServiceStatusStep == ASSUME ServiceInv, updateStatus PROVE ServiceInv'
  <1>0. /\ TypeInv' /\ UNCHANGED <<net, cache, later, sc>> /\ Notify
        /\ w.do.busy /\ w.do.todo = <<>> /\ w \in WorkerType
        /\ w' = [w EXCEPT !.do = Idle]
    BY UpdateStatusOK, Types DEF ServiceInv, TypeInv, updateStatus
  <1>1. w'.do = Idle /\ ~w'.do.busy /\ w'.defs = w.defs /\ w'.rts = w.rts
    BY <1>0, ZeroTypes DEF WorkerType
  <1>2. Synced'
    BY <1>0, NotifyTells DEF ServiceInv, Synced
  <1>3. FitInv'
    <2>1. DOMAIN w'.do.todo = {}
      BY <1>1 DEF Idle
    <2> QED BY <1>0, <2>1 DEF ServiceInv, FitInv
  <1>4. ASSUME Rests' PROVE Current'
    <2>1. "svc" \notin news /\ "net" \notin news /\ svc' = svc /\ ~queue'
      BY <1>0, <1>4, NotifyTells DEF Rests
    <2>2. w.do.obj = svc /\ svc.status = NextStatus /\ ~queue
      BY <2>1, UpdateStatusOK DEF ServiceInv
    <2>3. /\ svc.status.og = svc.gen /\ svc.status.ref = Ref
          /\ svc.status.ready = (w.rts[resolveRuntime(svc.spec)] = "up")
          /\ svc.status.url = resolveURL(svc.spec)
      BY <2>2 DEF NextStatus, Ref
    <2>4. cache.net = net
      BY <2>1 DEF ServiceInv, Synced
    <2>5. ~Makes(w.do.todo, Ref)
      BY <1>0 DEF Makes
    <2>6. Ref = "none" \/ There(net[Ref])
      BY <1>0, <2>1, <2>2, <2>5 DEF ServiceInv, MadeInv
    <2>7. Current
      BY <2>3, <2>4, <2>6 DEF Current, resolveURL
    <2> QED BY <1>0, <1>1, <2>1, <2>7 DEF Current, resolveRuntime, resolveDefinitionRefs
  <1> QED BY <1>0, <1>1, <1>2, <1>3, <1>4 DEF ServiceInv, MadeInv

LEMMA ServiceRest == ASSUME ServiceInv, RequeueAfter \/ CallFails \/ Restart PROVE ServiceInv'
  <1>0. TypeInv' /\ w \in WorkerType /\ UNCHANGED <<svc, net, sc>>
    BY RestType, Types DEF ServiceInv, TypeInv, RequeueAfter, CallFails, Restart
  <1>1. CASE RequeueAfter
    BY <1>0, <1>1 DEF RequeueAfter, ServiceInv, Synced, FitInv, CallFits, MadeInv, Rests
  <1>2. ASSUME w' = [w EXCEPT !.do = Idle] PROVE FitInv' /\ ~w'.do.busy
    <2>1. w'.do = Idle
      BY <1>0, <1>2 DEF WorkerType
    <2>2. DOMAIN w'.do.todo = {}
      BY <2>1 DEF Idle
    <2> QED BY <1>0, <2>1, <2>2, ZeroTypes DEF ServiceInv, FitInv
  <1>3. CASE CallFails
    BY <1>0, <1>2, <1>3 DEF CallFails, Requeue, ServiceInv, Synced, MadeInv, Rests
  <1>4. CASE Restart
    <2>1. FitInv' /\ ~w'.do.busy
      BY <1>2, <1>4 DEF Restart
    <2>2. Synced'
      BY <1>4 DEF Restart, Synced
    <2>3. ~Rests'
      BY <1>4 DEF Restart, Rests, Exists
    <2> QED BY <1>0, <2>1, <2>2, <2>3 DEF ServiceInv, MadeInv
  <1> QED BY <1>1, <1>3, <1>4

LEMMA ServiceStep == ASSUME ServiceInv, [Next]_vars PROVE ServiceInv'
  <1>1. CASE UNCHANGED vars
    <2>1. TypeInv'
      BY <1>1, TypeStep DEF ServiceInv
    <2>2. \A k \in Kinds : There(net'[k]) => There(net[k])
      BY <1>1 DEF vars
    <2>3. MadeInv'
      BY <1>1, RefSame DEF vars, ServiceInv, MadeInv
    <2> QED BY <1>1, <2>1, <2>3 DEF vars, ServiceInv, Synced, FitInv, CallFits, Rests, Current, resolveRuntime,
                                    resolveDefinitionRefs, Exists
  <1> QED BY <1>1, ServiceUsers, ServiceDeliver, ServiceBegin, ServiceCall, ServiceStatusStep, ServiceRest
          DEF Next, Work

\* When all is quiet the status tells of this generation of the spec, of the URL that the
\* object has, of an object that is there, and of the runtime as it was read: whatever
\* order the informers speak in, whatever is deleted, and wherever the controller stops.
THEOREM ServiceStatusIsCurrent == Spec => []QuietStatusIsCurrent
  <1>1. Spec => []ServiceInv
    BY ServiceInit, ServiceStep, PTL DEF Spec
  <1>2. ServiceInv => QuietStatusIsCurrent
    <2>1. ASSUME ServiceInv, Quiet, Exists(svc) PROVE Rests /\ Current /\ FitInv
      BY <2>1 DEF ServiceInv, Quiet, Rests
    <2>2. ASSUME ServiceInv PROVE sc.openshift \in BOOLEAN
      BY <2>2, Types, ScenarioIs DEF ServiceInv, TypeInv
    <2> QED BY <2>1, <2>2 DEF QuietStatusIsCurrent, Current, FitInv, There
  <1> QED BY <1>1, <1>2, PTL

-----------------------------------------------------------------------------
(* The routes when there is nothing left to do                             *)

CallsOf(l) == {l[i] : i \in DOMAIN l}

\* What a list leads to, as a set of calls: nothing, an HTTPRoute with everything, a Route
\* or an Ingress without targets and nothing of a split, or a split of two.
CallsFor(s, ds) ==
    IF applyNetworking(s, ds).cond # "True" THEN {}
    ELSE IF s.gateway THEN {httpRouteForService(buildTrafficTargets(s, ds))}
    ELSE IF s.default # NoDef
         THEN {Delete("canary"), Delete("direct"), Apply(IF sc.openshift THEN "route" ELSE "main", <<>>)}
    ELSE LET split == splitTrafficTargets(s, ds)
         IN {Apply("main", <<split[1]>>), Apply("canary", <<split[2]>>), Apply("direct", <<>>)}

\* What a call makes of its object, for service o.
Effect(o, c) == IF c.op = "delete" THEN Nothing
                ELSE [uid |-> o.uid, rt |-> resolveRuntime(o.spec), to |-> c.to]

\* Uids of services still to come are new, and nothing is left of one that is gone.
Old(u) == u \in {0, 1} \/ u > edits + 1
Uids   == {svc.uid, cache.svc.uid, w.do.obj.uid} \cup {net[k].uid : k \in Kinds}
UidInv == (\A u \in Uids : Old(u)) /\ (~Exists(svc) => svc = NoSvc)

\* Whoever knows this service knows whether it has a gateway, which never changes; HTTPRoutes
\* are made for it if it has, and the others if it has not.
FormInv ==
    /\ \A o \in {cache.svc, w.do.obj} : Exists(o) /\ o.uid = svc.uid => o.spec.gateway = svc.spec.gateway
    /\ \A k \in Kinds : There(net[k]) /\ net[k].uid = svc.uid => (k = "http" <=> svc.spec.gateway)

\* What the worker read when it began.
Wanted == CallsFor(w.do.obj.spec, w.defs)
ReadInv == w.do.busy => /\ CallsOf(w.do.todo) \subseteq Wanted
                        /\ w.defs[resolveDefinitionRefs(w.do.obj.spec)[1]] \in Versions

\* Each call has still to be made, or its effect is there, unless the service is queued again
\* or the change that undid it is on its way.
DoneInv == w.do.busy /\ ~queue /\ "net" \notin news =>
               \A c \in Wanted : c \in CallsOf(w.do.todo) \/ net[c.k] = Effect(w.do.obj, c)

Routed ==
    /\ svc.status.cond = applyNetworking(svc.spec, w.defs).cond
    /\ \A c \in CallsFor(svc.spec, w.defs) : net[c.k] = Effect(svc, c)
    /\ resolveDefinitionRefs(svc.spec) # <<>> /\ w.defs[resolveDefinitionRefs(svc.spec)[1]] \in Versions

AddsUp(s) == s.traffic # <<>> => TotalWeight(s.traffic) = 100

RoutesInv == /\ ServiceInv /\ UidInv /\ FormInv /\ ReadInv /\ DoneInv /\ AddsUp(svc.spec)
             /\ Rests => Routed

LEMMA CallsOfThree ==
  ASSUME NEW a, NEW b, NEW d
  PROVE  /\ CallsOf(<<a, b, d>>) = {a, b, d} /\ CallsOf(Append(<<a, b>>, d)) = {a, b, d}
         /\ CallsOf(<<a, b>> \o <<d>>) = {a, b, d}
  <1>1. PICK S : S = {a, b, d}
    OBVIOUS
  <1>2. PICK x : x = <<a, b>>
    OBVIOUS
  <1>3. PICK y : y = Append(x, d)
    OBVIOUS
  <1>4. x \in Seq(S) /\ a \in S /\ b \in S /\ d \in S
    BY <1>1, <1>2
  <1>5. y \in Seq(S) /\ Len(y) = 3 /\ y[1] = a /\ y[2] = b /\ y[3] = d
    BY <1>2, <1>3, <1>4, ThirdAppended
  <1>6. x \o <<d>> = y
    BY <1>3, <1>4, AppendIsConcat
  <1>7. DOMAIN y = {1, 2, 3}
    BY <1>5
  <1>8. CallsOf(y) = S
    BY <1>1, <1>5, <1>7 DEF CallsOf
  <1>9. CallsOf(<<a, b, d>>) = S
    BY <1>1 DEF CallsOf
  <1> QED BY <1>1, <1>2, <1>3, <1>6, <1>8, <1>9

\* The lists are what CallsFor says, and a split that is made has two versions at most.
LEMMA NetworkingIs ==
  ASSUME NEW s \in ServiceSpec, NEW ds, resolveDefinitionRefs(s) # <<>>, sc.openshift \in BOOLEAN
  PROVE  LET out == applyNetworking(s, ds)
         IN /\ CallsOf(out.todo) = CallsFor(s, ds)
            /\ out.cond = "True" /\ ~s.gateway /\ s.default = NoDef => ~sc.openshift /\ Len(s.traffic) \in 1..2
  <1>0. s.gateway \in BOOLEAN /\ s.hosted \in BOOLEAN /\ CallsOf(<<>>) = {}
    BY SpecFields DEF CallsOf
  <1>1. CASE ~s.gateway /\ ~sc.openshift /\ ~s.hosted
    BY <1>0, <1>1 DEF applyNetworking, Outcome, CallsFor
  <1>2. CASE s.gateway
    <2>1. applyNetworking(s, ds) = applyHTTPRoute(s, ds)
      BY <1>2 DEF applyNetworking
    <2>2. CASE ~sc.gatewayAPI
      BY <1>0, <1>2, <2>1, <2>2 DEF applyHTTPRoute, Outcome, CallsFor
    <2>3. CASE sc.gatewayAPI
      <3>1. PICK a : a = httpRouteForService(buildTrafficTargets(s, ds))
        OBVIOUS
      <3>2. applyNetworking(s, ds) = Outcome(<<a>>, "True", "http")
        BY <2>1, <2>3, <3>1 DEF applyHTTPRoute
      <3>3. CallsOf(<<a>>) = {a}
        BY DEF CallsOf
      <3> QED BY <1>2, <3>1, <3>2, <3>3 DEF Outcome, CallsFor
    <2> QED BY <2>2, <2>3
  <1>3. CASE ~s.gateway /\ (sc.openshift \/ s.hosted) /\ s.default # NoDef
    <2>1. PICK a, b : a = Delete("canary") /\ b = Delete("direct")
      OBVIOUS
    <2>2. CASE sc.openshift
      <3>1. PICK d : d = Apply("route", <<>>)
        OBVIOUS
      <3>2. applyNetworking(s, ds) = Outcome(Append(<<a, b>>, d), "True", "route")
        BY <1>3, <2>1, <2>2, <3>1 DEF applyNetworking, deleteStaleCanaryIngresses, routeForDefault
      <3>3. CallsFor(s, ds) = {a, b, d}
        BY <1>3, <2>1, <2>2, <3>1, <3>2 DEF CallsFor, Outcome
      <3>4. applyNetworking(s, ds).todo = Append(<<a, b>>, d)
        BY <3>2 DEF Outcome
      <3>6. CallsOf(Append(<<a, b>>, d)) = {a, b, d}
        BY CallsOfThree, Zenon
      <3>5. CallsOf(applyNetworking(s, ds).todo) = {a, b, d}
        BY <3>4, <3>6, Zenon
      <3> QED BY <1>3, <3>3, <3>5
    <2>3. CASE ~sc.openshift
      <3>1. PICK d : d = Apply("main", <<>>)
        OBVIOUS
      <3>2. applyNetworking(s, ds) = Outcome(<<a, b>> \o <<d>>, "True", "main")
        BY <1>3, <2>1, <2>3, <3>1 DEF applyNetworking, deleteStaleCanaryIngresses, applyDefaultIngress, ingressForService
      <3>3. CallsFor(s, ds) = {a, b, d}
        BY <1>3, <2>1, <2>3, <3>1, <3>2 DEF CallsFor, Outcome
      <3>4. applyNetworking(s, ds).todo = <<a, b>> \o <<d>>
        BY <3>2 DEF Outcome
      <3>6. CallsOf(<<a, b>> \o <<d>>) = {a, b, d}
        BY CallsOfThree, Zenon
      <3>5. CallsOf(applyNetworking(s, ds).todo) = {a, b, d}
        BY <3>4, <3>6, Zenon
      <3> QED BY <1>3, <3>3, <3>5
    <2> QED BY <2>2, <2>3
  <1>4. CASE /\ ~s.gateway /\ (sc.openshift \/ s.hosted) /\ s.default = NoDef
             /\ sc.openshift \/ Len(s.traffic) > 2
    BY <1>0, <1>4 DEF applyNetworking, Outcome, CallsFor
  <1>5. CASE /\ ~s.gateway /\ (sc.openshift \/ s.hosted) /\ s.default = NoDef
             /\ ~(sc.openshift \/ Len(s.traffic) > 2)
    <2>1. Len(s.traffic) \in 1..2
      <3>1. s.default \notin Defs /\ s.traffic \in Traffic
        BY <1>5, SpecFields, ServiceConstants
      <3>2. PICK n : n = Len(s.traffic)
        OBVIOUS
      <3>3. n \in Nat
        BY <3>1, <3>2 DEF Traffic
      <3>4. n > 0 /\ ~(n > 2)
        BY <1>5, <3>1, <3>2, RefsType
      <3>5. n \in 1..2
        BY <3>3, <3>4
      <3> QED BY <3>2, <3>5
    <2>2. PICK split : split = splitTrafficTargets(s, ds)
      OBVIOUS
    <2>3. PICK a, b, d : a = Apply("main", <<split[1]>>) /\ b = Apply("canary", <<split[2]>>) /\ d = Apply("direct", <<>>)
      OBVIOUS
    <2>4. applyNetworking(s, ds) = Outcome(<<a, b, d>>, "True", "main")
      BY <1>5, <2>2, <2>3 DEF applyNetworking, applyCanaryIngresses, ingressForService,
                              canaryIngressForService, directVersionIngress
    <2>5. CallsFor(s, ds) = {a, b, d}
      BY <1>5, <2>2, <2>3, <2>4 DEF CallsFor, Outcome
    <2>6. applyNetworking(s, ds).todo = <<a, b, d>>
      BY <2>4 DEF Outcome
    <2>8. CallsOf(<<a, b, d>>) = {a, b, d}
      BY CallsOfThree, Zenon
    <2>7. CallsOf(applyNetworking(s, ds).todo) = {a, b, d}
      BY <2>6, <2>8, Zenon
    <2> QED BY <1>5, <2>1, <2>5, <2>7
  <1> QED BY <1>0, <1>1, <1>2, <1>3, <1>4, <1>5

\* HTTPRoutes are for services with a gateway only.
LEMMA FormOfCalls ==
  ASSUME NEW s \in ServiceSpec, NEW ds, resolveDefinitionRefs(s) # <<>>, sc.openshift \in BOOLEAN
  PROVE  \A c \in CallsFor(s, ds) : c \in CallType /\ (c.op = "apply" => (c.k = "http" <=> s.gateway))
  <1>1. OutcomeOK(applyNetworking(s, ds)) /\ CallsOf(applyNetworking(s, ds).todo) = CallsFor(s, ds)
    BY NetworkingOK, NetworkingIs
  <1>2. PICK l : l = applyNetworking(s, ds).todo
    OBVIOUS
  <1>3. l \in Seq(CallType)
    BY <1>1, <1>2 DEF OutcomeOK, Calls, CallType
  <1>4. \A i \in DOMAIN l : l[i] \in CallType
    BY <1>3
  <1>5. \A c \in CallsFor(s, ds) : c \in CallType
    BY <1>1, <1>2, <1>4 DEF CallsOf
  <1>6. \A c \in CallsFor(s, ds) : c.op = "apply" => (c.k = "http" <=> s.gateway)
    BY DEF CallsFor, Apply, Delete, httpRouteForService
  <1> QED BY <1>5, <1>6

\* Services and objects that are there have uids that were there before, but for a service
\* that is created.
LEMMA UidsGrow ==
  ASSUME TypeInv, [Next]_vars
  PROVE  \/ edits' = edits /\ Uids' \subseteq Uids \cup {0}
         \/ edits' = edits - 1 /\ Uids' \subseteq Uids \cup {0, 1 + edits}
  <1>0. /\ net \in [Kinds -> ObjectType] /\ w \in WorkerType /\ cache \in CacheType /\ svc \in Service
        /\ Nothing.uid = 0 /\ NoSvc.uid = 0 /\ Idle.obj = NoSvc
    BY Types DEF TypeInv, Nothing, NoSvc, Idle
  <1>1. CASE UNCHANGED vars
    BY <1>1 DEF vars, Uids
  <1>2. CASE Users
    <2>1. UNCHANGED <<cache, w>> /\ edits' = edits - 1
      BY <1>2 DEF Users, CreateService, UpdateService, DeleteService, ChangeDefinition, ChangeRuntime, TouchObject, Edit
    <2>2. svc'.uid \in {svc.uid, 0, 1 + edits}
      <3>1. ASSUME NEW s, CreateService(s) PROVE svc'.uid = 1 + edits
        BY <3>1 DEF CreateService, NoSvc
      <3>2. ASSUME NEW s, UpdateService(s) PROVE svc'.uid = svc.uid
        BY <1>0, <3>2 DEF UpdateService, Service
      <3> QED BY <1>0, <1>2, <3>1, <3>2 DEF Users, DeleteService, ChangeDefinition, ChangeRuntime, TouchObject
    <2>3. \A k \in Kinds : net'[k].uid \in {net[k].uid, 0}
      BY <1>0, <1>2 DEF Users, CreateService, UpdateService, DeleteService, ChangeDefinition, ChangeRuntime, TouchObject
    <2> QED BY <2>1, <2>2, <2>3 DEF Uids
  <1>3. ASSUME NEW k \in Kinds, CollectGarbage(k) PROVE edits' = edits /\ Uids' \subseteq Uids \cup {0}
    <2>1. \A j \in Kinds : net'[j].uid \in {net[j].uid, 0}
      BY <1>0, <1>3 DEF CollectGarbage
    <2> QED BY <1>3, <2>1 DEF CollectGarbage, Uids
  <1>4. ASSUME NEW i \in Informers, Deliver(i) PROVE edits' = edits /\ Uids' \subseteq Uids \cup {0}
    <2>1. cache'.svc.uid \in {cache.svc.uid, svc.uid}
      BY <1>0, <1>4 DEF Deliver, CacheType, Informers
    <2> QED BY <1>4, <2>1 DEF Deliver, Uids
  <1>5. CASE Begin
    <2>1. w'.do.obj.uid \in {w.do.obj.uid, cache.svc.uid}
      BY <1>5, BeginOK
    <2> QED BY <1>5, <2>1 DEF Begin, Uids
  <1>6. CASE Call
    <2>1. w'.do.obj = w.do.obj
      BY <1>6, CallOK
    <2>2. \A k \in Kinds : net'[k].uid \in {net[k].uid, 0, w.do.obj.uid}
      BY <1>0, <1>6 DEF Call
    <2> QED BY <1>6, <2>1, <2>2 DEF Call, Uids
  <1>7. CASE updateStatus
    <2>1. w'.do = Idle
      BY <1>0, <1>7, UpdateStatusOK DEF WorkerType
    <2>2. svc'.uid = svc.uid
      BY <1>0, <1>7 DEF updateStatus, Requeue, Service
    <2> QED BY <1>0, <1>7, <2>1, <2>2 DEF updateStatus, Uids
  <1>8. CASE RequeueAfter
    BY <1>8 DEF RequeueAfter, Uids
  <1>9. CASE CallFails \/ Restart
    <2>1. w' = [w EXCEPT !.do = Idle] /\ UNCHANGED <<svc, net, edits>> /\ cache'.svc.uid \in {cache.svc.uid, svc.uid}
      BY <1>9 DEF CallFails, Requeue, Restart
    <2>2. w'.do = Idle
      BY <1>0, <2>1 DEF WorkerType
    <2> QED BY <1>0, <2>1, <2>2 DEF Uids
  <1> QED BY <1>1, <1>2, <1>3, <1>4, <1>5, <1>6, <1>7, <1>8, <1>9 DEF Next, Work

LEMMA UidStep == ASSUME TypeInv, UidInv, [Next]_vars PROVE UidInv'
  <1>0. /\ edits \in Nat /\ edits' \in Nat /\ Uids \subseteq Nat /\ svc \in Service /\ w \in WorkerType
    <2>1. TypeInv'
      BY TypeStep
    <2>2. edits \in Nat /\ edits' \in Nat
      BY <2>1, Types DEF TypeInv, TypeOK
    <2>3. /\ svc \in Service /\ cache.svc \in Service /\ w.do.obj \in Service /\ net \in [Kinds -> ObjectType]
      BY Types DEF TypeInv, CacheType, WorkerType, DoType
    <2>4. Uids \subseteq Nat
      BY <2>3 DEF Uids, Service, ObjectType
    <2> QED BY <2>2, <2>3, <2>4, Types DEF TypeInv
  <1>1. ASSUME NEW u \in Uids' PROVE Old(u)'
    <2>1. CASE edits' = edits /\ Uids' \subseteq Uids \cup {0}
      BY <2>1 DEF UidInv, Old
    <2>2. CASE edits' = edits - 1 /\ Uids' \subseteq Uids \cup {0, 1 + edits}
      <3>1. CASE u = 0
        BY <3>1 DEF Old
      <3>2. CASE u = 1 + edits
        BY <1>0, <2>2, <3>2 DEF Old
      <3>3. CASE u \in Uids
        <4>1. u \in Nat /\ (u \in {0, 1} \/ u > edits + 1)
          BY <1>0, <3>3 DEF UidInv, Old
        <4> QED BY <1>0, <2>2, <4>1 DEF Old
      <3> QED BY <2>2, <3>1, <3>2, <3>3
    <2> QED BY <2>1, <2>2, UidsGrow
  <1>2. ~Exists(svc') => svc' = NoSvc
    <2>1. CASE UNCHANGED svc
      BY <2>1 DEF UidInv
    <2>2. ASSUME NEW s, CreateService(s) PROVE Exists(svc')
      <3>1. svc'.uid = 1 + edits
        BY <2>2 DEF CreateService, NoSvc
      <3> QED BY <1>0, <3>1 DEF Exists
    <2>3. ASSUME NEW s, UpdateService(s) PROVE Exists(svc')
      BY <1>0, <2>3 DEF UpdateService, Exists, Service
    <2>4. ASSUME updateStatus, svc' # svc PROVE Exists(svc')
      <3>1. w.do.obj = svc /\ w.do.busy /\ svc' = [svc EXCEPT !.status = NextStatus]
        BY <2>4 DEF updateStatus, Requeue, NextStatus
      <3>2. svc'.uid = svc.uid /\ Exists(svc)
        BY <1>0, <3>1 DEF TypeInv, WorkerInv, Service
      <3> QED BY <3>2 DEF Exists
    <2> QED BY <2>1, <2>2, <2>3, <2>4 DEF Next, Users, Work, DeleteService, ChangeDefinition, ChangeRuntime, TouchObject,
                CollectGarbage, Deliver, Begin, Call, RequeueAfter, CallFails, Restart, vars
  <1> QED BY <1>1, <1>2 DEF UidInv, Exists

\* What a service that somebody knows looks like now.
LEMMA FormStep == ASSUME TypeInv, UidInv, FormInv, ReadInv, [Next]_vars PROVE FormInv'
  <1>0. /\ net \in [Kinds -> ObjectType] /\ w \in WorkerType /\ cache \in CacheType /\ svc \in Service
        /\ cache.svc \in Service /\ w.do.obj \in Service /\ edits \in Nat /\ sc.openshift \in BOOLEAN
        /\ ~There(Nothing) /\ ~Exists(NoSvc) /\ Idle.obj = NoSvc
    BY Types, ZeroTypes, ScenarioIs DEF TypeInv, CacheType, WorkerType, DoType, Idle
  <1>1. \A o \in {cache.svc, w.do.obj} : Exists(o) /\ o.uid = svc.uid => o.spec.gateway = svc.spec.gateway
    BY DEF FormInv
  <1>2. \A k \in Kinds : There(net[k]) /\ net[k].uid = svc.uid => (k = "http" <=> svc.spec.gateway)
    BY DEF FormInv
  <1>3. CASE UNCHANGED vars
    BY <1>3 DEF vars, FormInv
  \* Users and the garbage collector change the service or remove an object.
  <1>4. ASSUME Users \/ \E k \in Kinds : CollectGarbage(k) PROVE FormInv'
    <2>1. UNCHANGED <<cache, w>>
      BY <1>4 DEF Users, CreateService, UpdateService, DeleteService, ChangeDefinition, ChangeRuntime, TouchObject,
                  CollectGarbage
    <2>2. \A k \in Kinds : net'[k] = net[k] \/ ~There(net'[k])
      BY <1>0, <1>4 DEF Users, CreateService, UpdateService, DeleteService, ChangeDefinition, ChangeRuntime, TouchObject,
                        CollectGarbage
    <2>3. CASE svc'.uid = svc.uid /\ svc'.spec.gateway = svc.spec.gateway
      BY <1>1, <1>2, <2>1, <2>2, <2>3 DEF FormInv
    <2>4. CASE svc'.uid \notin Uids \/ svc'.uid = 0
      BY <2>1, <2>2, <2>4 DEF FormInv, Uids, There, Exists
    <2>5. ASSUME NEW s, CreateService(s) PROVE svc'.uid \notin Uids
      <3>1. svc'.uid = 1 + edits /\ edits > 0
        BY <2>5 DEF CreateService, NoSvc, Edit
      <3>2. ~Old(svc'.uid)
        BY <1>0, <3>1 DEF Old
      <3> QED BY <3>2 DEF UidInv
    <2>6. ASSUME NEW s, UpdateService(s) PROVE svc'.uid = svc.uid /\ svc'.spec.gateway = svc.spec.gateway
      BY <1>0, <2>6 DEF UpdateService, validateGatewayRefImmutable, Service
    <2>7. CASE DeleteService
      BY <2>4, <2>7 DEF DeleteService, NoSvc
    <2>8. CASE UNCHANGED svc
      BY <2>3, <2>8
    <2> QED BY <1>4, <2>3, <2>4, <2>5, <2>6, <2>7, <2>8 DEF Users, ChangeDefinition, ChangeRuntime, TouchObject, CollectGarbage
  \* Informers and the start of a reconciliation copy a service.
  <1>5. ASSUME NEW i \in Informers, Deliver(i) PROVE FormInv'
    <2>1. cache'.svc \in {cache.svc, svc} /\ UNCHANGED <<svc, net, w>>
      BY <1>0, <1>5 DEF Deliver, CacheType, Informers
    <2> QED BY <1>1, <1>2, <2>1 DEF FormInv
  <1>6. CASE Begin
    <2>1. w'.do.obj \in {w.do.obj, cache.svc} /\ UNCHANGED <<svc, net, cache>>
      BY <1>6, BeginOK DEF Begin
    <2> QED BY <1>1, <1>2, <2>1 DEF FormInv
  <1>7. CASE Call
    <2>1. PICK c : c = Head(w.do.todo)
      OBVIOUS
    <2>2. /\ UNCHANGED <<svc, cache>> /\ w'.do.obj = w.do.obj /\ w.do.busy /\ w.do.todo # <<>>
          /\ net' = [net EXCEPT ![c.k] = Effect(w.do.obj, c)]
      BY <1>7, <2>1, CallOK DEF Call, Effect
    <2>3. /\ w.do.obj.spec \in ServiceSpec /\ Exists(w.do.obj) /\ resolveDefinitionRefs(w.do.obj.spec) # <<>>
      BY <1>0, <2>2 DEF TypeInv, WorkerInv, Service
    <2>4. c \in Wanted
      <3>1. w.do.todo \in Seq(CallType)
        BY <1>0 DEF WorkerType, DoType, Calls, CallType
      <3>2. 1 \in DOMAIN w.do.todo /\ c = w.do.todo[1]
        BY <2>1, <2>2, <3>1
      <3> QED BY <2>2, <3>2 DEF ReadInv, CallsOf
    <2>5. c.op = "apply" => (c.k = "http" <=> w.do.obj.spec.gateway)
      BY <1>0, <2>3, <2>4, FormOfCalls DEF Wanted
    <2>6. c.op \in {"apply", "delete"}
      BY <1>0, <2>3, <2>4, FormOfCalls DEF Wanted, CallType
    <2>7. ASSUME NEW k \in Kinds, There(net'[k]), net'[k].uid = svc.uid PROVE k = "http" <=> svc.spec.gateway
      <3>1. CASE net'[k] = net[k]
        BY <1>2, <2>7, <3>1
      <3>2. CASE k = c.k
        <4>1. net'[k] = Effect(w.do.obj, c)
          BY <1>0, <2>2, <3>2
        <4>2. c.op = "apply" /\ w.do.obj.uid = svc.uid
          BY <1>0, <2>6, <2>7, <4>1 DEF Effect
        <4> QED BY <1>1, <2>3, <2>5, <3>2, <4>2
      <3> QED BY <1>0, <2>2, <3>1, <3>2
    <2> QED BY <1>1, <2>2, <2>7 DEF FormInv
  <1>8. CASE updateStatus
    <2>1. w'.do = Idle
      BY <1>0, <1>8, UpdateStatusOK DEF WorkerType
    <2>2. svc'.uid = svc.uid /\ svc'.spec = svc.spec /\ UNCHANGED <<net, cache>>
      BY <1>0, <1>8 DEF updateStatus, Requeue, Service
    <2> QED BY <1>0, <1>1, <1>2, <2>1, <2>2 DEF FormInv
  <1>9. CASE RequeueAfter
    BY <1>9 DEF RequeueAfter, FormInv
  <1>10. CASE CallFails \/ Restart
    <2>1. w' = [w EXCEPT !.do = Idle] /\ UNCHANGED <<svc, net>> /\ cache'.svc \in {cache.svc, svc}
      BY <1>10 DEF CallFails, Requeue, Restart
    <2>2. w'.do = Idle
      BY <1>0, <2>1 DEF WorkerType
    <2> QED BY <1>0, <1>1, <1>2, <2>1, <2>2 DEF FormInv
  <1> QED BY <1>3, <1>4, <1>5, <1>6, <1>7, <1>8, <1>9, <1>10 DEF Next, Work

LEMMA WantedSame ==
  ASSUME w'.do.obj = w.do.obj, w'.defs = w.defs, sc' = sc
  PROVE  Wanted' = Wanted
  BY DEF Wanted, CallsFor, applyNetworking, applyHTTPRoute, applyCanaryIngresses, httpRouteForService,
         ingressForService, canaryIngressForService, applyDefaultIngress, splitTrafficTargets,
         buildTrafficTargets

\* The worker begins with all its calls still to be made, by what it has just read.
LEMMA BeginReads ==
  ASSUME TypeInv, Begin, w' # w
  PROVE  /\ w'.do.busy /\ CallsOf(w'.do.todo) = Wanted'
         /\ w'.defs[resolveDefinitionRefs(w'.do.obj.spec)[1]] \in Versions
  <1>0. cache \in CacheType /\ sc.openshift \in BOOLEAN /\ sc' = sc
    BY Types, ScenarioIs DEF TypeInv, Begin
  <1>1. /\ w'.do.busy /\ w'.do.obj = cache.svc /\ w'.defs = cache.defs
        /\ resolveDefinitionRefs(cache.svc.spec) # <<>> /\ cache.svc.spec \in ServiceSpec
        /\ w'.do.todo = applyNetworking(cache.svc.spec, cache.defs).todo
    BY <1>0, BeginOK DEF CacheType, Service
  <1>2. Wanted' = CallsFor(cache.svc.spec, cache.defs)
    BY <1>0, <1>1
    DEF Wanted, CallsFor, applyNetworking, applyHTTPRoute, applyCanaryIngresses, httpRouteForService,
        ingressForService, canaryIngressForService, applyDefaultIngress, splitTrafficTargets,
        buildTrafficTargets
  <1>3. CallsOf(w'.do.todo) = CallsFor(cache.svc.spec, cache.defs)
    BY <1>0, <1>1, NetworkingIs
  <1>4. NameOf(cache.defs, resolveDefinitionRefs(cache.svc.spec)[1]) # ""
    BY DEF Begin
  <1>5. cache.defs[resolveDefinitionRefs(cache.svc.spec)[1]] \in Versions
    BY <1>4 DEF NameOf
  <1> QED BY <1>1, <1>2, <1>3, <1>5 DEF resolveDefinitionRefs

\* A call is taken from the list, and has its effect.
LEMMA CallTakes ==
  ASSUME TypeInv, Call
  PROVE  \E c : /\ CallsOf(w'.do.todo) \subseteq CallsOf(w.do.todo)
                /\ CallsOf(w.do.todo) \subseteq CallsOf(w'.do.todo) \cup {c}
                /\ c.k \in Kinds /\ net' = [net EXCEPT ![c.k] = Effect(w.do.obj, c)]
  <1>1. PICK c \in CallType, t \in Calls :
            /\ w.do.todo # <<>> /\ c = Head(w.do.todo) /\ t = Tail(w.do.todo) /\ w'.do.todo = t
    BY CallOK
  <1>2. PICK l : l = w.do.todo
    OBVIOUS
  <1>3. l \in Seq(CallType) /\ l # <<>> /\ c = Head(l) /\ t = Tail(l)
    BY <1>1, <1>2, Types DEF TypeInv, WorkerType, DoType, Calls, CallType
  <1>4. PICK n : n = Len(l)
    OBVIOUS
  <1>5. n \in Nat \ {0} /\ DOMAIN l = 1..n /\ c = l[1]
    BY <1>3, <1>4
  <1>6. DOMAIN t = 1..(n - 1) /\ \A i \in 1..(n - 1) : t[i] = l[i + 1]
    BY <1>3, <1>4, <1>5, HeadTailProperties
  <1>7. \A j \in 1..n : j = 1 \/ (j - 1 \in 1..(n - 1) /\ t[j - 1] = l[j])
    BY <1>5, <1>6
  <1>8. \A i \in 1..(n - 1) : i + 1 \in 1..n
    BY <1>5
  <1>9. CallsOf(t) \subseteq CallsOf(l)
    BY <1>5, <1>6, <1>8 DEF CallsOf
  <1>11. CallsOf(l) \subseteq CallsOf(t) \cup {c}
    <2> SUFFICES ASSUME NEW j \in 1..n PROVE l[j] \in CallsOf(t) \cup {c}
      BY <1>5 DEF CallsOf
    <2> QED BY <1>5, <1>6, <1>7 DEF CallsOf
  <1>10. net' = [net EXCEPT ![c.k] = Effect(w.do.obj, c)]
    BY <1>1 DEF Call, Effect
  <1> QED BY <1>1, <1>2, <1>9, <1>10, <1>11 DEF CallType

LEMMA ReadStep == ASSUME TypeInv, ReadInv, [Next]_vars PROVE ReadInv'
  <1>0. w \in WorkerType /\ Idle.busy = FALSE
    BY Types, ZeroTypes DEF TypeInv
  <1>1. ASSUME UNCHANGED <<w, sc>> PROVE ReadInv'
    BY <1>1, WantedSame DEF ReadInv, resolveDefinitionRefs
  <1>2. CASE Begin
    BY <1>1, <1>2, BeginReads DEF ReadInv, Begin
  <1>3. CASE Call
    <2>1. w'.do.obj = w.do.obj /\ w'.defs = w.defs /\ w.do.busy /\ sc' = sc
      BY <1>3, CallOK DEF Call
    <2>2. CallsOf(w'.do.todo) \subseteq CallsOf(w.do.todo)
      BY <1>3, CallTakes
    <2> QED BY <2>1, <2>2, WantedSame DEF ReadInv, resolveDefinitionRefs
  <1>4. CASE w' = [w EXCEPT !.do = Idle]
    BY <1>0, <1>4 DEF ReadInv, WorkerType
  <1>5. Next => Begin \/ Call \/ UNCHANGED <<w, sc>> \/ w' = [w EXCEPT !.do = Idle]
    BY DEF Next, Users, CreateService, UpdateService, DeleteService, ChangeDefinition, ChangeRuntime, TouchObject,
           Deliver, CollectGarbage, Work, updateStatus, Requeue, RequeueAfter, CallFails, Restart
  <1> QED BY <1>1, <1>2, <1>3, <1>4, <1>5 DEF vars

\* While nothing is queued or announced, nobody else changes the objects.
LEMMA DoneStep == ASSUME TypeInv, DoneInv, [Next]_vars PROVE DoneInv'
  <1>0. /\ w \in WorkerType /\ Idle.busy = FALSE /\ net \in [Kinds -> ObjectType] /\ queue \in BOOLEAN
    BY Types, ZeroTypes DEF TypeInv
  <1>1. ASSUME UNCHANGED <<w, sc>>, ~queue' /\ "net" \notin news' => ~queue /\ "net" \notin news /\ net' = net
        PROVE  DoneInv'
    BY <1>1, WantedSame DEF DoneInv, Effect, resolveRuntime, resolveDefinitionRefs
  <1>2. CASE Begin
    <2>1. CASE w' = w
      BY <1>0, <1>1, <1>2, <2>1, BeginOK DEF Begin, DoneInv
    <2> QED BY <1>2, <2>1, BeginReads DEF DoneInv
  <1>3. CASE Call
    <2>1. w'.do.obj = w.do.obj /\ w'.defs = w.defs /\ w.do.busy /\ UNCHANGED <<sc, queue>> /\ Notify
      BY <1>3, CallOK DEF Call
    <2>2. PICK c : /\ CallsOf(w.do.todo) \subseteq CallsOf(w'.do.todo) \cup {c}
                   /\ c.k \in Kinds /\ net' = [net EXCEPT ![c.k] = Effect(w.do.obj, c)]
      BY <1>3, CallTakes
    <2>3. ASSUME ~queue', "net" \notin news', NEW d \in Wanted
          PROVE  d \in CallsOf(w'.do.todo) \/ net'[d.k] = Effect(w.do.obj, d)
      <3>1. ~queue /\ "net" \notin news /\ net' = net
        BY <2>1, <2>3, NotifyTells
      <3>2. CASE d = c
        BY <1>0, <2>2, <3>2
      <3> QED BY <2>1, <2>2, <2>3, <3>1, <3>2 DEF DoneInv
    <2>4. \A d : Effect(w.do.obj, d)' = Effect(w.do.obj, d)
      BY <2>1 DEF Effect, resolveRuntime, resolveDefinitionRefs
    <2>5. Wanted' = Wanted
      BY <2>1, WantedSame
    <2>6. ASSUME ~queue', "net" \notin news', NEW d \in Wanted'
          PROVE  d \in CallsOf(w'.do.todo) \/ net'[d.k] = Effect(w.do.obj, d)'
      BY <2>3, <2>4, <2>5, <2>6, Zenon
    <2> QED BY <2>6 DEF DoneInv
  <1>4. CASE w' = [w EXCEPT !.do = Idle]
    BY <1>0, <1>4 DEF DoneInv, WorkerType
  <1>5. CASE Users \/ \E k \in Kinds : CollectGarbage(k)
    <2>1. UNCHANGED <<w, sc, queue>> /\ Notify
      BY <1>5 DEF Users, CreateService, UpdateService, DeleteService, ChangeDefinition, ChangeRuntime, TouchObject,
                  CollectGarbage
    <2> QED BY <1>1, <2>1, NotifyTells
  <1>6. ASSUME NEW i \in Informers, Deliver(i) PROVE DoneInv'
    <2>1. UNCHANGED <<w, sc, net>> /\ news' = news \ {i} /\ queue' = (queue \/ watches(i))
      BY <1>6 DEF Deliver
    <2> QED BY <1>1, <2>1 DEF watches
  <1>7. CASE RequeueAfter
    BY <1>1, <1>7 DEF RequeueAfter
  <1>8. CASE UNCHANGED vars
    BY <1>1, <1>8 DEF vars
  <1>9. updateStatus \/ CallFails \/ Restart => w' = [w EXCEPT !.do = Idle]
    BY DEF updateStatus, Requeue, CallFails, Restart
  <1> QED BY <1>2, <1>3, <1>4, <1>5, <1>6, <1>7, <1>8, <1>9 DEF Next, Work

LEMMA RoutedSame ==
  ASSUME Routed, w'.defs = w.defs, UNCHANGED <<sc, svc, net>>
  PROVE  Routed'
  <1>1. /\ CallsFor(svc.spec, w.defs)' = CallsFor(svc.spec, w.defs)
        /\ applyNetworking(svc.spec, w.defs)' = applyNetworking(svc.spec, w.defs)
    BY DEF CallsFor, applyNetworking, applyHTTPRoute, applyCanaryIngresses, httpRouteForService,
           ingressForService, canaryIngressForService, applyDefaultIngress, splitTrafficTargets,
           buildTrafficTargets
  <1>2. /\ \A c : Effect(svc, c)' = Effect(svc, c)
        /\ resolveDefinitionRefs(svc.spec)' = resolveDefinitionRefs(svc.spec)
    BY DEF Effect, resolveRuntime, resolveDefinitionRefs
  <1> QED BY <1>1, <1>2 DEF Routed

LEMMA RoutedStep == ASSUME RoutesInv, [Next]_vars PROVE Rests' => Routed'
  <1>0. /\ TypeInv /\ w \in WorkerType /\ Idle.busy = FALSE
    BY Types, ZeroTypes DEF RoutesInv, ServiceInv, TypeInv
  <1>1. ASSUME UNCHANGED <<w, sc, svc, net>>, Rests PROVE Routed'
    BY <1>1, RoutedSame DEF RoutesInv
  <1>2. CASE Begin
    <2>1. UNCHANGED <<svc, news, cache>>
      BY <1>2 DEF Begin
    <2>2. w'.do.busy \/ queue' \/ later' \/ ~Exists(cache.svc)
      BY <1>0, <1>2, BeginOK
    <2> QED BY <2>1, <2>2 DEF Rests, RoutesInv, ServiceInv, Synced
  <1>3. CASE Call
    BY <1>0, <1>3, CallOK DEF Rests
  <1>4. CASE updateStatus
    <2>0. /\ UNCHANGED <<net, sc>> /\ Notify /\ w.do.busy /\ w.do.todo = <<>> /\ w' = [w EXCEPT !.do = Idle]
      BY <1>0, <1>4, UpdateStatusOK DEF updateStatus
    <2> SUFFICES ASSUME Rests' PROVE Routed'
      OBVIOUS
    <2>1. "net" \notin news /\ svc' = svc /\ ~queue' /\ w'.defs = w.defs
      BY <1>0, <2>0, NotifyTells DEF Rests, WorkerType
    <2>2. w.do.obj = svc /\ svc.status = NextStatus /\ ~queue
      BY <1>0, <1>4, <2>1, UpdateStatusOK
    <2>3. svc.status.cond = applyNetworking(svc.spec, w.defs).cond
      BY <2>2 DEF NextStatus
    <2>4. CallsOf(w.do.todo) = {}
      BY <2>0 DEF CallsOf
    <2>5. \A c \in CallsFor(svc.spec, w.defs) : net[c.k] = Effect(svc, c)
      BY <2>0, <2>1, <2>2, <2>4 DEF RoutesInv, DoneInv, Wanted
    <2>6. resolveDefinitionRefs(svc.spec) # <<>> /\ w.defs[resolveDefinitionRefs(svc.spec)[1]] \in Versions
      BY <1>0, <2>0, <2>2 DEF RoutesInv, ReadInv, TypeInv, WorkerInv
    <2>7. Routed
      BY <2>3, <2>5, <2>6 DEF Routed
    <2> QED BY <2>0, <2>1, <2>7, RoutedSame
  <1>5. CASE Users \/ \E k \in Kinds : CollectGarbage(k)
    <2>1. UNCHANGED <<w, sc, queue, later>> /\ Notify
      BY <1>5 DEF Users, CreateService, UpdateService, DeleteService, ChangeDefinition, ChangeRuntime, TouchObject,
                  CollectGarbage
    <2>2. Rests' => Rests /\ UNCHANGED <<svc, net>>
      BY <2>1, NotifyTells DEF Rests, Exists
    <2> QED BY <1>1, <2>1, <2>2
  <1>6. ASSUME NEW i \in Informers, Deliver(i) PROVE Rests' => Routed'
    <2>1. UNCHANGED <<w, sc, svc, net, later>> /\ news' = news \ {i} /\ queue' = (queue \/ watches(i))
      BY <1>6 DEF Deliver
    <2>2. Rests' => Rests
      BY <2>1 DEF Rests, watches, Exists
    <2> QED BY <1>1, <2>1, <2>2
  <1>7. CASE RequeueAfter \/ CallFails \/ Restart
    BY <1>7 DEF RequeueAfter, CallFails, Requeue, Restart, Rests, Exists
  <1>8. CASE UNCHANGED vars
    <2>1. Rests' => Rests
      BY <1>8 DEF vars, Rests, Exists
    <2> QED BY <1>1, <1>8, <2>1 DEF vars
  <1> QED BY <1>2, <1>3, <1>4, <1>5, <1>6, <1>7, <1>8 DEF Next, Work

\* The webhook lets no split in whose weights do not add up.
LEMMA AddsUpStep == ASSUME TypeInv, AddsUp(svc.spec), [Next]_vars PROVE AddsUp(svc'.spec)
  <1>0. svc \in Service /\ NoSvc.spec = NoSpec /\ NoSpec.traffic = <<>>
    BY Types DEF TypeInv, NoSvc, NoSpec
  <1>1. CASE svc'.spec = svc.spec
    BY <1>1
  <1>2. ASSUME NEW s, CreateService(s) \/ UpdateService(s) PROVE AddsUp(svc'.spec)
    <2>1. svc'.spec = s
      BY <1>0, <1>2 DEF CreateService, UpdateService, NoSvc, Service
    <2>2. AddsUp(s)
      BY <1>2 DEF CreateService, UpdateService, validate, validateTrafficConfig, AddsUp
    <2> QED BY <2>1, <2>2
  <1>3. CASE DeleteService
    BY <1>0, <1>3 DEF DeleteService, AddsUp
  <1>4. CASE updateStatus
    BY <1>0, <1>1, <1>4 DEF updateStatus, Requeue, Service
  <1> QED BY <1>1, <1>2, <1>3, <1>4 DEF Next, Users, ChangeDefinition, ChangeRuntime, TouchObject,
             Deliver, CollectGarbage, Work, Begin, Call, RequeueAfter, CallFails, Restart, vars

LEMMA RoutesStep == ASSUME RoutesInv, [Next]_vars PROVE RoutesInv'
  <1>1. TypeInv
    BY DEF RoutesInv, ServiceInv
  <1>2. AddsUp(svc.spec)'
    BY <1>1, AddsUpStep DEF RoutesInv, AddsUp, TotalWeight, Total
  <1> QED BY <1>1, <1>2, ServiceStep, UidStep, FormStep, ReadStep, DoneStep, RoutedStep DEF RoutesInv

\* The splits that were stored before the webhook served add up.
StoredAddUp == \A x \in Scenarios : \A s \in x.stored : AddsUp(s)

LEMMA RoutesInit == ASSUME StoredAddUp, Init PROVE RoutesInv
  <1>1. ServiceInv
    BY ServiceInit
  <1>2. /\ w.do = Idle /\ cache.svc = svc /\ queue = Exists(svc) /\ \A k \in Kinds : net[k] = Nothing
        /\ Idle.busy = FALSE /\ Idle.obj = NoSvc /\ NoSvc.uid = 0 /\ Nothing.uid = 0 /\ NoSvc.spec.traffic = <<>>
    BY DEF Init, Idle, NoSvc, Nothing, NoSpec
  <1>3. svc = NoSvc \/ \E s \in sc.stored : svc.uid = 1 /\ svc.spec = s
    <2>1. \A s : LET o == [NoSvc EXCEPT !.uid = 1, !.gen = 1, !.spec = s] IN o.uid = 1 /\ o.spec = s
      BY DEF NoSvc
    <2> QED BY <2>1 DEF Init
  <1>4. UidInv
    BY <1>2, <1>3 DEF UidInv, Uids, Old, Exists
  <1>5. FormInv
    BY <1>2 DEF FormInv, There, Exists
  <1>6. AddsUp(svc.spec)
    BY <1>2, <1>3 DEF StoredAddUp, AddsUp, Init
  <1> QED BY <1>1, <1>2, <1>4, <1>5, <1>6 DEF RoutesInv, ReadInv, DoneInv, Rests

\* The sums that the lists can have, one number or two.
LEMMA TotalOfOne ==
  ASSUME NEW ns \in Seq(Int), Len(ns) = 1 PROVE Total(ns) = ns[1]
  <1> DEFINE Body(f) == [n \in 0..1 |-> IF n = 0 THEN 0 ELSE f[n - 1] + ns[n]]
             g == [n \in 0..1 |-> IF n = 0 THEN 0 ELSE ns[1]]
  <1>1. 0..1 = {0, 1} /\ ns[1] \in Int
    OBVIOUS
  <1>2. g = Body(g)
    BY <1>1
  <1>3. PICK f : f = CHOOSE h : h = Body(h)
    OBVIOUS
  <1>4. f = Body(f)
    BY <1>2, <1>3, Zenon
  <1>5. f[1] = ns[1]
    BY <1>1, <1>4
  <1>6. Total(ns) = f[1]
    BY <1>3 DEF Total
  <1> QED BY <1>5, <1>6

LEMMA TotalOfTwo ==
  ASSUME NEW ns \in Seq(Int), Len(ns) = 2 PROVE Total(ns) = ns[1] + ns[2]
  <1> DEFINE Body(f) == [n \in 0..2 |-> IF n = 0 THEN 0 ELSE f[n - 1] + ns[n]]
             g == [n \in 0..2 |-> IF n = 0 THEN 0 ELSE IF n = 1 THEN ns[1] ELSE ns[1] + ns[2]]
  <1>1. 0..2 = {0, 1, 2} /\ ns[1] \in Int /\ ns[2] \in Int
    OBVIOUS
  <1>2. g = Body(g)
    BY <1>1
  <1>3. PICK f : f = CHOOSE h : h = Body(h)
    OBVIOUS
  <1>4. f = Body(f)
    BY <1>2, <1>3, Zenon
  <1>5. f[2] = ns[1] + ns[2]
    BY <1>1, <1>4
  <1>6. Total(ns) = f[2]
    BY <1>3 DEF Total
  <1> QED BY <1>5, <1>6

\* What two Ingresses leave to each of two versions is what the spec says, whichever of them
\* is the canary, and also if both entries have one version.
LEMMA SplitShares ==
  ASSUME NEW s \in ServiceSpec, Len(s.traffic) \in 1..2, AddsUp(s), NEW ds, NEW v, NEW a, NEW b,
         a = splitTrafficTargets(s, ds)[1], b = splitTrafficTargets(s, ds)[2]
  PROVE  (IF b.version = v THEN b.weight ELSE 0) + (IF a.version = v THEN 100 - b.weight ELSE 0)
         = Total([i \in DOMAIN s.traffic |-> IF VersionOf(ds, s.traffic[i].def) = v THEN s.traffic[i].weight ELSE 0])
  <1> DEFINE Ver(i) == VersionOf(ds, s.traffic[i].def)
             wt(i)  == s.traffic[i].weight
             all    == [i \in DOMAIN s.traffic |-> wt(i)]
             some   == [i \in DOMAIN s.traffic |-> IF Ver(i) = v THEN wt(i) ELSE 0]
  <1>0. PICK p : p = PrimaryIndex(s.traffic)
    OBVIOUS
  <1>1. p \in DOMAIN s.traffic /\ DOMAIN s.traffic = 1..Len(s.traffic) /\ \A i \in DOMAIN s.traffic : wt(i) \in 0..100
    BY <1>0, PrimaryIs, SpecFields
  <1>2. /\ a.version = Ver(p) /\ a.weight = wt(p)
        /\ 3 - p \in DOMAIN s.traffic => b.version = Ver(3 - p) /\ b.weight = wt(3 - p)
        /\ 3 - p \notin DOMAIN s.traffic => b.weight = 0
    BY <1>0 DEF splitTrafficTargets, Target
  <1>3. Total(all) = 100
    BY <1>1 DEF AddsUp, TotalWeight
  <1> HIDE DEF Ver
  <1>4. CASE Len(s.traffic) = 1
    <2>1. DOMAIN s.traffic = {1} /\ p = 1 /\ 3 - p \notin DOMAIN s.traffic /\ wt(1) \in Int
      BY <1>1, <1>4
    <2>2. all \in Seq(Int) /\ Len(all) = 1 /\ all[1] = wt(1)
      BY <1>1, <1>4, <2>1
    <2>3. some \in Seq(Int) /\ Len(some) = 1 /\ some[1] = IF Ver(1) = v THEN wt(1) ELSE 0
      BY <1>1, <1>4, <2>1
    <2> HIDE DEF some, all, wt
    <2>4. wt(1) = 100 /\ Total(some) = IF Ver(1) = v THEN wt(1) ELSE 0
      BY <1>3, <2>2, <2>3, TotalOfOne
    <2>5. (IF b.version = v THEN b.weight ELSE 0) + (IF a.version = v THEN 100 - b.weight ELSE 0) = Total(some)
      BY <1>2, <2>1, <2>4
    <2> QED BY <2>5 DEF some, Ver, wt
  <1>5. CASE Len(s.traffic) = 2
    <2>1. DOMAIN s.traffic = {1, 2} /\ p \in {1, 2} /\ wt(1) \in Int /\ wt(2) \in Int
      BY <1>1, <1>5
    <2>2. all \in Seq(Int) /\ Len(all) = 2 /\ all[1] = wt(1) /\ all[2] = wt(2)
      BY <1>1, <1>5, <2>1
    <2>3. /\ some \in Seq(Int) /\ Len(some) = 2 /\ some[1] = IF Ver(1) = v THEN wt(1) ELSE 0
          /\ some[2] = IF Ver(2) = v THEN wt(2) ELSE 0
      BY <1>1, <1>5, <2>1
    <2> HIDE DEF some, all, wt
    <2>4. /\ wt(1) + wt(2) = 100
          /\ Total(some) = (IF Ver(1) = v THEN wt(1) ELSE 0) + (IF Ver(2) = v THEN wt(2) ELSE 0)
      BY <1>3, <2>2, <2>3, TotalOfTwo
    <2>5. (IF b.version = v THEN b.weight ELSE 0) + (IF a.version = v THEN 100 - b.weight ELSE 0) = Total(some)
      BY <1>2, <2>1, <2>4
    <2> QED BY <2>5 DEF some, Ver, wt
  <1> QED BY <1>4, <1>5

\* A service that is ready and at rest, and what is there for it.
Ready == /\ Quiet /\ Exists(svc) /\ svc.status.cond = "True" /\ svc.spec.default # Empty
         /\ RoutesInv /\ Routed

LEMMA ReadyFacts ==
  ASSUME Ready
  PROVE  /\ net \in [Kinds -> ObjectType] /\ svc.spec \in ServiceSpec /\ sc.openshift \in BOOLEAN
         /\ applyNetworking(svc.spec, w.defs).cond = "True"
         /\ \A c \in CallsFor(svc.spec, w.defs) : c.k \in Kinds /\ net[c.k] = Effect(svc, c)
         /\ \A k \in Kinds : There(net[k]) => (k = "http" <=> svc.spec.gateway)
         /\ There(net["main"]) => ~sc.openshift
         /\ There(net["route"]) => sc.openshift
         /\ \A k, to : LET o == Effect(svc, Apply(k, to))
                       IN There(o) /\ o.rt = resolveRuntime(svc.spec) /\ o.to = to
         /\ \A k : Effect(svc, Delete(k)) = Nothing /\ ~There(Nothing)
  <1>1. /\ net \in [Kinds -> ObjectType] /\ svc.spec \in ServiceSpec /\ sc.openshift \in BOOLEAN
        /\ resolveDefinitionRefs(svc.spec) # <<>>
    BY Types, ScenarioIs DEF Ready, RoutesInv, ServiceInv, TypeInv, Service, Routed
  <1>2. \A c \in CallsFor(svc.spec, w.defs) : c.k \in Kinds
    BY <1>1, FormOfCalls DEF CallType
  <1>3. \A k, to : LET o == Effect(svc, Apply(k, to))
                   IN There(o) /\ o.rt = resolveRuntime(svc.spec) /\ o.to = to
    BY DEF Effect, Apply, There, Ready, Exists
  <1>4. \A k : Effect(svc, Delete(k)) = Nothing /\ ~There(Nothing)
    BY DEF Effect, Delete, There, Nothing
  <1> QED BY <1>1, <1>2, <1>3, <1>4 DEF Ready, Quiet, RoutesInv, ServiceInv, FitInv, FormInv, Routed

RoutesAreAsked ==
    LET s == svc.spec
    IN  /\ \A k \in Kinds : There(net[k]) => net[k].rt = resolveRuntime(s)
        /\ s.default = NoDef => \A v \in Versions : Share(v) = Asked(s, v)
        /\ s.default # NoDef /\ s.gateway => Share(w.defs[s.default]) = 100
        /\ s.default # NoDef => ~There(net["canary"]) /\ ~There(net["direct"])
        /\ Cardinality({k \in {"main", "route", "http"} : There(net[k])}) = 1

LEMMA RoutesOfGateway == ASSUME Ready, svc.spec.gateway PROVE RoutesAreAsked
  <1> DEFINE s == svc.spec
  <1>1. PICK to : to = buildTrafficTargets(s, w.defs)
    OBVIOUS
  <1>2. Apply("http", to) \in CallsFor(s, w.defs)
    BY <1>1, ReadyFacts DEF CallsFor, httpRouteForService
  <1>3. There(net["http"]) /\ net["http"].to = to /\ net["http"].rt = resolveRuntime(s)
    BY <1>2, ReadyFacts DEF Apply
  <1>4. \A k \in Kinds \ {"http"} : ~There(net[k])
    BY ReadyFacts
  <1>5. Cardinality({k \in {"main", "route", "http"} : There(net[k])}) = 1
    <2>1. {k \in {"main", "route", "http"} : There(net[k])} = {"http"}
      BY <1>3, <1>4 DEF Kinds
    <2> QED BY <2>1, FS_Singleton
  <1>6. \A v : Share(v) = Total([i \in DOMAIN to |-> IF to[i].version = v THEN to[i].weight ELSE 0])
    BY <1>3 DEF Share
  <1>7. ASSUME s.default = NoDef, NEW v PROVE Share(v) = Asked(s, v)
    <2>1. to = [i \in DOMAIN s.traffic |-> Target(VersionOf(w.defs, s.traffic[i].def), s.traffic[i].weight)]
      BY <1>1, <1>7 DEF buildTrafficTargets
    <2>2. [i \in DOMAIN to |-> IF to[i].version = v THEN to[i].weight ELSE 0]
          = [i \in DOMAIN s.traffic |-> IF VersionOf(w.defs, s.traffic[i].def) = v THEN s.traffic[i].weight ELSE 0]
      BY <2>1 DEF Target
    <2> QED BY <1>6, <2>2 DEF Asked
  <1>8. ASSUME s.default # NoDef PROVE Share(w.defs[s.default]) = 100
    <2>1. s.default \in Defs
      BY <1>8, ReadyFacts DEF Ready, ServiceSpec
    <2>2. PICK v : v = w.defs[s.default]
      OBVIOUS
    <2>3. resolveDefinitionRefs(s) = <<s.default>> /\ v \in Versions
      BY <2>1, <2>2 DEF resolveDefinitionRefs, Ready, Routed
    <2>7. VersionOf(w.defs, resolveDefinitionRefs(s)[1]) = v
      <3>1. <<s.default>>[1] = s.default
        OBVIOUS
      <3> QED BY <2>2, <2>3, <3>1 DEF VersionOf
    <2>4. to = <<Target(v, 100)>>
      BY <1>1, <1>8, <2>7 DEF buildTrafficTargets
    <2>5. PICK ns : ns = [i \in DOMAIN to |-> IF to[i].version = v THEN to[i].weight ELSE 0]
      OBVIOUS
    <2>6. ns \in Seq(Int) /\ Len(ns) = 1 /\ ns[1] = 100
      <3>1. DOMAIN to = 1..1 /\ to[1].version = v /\ to[1].weight = 100
        BY <2>4 DEF Target
      <3>2. ns = [i \in 1..1 |-> 100]
        BY <2>5, <3>1
      <3> QED BY <3>2
    <2>8. Total(ns) = 100
      BY <2>6, TotalOfOne
    <2> QED BY <1>6, <2>2, <2>5, <2>8, Zenon
  <1> QED BY <1>3, <1>4, <1>5, <1>7, <1>8 DEF RoutesAreAsked, Kinds

LEMMA RoutesOfDefault == ASSUME Ready, ~svc.spec.gateway, svc.spec.default # NoDef PROVE RoutesAreAsked
  <1>1. PICK k : k = IF sc.openshift THEN "route" ELSE "main"
    OBVIOUS
  <1>2. CallsFor(svc.spec, w.defs) = {Delete("canary"), Delete("direct"), Apply(k, <<>>)}
    BY <1>1, ReadyFacts DEF CallsFor
  <1>3. net["canary"] = Nothing /\ net["direct"] = Nothing
    <2>1. Delete("canary").k = "canary" /\ Delete("direct").k = "direct"
      BY DEF Delete
    <2> QED BY <1>2, <2>1, ReadyFacts
  <1>4. There(net[k]) /\ net[k].rt = resolveRuntime(svc.spec)
    <2>1. Apply(k, <<>>).k = k
      BY DEF Apply
    <2> QED BY <1>2, <2>1, ReadyFacts
  <1>5. \A j \in Kinds \ {k} : ~There(net[j])
    BY <1>1, <1>3, ReadyFacts DEF Kinds
  <1>6. Cardinality({j \in {"main", "route", "http"} : There(net[j])}) = 1
    <2>1. {j \in {"main", "route", "http"} : There(net[j])} = {k}
      BY <1>1, <1>4, <1>5 DEF Kinds
    <2> QED BY <2>1, FS_Singleton
  <1> QED BY <1>3, <1>4, <1>5, <1>6, ReadyFacts DEF RoutesAreAsked

LEMMA RoutesOfSplit == ASSUME Ready, ~svc.spec.gateway, svc.spec.default = NoDef PROVE RoutesAreAsked
  <1> DEFINE s == svc.spec
  <1>1. PICK a, b : a = splitTrafficTargets(s, w.defs)[1] /\ b = splitTrafficTargets(s, w.defs)[2]
    OBVIOUS
  <1>2. CallsFor(s, w.defs) = {Apply("main", <<a>>), Apply("canary", <<b>>), Apply("direct", <<>>)}
    BY <1>1, ReadyFacts DEF CallsFor
  <1>3. ~sc.openshift /\ Len(s.traffic) \in 1..2
    BY NetworkingIs, ReadyFacts DEF Ready, Routed
  <1>4. /\ There(net["main"]) /\ net["main"].to = <<a>> /\ net["main"].rt = resolveRuntime(s)
        /\ There(net["canary"]) /\ net["canary"].to = <<b>> /\ net["canary"].rt = resolveRuntime(s)
        /\ There(net["direct"]) /\ net["direct"].rt = resolveRuntime(s)
    <2>1. \A k, to : Apply(k, to).k = k
      BY DEF Apply
    <2> QED BY <1>2, <2>1, ReadyFacts
  <1>5. ~There(net["route"]) /\ ~There(net["http"])
    BY <1>3, ReadyFacts DEF Kinds
  <1>6. Cardinality({k \in {"main", "route", "http"} : There(net[k])}) = 1
    <2>1. {k \in {"main", "route", "http"} : There(net[k])} = {"main"}
      BY <1>4, <1>5
    <2> QED BY <2>1, FS_Singleton
  <1>7. ASSUME NEW v PROVE Share(v) = Asked(s, v)
    <2>1. <<a>> # <<>> /\ <<a>>[1] = a /\ <<b>> # <<>> /\ <<b>>[1] = b
      OBVIOUS
    <2>2. Share(v) = (IF b.version = v THEN b.weight ELSE 0) + (IF a.version = v THEN 100 - b.weight ELSE 0)
      BY <1>4, <1>5, <2>1 DEF Share
    <2>3. AddsUp(s) /\ s \in ServiceSpec
      BY ReadyFacts DEF Ready, RoutesInv
    <2> QED BY <1>1, <1>3, <2>2, <2>3, SplitShares DEF Asked
  <1> QED BY <1>4, <1>5, <1>6, <1>7 DEF RoutesAreAsked, Kinds

\* When all is quiet and the service says that it is ready, its requests are shared out as
\* its spec asks and nothing of an earlier spec takes any, for every sequence of specs that
\* the webhook lets in, whatever was applied before, deleted, failed or restarted in between.
THEOREM RoutesAsAsked == StoredAddUp /\ Spec => []QuietRoutesAsAsked
  <1>1. StoredAddUp /\ Spec => []RoutesInv
    <2>1. StoredAddUp /\ Init => RoutesInv
      BY RoutesInit
    <2>2. RoutesInv /\ [Next]_vars => RoutesInv'
      BY RoutesStep
    <2> QED BY <2>1, <2>2, PTL DEF Spec
  <1>2. RoutesInv => QuietRoutesAsAsked
    <2> SUFFICES ASSUME RoutesInv, Quiet, svc.status.cond = "True", svc.spec.default # Empty
                 PROVE  RoutesAreAsked
      BY DEF QuietRoutesAsAsked, RoutesAreAsked
    <2>1. Exists(svc)
      <3>1. NoSvc.status.cond = "none"
        BY DEF NoSvc, NoStatus
      <3> QED BY <3>1 DEF RoutesInv, UidInv
    <2>2. Ready
      BY <2>1 DEF Ready, RoutesInv, Rests, Quiet
    <2>3. svc.spec.gateway \in BOOLEAN
      BY <2>2, ReadyFacts, SpecFields
    <2> QED BY <2>2, <2>3, RoutesOfGateway, RoutesOfDefault, RoutesOfSplit
  <1> QED BY <1>1, <1>2, PTL
=============================================================================
