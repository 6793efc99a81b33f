--------------------------- MODULE ManifestsProofs ---------------------------
(***************************************************************************)
(* What is applied for every object that users can submit: defaulting is   *)
(* settled after the first time, and everything that the operator builds   *)
(* fits together.                                                          *)
(***************************************************************************)
EXTENDS Manifests, TLAPS, WellFoundedInduction

Releases == 0..MaxRelease

-----------------------------------------------------------------------------
(* Defaults that are applied twice, by operators of two releases           *)

LEMMA ImageIsSet ==
  ASSUME NEW repo \in {"runner", "data-index", "vector", "gateway"}, NEW v \in {Nil, "minimal", "standard"},
         NEW n \in Releases
  PROVE  Image(repo, v, n) # Nil
  <1>1. Image(repo, v, n) \in Images
    BY DEF Images, Releases
  <1> QED BY <1>1, ManifestConstants

\* What defaulting an application leaves as the user had it.
SameApp(a, b) ==
    /\ b.container = a.container /\ b.podTemplate.container = a.podTemplate.container
    /\ b.podTemplate.labels = a.podTemplate.labels /\ b.podTemplate.volumes = a.podTemplate.volumes

LEMMA PersistenceTwice ==
  ASSUME NEW p, PersistenceSpec(p), NEW q, q = DefaultPersistence(p)
  PROVE  PersistenceSpec(q) /\ DefaultPersistence(q) = q
  BY DEF PersistenceSpec, DefaultPersistence, HasPersistence, Record, userKey, passwordKey, Or, PostgreSQL

LEMMA RuntimeAppTwice ==
  ASSUME NEW a, ApplicationSpec(a)
  PROVE  /\ ApplicationSpec(DefaultRunnerApp(a)) /\ SameApp(a, DefaultRunnerApp(a)) /\ DefaultRunnerApp(a).image = a.image
         /\ DefaultRunnerApp(DefaultRunnerApp(a)) = DefaultRunnerApp(a)
  BY DEF DefaultRunnerApp, ApplicationSpec, Record, NoApplication, SameApp, Or

LEMMA DataIndexAppTwice ==
  ASSUME NEW a, ApplicationSpec(a), NEW i, i # Nil
  PROVE  LET b == DefaultDataIndexApp(a, i)
         IN ApplicationSpec(b) /\ SameApp(a, b) /\ b.image # Nil /\ \A j : DefaultDataIndexApp(b, j) = b
  BY DEF DefaultDataIndexApp, ApplicationSpec, Record, NoApplication, SameApp, Or

LEMMA GatewayAppTwice ==
  ASSUME NEW a, ApplicationSpec(a), NEW i, i # Nil
  PROVE  LET b == DefaultGatewayApp(a, i)
         IN ApplicationSpec(b) /\ SameApp(a, b) /\ b.image # Nil /\ \A j : DefaultGatewayApp(b, j) = b
  BY DEF DefaultGatewayApp, ApplicationSpec, Record, NoApplication, SameApp, Or

LEMMA VectorAppTwice ==
  ASSUME NEW a, ApplicationSpec(a), NEW i, i # Nil, NEW b, b = DefaultVectorApp(a, i)
  PROVE  ApplicationSpec(b) /\ SameApp(a, b) /\ b.image # Nil /\ \A j : DefaultVectorApp(b, j) = b
  <1>1. PICK p : p = [a.podTemplate EXCEPT !.account = "vector"]
    OBVIOUS
  <1>2. /\ Record(p, DOMAIN NoPodTemplate) /\ p.container = a.podTemplate.container
        /\ p.labels = a.podTemplate.labels /\ p.volumes = a.podTemplate.volumes /\ p.sidecars = a.podTemplate.sidecars
        /\ [p EXCEPT !.account = "vector"] = p
    BY <1>1 DEF ApplicationSpec, Record, NoPodTemplate
  <1>3. b = [a EXCEPT !.image = Or(@, i), !.resources = Or(@, "vector"), !.podTemplate = p]
    BY <1>1 DEF DefaultVectorApp
  <1>4. /\ Record(b, DOMAIN NoApplication) /\ b.podTemplate = p /\ b.container = a.container
        /\ b.image = Or(a.image, i) /\ b.resources = Or(a.resources, "vector")
    BY <1>3 DEF ApplicationSpec, Record, NoApplication
  <1>5. ApplicationSpec(b) /\ SameApp(a, b) /\ b.image # Nil
    BY <1>2, <1>4 DEF ApplicationSpec, SameApp, Or
  <1>6. ASSUME NEW j PROVE DefaultVectorApp(b, j) = b
    <2>1. Or(b.image, j) = b.image /\ Or(b.resources, "vector") = b.resources
      BY <1>4, <1>5 DEF Or
    <2>2. [b.podTemplate EXCEPT !.account = "vector"] = b.podTemplate
      BY <1>2, <1>4
    <2> QED BY <1>4, <2>1, <2>2 DEF Record, NoApplication, DefaultVectorApp
  <1> QED BY <1>5, <1>6

\* What a defaulted runtime and a defaulted platform have.
GatewaySpec(gw) == gw # Nil => Record(gw, {"app", "ingress"}) /\ ApplicationSpec(gw.app)
VectorSpec(v) ==
    v # Nil => Record(v, {"enabled", "watchNamespaces", "debugEvents", "app"}) /\ ApplicationSpec(v.app)
DataIndexSpec(di) ==
    /\ Record(di, {"enabled", "app", "persistence", "vector", "ingress"})
    /\ ApplicationSpec(di.app) /\ PersistenceSpec(di.persistence) /\ VectorSpec(di.vector)

SameGateway(gw, g) ==
    /\ gw = Nil => g = Nil
    /\ g # Nil => gw # Nil /\ g.ingress = gw.ingress /\ SameApp(gw.app, g.app) /\ g.app.image # Nil
SameVector(v, x) ==
    /\ v = Nil => x = Nil
    /\ x # Nil => /\ v # Nil /\ x.enabled = v.enabled /\ SameApp(v.app, x.app)
                  /\ x.enabled => x.app.image # Nil
SameDataIndex(di, d) ==
    /\ d.enabled = di.enabled /\ d.ingress = di.ingress /\ SameVector(di.vector, d.vector)
    /\ SameApp(di.app, d.app)
    /\ d.enabled => d.app.image # Nil

LEMMA GatewayTwice ==
  ASSUME NEW gw, GatewaySpec(gw), NEW r \in Releases, NEW g, g = DefaultGateway(gw, r)
  PROVE  GatewaySpec(g) /\ SameGateway(gw, g) /\ \A s \in Releases : DefaultGateway(g, s) = g
  <1>1. CASE gw = Nil
    BY <1>1 DEF DefaultGateway, GatewaySpec, SameGateway
  <1>2. CASE gw # Nil
    <2>1. PICK i : i = Image("gateway", Nil, r)
      OBVIOUS
    <2>2. PICK b : b = DefaultGatewayApp(gw.app, i)
      OBVIOUS
    <2>3. i # Nil
      BY <2>1, ImageIsSet
    <2>4. /\ ApplicationSpec(b) /\ SameApp(gw.app, b) /\ b.image # Nil
          /\ \A j : DefaultGatewayApp(b, j) = b
      BY <1>2, <2>2, <2>3, GatewayAppTwice DEF GatewaySpec
    <2>5. Record(gw, {"app", "ingress"}) /\ g = [gw EXCEPT !.app = b]
      BY <1>2, <2>1, <2>2 DEF DefaultGateway, GatewaySpec, DefaultGatewayApp
    <2>6. g.app = b /\ g.ingress = gw.ingress /\ Record(g, {"app", "ingress"}) /\ [g EXCEPT !.app = b] = g
      BY <2>5 DEF Record
    <2>7. \A s \in Releases : DefaultGateway(g, s) = g
      BY <2>4, <2>6 DEF DefaultGateway, DefaultGatewayApp
    <2> QED BY <1>2, <2>4, <2>6, <2>7 DEF GatewaySpec, SameGateway
  <1> QED BY <1>1, <1>2

LEMMA VectorTwice ==
  ASSUME NEW v, VectorSpec(v), NEW ns, NEW x, x = DefaultVector(v, ns)
  PROVE  VectorSpec(x) /\ SameVector(v, x) /\ DefaultVector(x, ns) = x
  <1>1. CASE v = Nil \/ ~v.enabled
    BY <1>1 DEF DefaultVector, VectorSpec, SameVector, SameApp
  <1>2. CASE ~(v = Nil \/ ~v.enabled)
    <2>1. PICK i : i = Image("vector", Nil, 0)
      OBVIOUS
    <2>2. PICK b : b = DefaultVectorApp(v.app, i)
      OBVIOUS
    <2>3. i # Nil
      BY <2>1, ImageIsSet, ManifestConstants DEF Releases
    <2>4. /\ ApplicationSpec(b) /\ SameApp(v.app, b) /\ b.image # Nil
          /\ \A j : DefaultVectorApp(b, j) = b
      BY <1>2, <2>2, <2>3, VectorAppTwice DEF VectorSpec
    <2>5. PICK n : n = Or(v.watchNamespaces, <<ns>>)
      OBVIOUS
    <2>6. /\ Record(v, {"enabled", "watchNamespaces", "debugEvents", "app"})
          /\ x = [v EXCEPT !.app = b, !.watchNamespaces = n]
      BY <1>2, <2>1, <2>2, <2>5 DEF DefaultVector, VectorSpec, DefaultVectorApp
    <2>7. /\ x.app = b /\ x.watchNamespaces = n /\ x.enabled = v.enabled
          /\ Record(x, {"enabled", "watchNamespaces", "debugEvents", "app"})
          /\ [x EXCEPT !.app = b, !.watchNamespaces = n] = x
      BY <2>6 DEF Record
    <2>8. Or(n, <<ns>>) = n
      BY <2>5 DEF Or
    <2>9. DefaultVector(x, ns) = x
      <3>1. DefaultVectorApp(x.app, i) = b /\ Or(x.watchNamespaces, <<ns>>) = n
        BY <2>4, <2>7, <2>8
      <3>2. CASE x = Nil \/ ~x.enabled
        BY <3>2 DEF DefaultVector
      <3>3. CASE ~(x = Nil \/ ~x.enabled)
        <4>1. DefaultVector(x, ns) = [x EXCEPT !.app = DefaultVectorApp(x.app, i),
                                               !.watchNamespaces = Or(x.watchNamespaces, <<ns>>)]
          BY <3>3, <2>1 DEF DefaultVector, DefaultVectorApp
        <4> QED BY <2>7, <3>1, <4>1
      <3> QED BY <3>2, <3>3
    <2> QED BY <1>2, <2>4, <2>7, <2>9 DEF VectorSpec, SameVector
  <1> QED BY <1>1, <1>2

\* The Data Index with its Vector, as the platform's defaults leave it.
DefaultedDataIndex(di, ns, r) ==
    [DefaultDataIndex(di, r) EXCEPT !.vector = DefaultVector(di.vector, ns)]

LEMMA DataIndexTwice ==
  ASSUME NEW di, DataIndexSpec(di), NEW ns, NEW r \in Releases, NEW d, d = DefaultedDataIndex(di, ns, r)
  PROVE  DataIndexSpec(d) /\ SameDataIndex(di, d) /\ \A s \in Releases : DefaultedDataIndex(d, ns, s) = d
  <1>1. PICK x : x = DefaultVector(di.vector, ns)
    OBVIOUS
  <1>2. VectorSpec(x) /\ SameVector(di.vector, x) /\ DefaultVector(x, ns) = x
    BY <1>1, VectorTwice DEF DataIndexSpec
  <1>3. CASE ~di.enabled
    <2>1. d = [di EXCEPT !.vector = x]
      BY <1>1, <1>3 DEF DefaultedDataIndex, DefaultDataIndex
    <2>2. /\ Record(d, {"enabled", "app", "persistence", "vector", "ingress"}) /\ d.vector = x
          /\ d.enabled = di.enabled /\ d.ingress = di.ingress /\ d.app = di.app /\ d.persistence = di.persistence
          /\ [d EXCEPT !.vector = x] = d
      BY <2>1 DEF DataIndexSpec, Record
    <2>3. \A s \in Releases : DefaultedDataIndex(d, ns, s) = d
      BY <1>2, <1>3, <2>2 DEF DefaultedDataIndex, DefaultDataIndex
    <2> QED BY <1>2, <1>3, <2>2, <2>3 DEF DataIndexSpec, SameDataIndex, SameApp
  <1>4. CASE di.enabled
    <2>1. PICK i : i = Image("data-index", Nil, r)
      OBVIOUS
    <2>2. PICK b : b = DefaultDataIndexApp(di.app, i)
      OBVIOUS
    <2>3. PICK q : q = DefaultPersistence(di.persistence)
      OBVIOUS
    <2>4. i # Nil
      BY <2>1, ImageIsSet
    <2>5. /\ ApplicationSpec(b) /\ SameApp(di.app, b) /\ b.image # Nil
          /\ \A j : DefaultDataIndexApp(b, j) = b
      BY <2>2, <2>4, DataIndexAppTwice DEF DataIndexSpec
    <2>6. PersistenceSpec(q) /\ DefaultPersistence(q) = q
      BY <2>3, PersistenceTwice DEF DataIndexSpec
    <2>7. d = [di EXCEPT !.app = b, !.persistence = q, !.vector = x]
      BY <1>1, <1>4, <2>1, <2>2, <2>3 DEF DefaultedDataIndex, DefaultDataIndex, DefaultDataIndexApp
    <2>8. /\ Record(d, {"enabled", "app", "persistence", "vector", "ingress"}) /\ d.vector = x
          /\ d.enabled = di.enabled /\ d.ingress = di.ingress /\ d.app = b /\ d.persistence = q
          /\ [d EXCEPT !.app = b, !.persistence = q, !.vector = x] = d
      BY <2>7 DEF DataIndexSpec, Record
    <2>9. ASSUME NEW s \in Releases PROVE DefaultedDataIndex(d, ns, s) = d
      <3>1. PICK j : j = Image("data-index", Nil, s)
        OBVIOUS
      <3>2. DefaultDataIndex(d, s) = [d EXCEPT !.app = DefaultDataIndexApp(d.app, j),
                                               !.persistence = DefaultPersistence(d.persistence)]
        BY <1>4, <2>8, <3>1 DEF DefaultDataIndex, DefaultDataIndexApp
      <3>3. DefaultDataIndex(d, s) = [d EXCEPT !.app = b, !.persistence = q]
        BY <2>5, <2>6, <2>8, <3>2
      <3> QED BY <1>2, <2>8, <3>3 DEF DefaultedDataIndex
    <2> QED BY <1>2, <2>5, <2>6, <2>8, <2>9 DEF DataIndexSpec, SameDataIndex
  <1> QED BY <1>3, <1>4

SameRuntime(o, q) ==
    /\ q.name = o.name /\ q.labels = o.labels /\ q.persistence = o.persistence /\ q.security = o.security
    /\ q.logging = o.logging /\ q.flows = o.flows /\ SameApp(o.app, q.app) /\ q.app.image = o.app.image
SamePlatform(o, q) ==
    /\ q.name = o.name /\ q.namespace = o.namespace /\ q.labels = o.labels
    /\ SameDataIndex(o.dataIndex, q.dataIndex) /\ SameGateway(o.gateway, q.gateway)
Same(o, q) ==
    /\ q.kind = o.kind /\ q.name = o.name
    /\ o.kind = "LogicFlowRuntime" => SameRuntime(o, q)
    /\ o.kind = "LogicPlatform" => SamePlatform(o, q)
    /\ o.kind = "LogicFlowService" => q = o

LEMMA RuntimeTwice ==
  ASSUME NEW o, LogicFlowRuntime(o), NEW q, q = ApplyLogicFlowRuntimeDefaults(o)
  PROVE  /\ LogicFlowRuntime(q) /\ q.kind = o.kind /\ SameRuntime(o, q)
         /\ ApplyLogicFlowRuntimeDefaults(q) = q
  <1>1. PICK b : b = DefaultRunnerApp(o.app)
    OBVIOUS
  <1>2. /\ ApplicationSpec(b) /\ SameApp(o.app, b) /\ b.image = o.app.image
        /\ DefaultRunnerApp(b) = b
    BY <1>1, RuntimeAppTwice DEF LogicFlowRuntime
  <1>3. q = [o EXCEPT !.app = b]
    BY <1>1 DEF ApplyLogicFlowRuntimeDefaults, DefaultRunnerApp
  <1>4. /\ Record(q, {"kind", "name", "labels", "app", "persistence", "security", "logging", "flows"})
        /\ q.app = b /\ [q EXCEPT !.app = b] = q
        /\ q.kind = o.kind /\ q.name = o.name /\ q.labels = o.labels /\ q.persistence = o.persistence
        /\ q.security = o.security /\ q.logging = o.logging /\ q.flows = o.flows
    BY <1>3 DEF LogicFlowRuntime, Record
  <1>5. ApplyLogicFlowRuntimeDefaults(q) = q
    BY <1>2, <1>4 DEF ApplyLogicFlowRuntimeDefaults, DefaultRunnerApp
  <1> QED BY <1>2, <1>4, <1>5 DEF LogicFlowRuntime, SameRuntime, SameApp

LEMMA PlatformTwice ==
  ASSUME NEW o, LogicPlatform(o), NEW r \in Releases, NEW q, q = ApplyLogicPlatformDefaults(o, r)
  PROVE  /\ LogicPlatform(q) /\ q.kind = o.kind /\ SamePlatform(o, q)
         /\ \A s \in Releases : ApplyLogicPlatformDefaults(q, s) = q
  <1>1. /\ Record(o, {"kind", "name", "namespace", "labels", "gateway", "dataIndex"})
        /\ DataIndexSpec(o.dataIndex) /\ GatewaySpec(o.gateway)
    BY DEF LogicPlatform, DataIndexSpec, GatewaySpec, VectorSpec
  <1>2. PICK d : d = DefaultedDataIndex(o.dataIndex, o.namespace, r)
    OBVIOUS
  <1>3. /\ DataIndexSpec(d) /\ SameDataIndex(o.dataIndex, d)
        /\ \A s \in Releases : DefaultedDataIndex(d, o.namespace, s) = d
    BY <1>1, <1>2, DataIndexTwice
  <1>4. PICK g : g = DefaultGateway(o.gateway, r)
    OBVIOUS
  <1>5. GatewaySpec(g) /\ SameGateway(o.gateway, g) /\ \A s \in Releases : DefaultGateway(g, s) = g
    BY <1>1, <1>4, GatewayTwice
  <1>6. \A x : DataIndexSpec(x) => \A ns, s : DefaultDataIndex(x, s).vector = x.vector
    BY DEF DefaultDataIndex, DataIndexSpec, Record
  <1>7. \A x, s : LogicPlatform(x) =>
          ApplyLogicPlatformDefaults(x, s) = [x EXCEPT !.dataIndex = DefaultedDataIndex(x.dataIndex, x.namespace, s),
                                                       !.gateway = DefaultGateway(x.gateway, s)]
    <2>1. \A x : LogicPlatform(x) => DataIndexSpec(x.dataIndex)
      BY DEF LogicPlatform, DataIndexSpec, VectorSpec
    <2> QED BY <1>6, <2>1 DEF ApplyLogicPlatformDefaults, DefaultedDataIndex
  <1>8. q = [o EXCEPT !.dataIndex = d, !.gateway = g]
    BY <1>2, <1>4, <1>7
  <1>9. /\ Record(q, {"kind", "name", "namespace", "labels", "gateway", "dataIndex"})
        /\ q.dataIndex = d /\ q.gateway = g /\ [q EXCEPT !.dataIndex = d, !.gateway = g] = q
        /\ q.kind = o.kind /\ q.name = o.name /\ q.namespace = o.namespace /\ q.labels = o.labels
    BY <1>1, <1>8 DEF Record
  <1>10. LogicPlatform(q)
    BY <1>3, <1>5, <1>9 DEF LogicPlatform, DataIndexSpec, GatewaySpec, VectorSpec
  <1>11. ASSUME NEW s \in Releases PROVE ApplyLogicPlatformDefaults(q, s) = q
    <2>1. DefaultedDataIndex(q.dataIndex, q.namespace, s) = d /\ DefaultGateway(q.gateway, s) = g
      BY <1>3, <1>5, <1>9
    <2>2. ApplyLogicPlatformDefaults(q, s)
            = [q EXCEPT !.dataIndex = DefaultedDataIndex(q.dataIndex, q.namespace, s), !.gateway = DefaultGateway(q.gateway, s)]
      BY <1>7, <1>10
    <2> QED BY <1>9, <2>1, <2>2
  <1> QED BY <1>3, <1>5, <1>9, <1>10, <1>11 DEF SamePlatform

LEMMA DefaultTwice ==
  ASSUME NEW o, Object(o), NEW r \in Releases, NEW q, q = Default(o, r)
  PROVE  Object(q) /\ Same(o, q) /\ \A s \in Releases : Default(q, s) = q
  <1>1. CASE o.kind = "LogicFlowRuntime"
    BY <1>1, RuntimeTwice DEF Default, Object, Same, SameRuntime
  <1>2. CASE o.kind = "LogicPlatform"
    BY <1>2, PlatformTwice DEF Default, Object, Same, SamePlatform
  <1>3. CASE o.kind = "LogicFlowService"
    BY <1>3 DEF Default, Object, Same
  <1> QED BY <1>1, <1>2, <1>3 DEF Object

-----------------------------------------------------------------------------
(* Containers                                                              *)

LEMMA ElementsOfConcat ==
  ASSUME NEW s, List(s), NEW t, List(t)
  PROVE  List(s \o t) /\ Elements(s \o t) = Elements(s) \cup Elements(t)
  <1>1. PICK S : S = Elements(s) \cup Elements(t)
    OBVIOUS
  <1>2. s \in Seq(S) /\ t \in Seq(S)
    BY <1>1 DEF List, Elements
  <1>3. PICK u : u = s \o t
    OBVIOUS
  <1>4. /\ u \in Seq(S) /\ Len(u) = Len(s) + Len(t)
        /\ \A i \in 1..Len(u) : u[i] = IF i <= Len(s) THEN s[i] ELSE t[i - Len(s)]
    BY <1>2, <1>3
  <1>5. ASSUME NEW x \in Elements(u) PROVE x \in S
    BY <1>4 DEF Elements
  <1>6. ASSUME NEW x \in Elements(s) PROVE x \in Elements(u)
    <2>1. PICK i \in 1..Len(s) : x = s[i]
      BY <1>2 DEF Elements
    <2>2. i \in 1..Len(u) /\ u[i] = x
      BY <1>2, <1>4, <2>1
    <2> QED BY <1>4, <2>2 DEF Elements
  <1>7. ASSUME NEW x \in Elements(t) PROVE x \in Elements(u)
    <2>1. PICK i \in 1..Len(t) : x = t[i]
      BY <1>2 DEF Elements
    <2>2. i + Len(s) \in 1..Len(u) /\ ~(i + Len(s) <= Len(s)) /\ (i + Len(s)) - Len(s) = i
      BY <1>2, <1>4, <2>1
    <2>3. u[i + Len(s)] = x
      BY <1>4, <2>1, <2>2
    <2> QED BY <1>4, <2>2, <2>3 DEF Elements
  <1>8. Elements(u) = S
    BY <1>1, <1>5, <1>6, <1>7
  <1> QED BY <1>1, <1>3, <1>4, <1>8 DEF List

\* A tier on top of a container.
OnTop(c, tier, d) ==
    /\ Container(d)
    /\ d.image = Or(tier.image, c.image) /\ d.liveness = Or(tier.liveness, c.liveness)
    /\ d.env = c.env \o tier.env /\ d.mounts = c.mounts \o tier.mounts

LEMMA TierApplied ==
  ASSUME NEW c, Container(c), NEW tier, Container(tier)
  PROVE  OnTop(c, tier, applyContainerFields(c, tier))
  <1>0. PICK d : d = applyContainerFields(c, tier)
    OBVIOUS
  <1>1. PICK e : e = c.env \o tier.env
    OBVIOUS
  <1>2. PICK m : m = c.mounts \o tier.mounts
    OBVIOUS
  <1>3. List(e) /\ List(m)
    BY <1>1, <1>2, ElementsOfConcat DEF Container
  <1>4. /\ Record(d, DOMAIN NoContainer)
        /\ d.image = Or(tier.image, c.image) /\ d.liveness = Or(tier.liveness, c.liveness)
        /\ d.env = e /\ d.mounts = m
    BY <1>0, <1>1, <1>2 DEF applyContainerFields, Container, Record, NoContainer
  <1> QED BY <1>0, <1>1, <1>2, <1>3, <1>4 DEF Container, OnTop

\* What the three tiers make of it.
ResolvedImage(app) == Or(app.podTemplate.container.image, Or(app.container.image, app.image))

LEMMA ContainerResolved ==
  ASSUME NEW app, ApplicationSpec(app), NEW c, c = resolveContainer(app)
  PROVE  /\ Container(c) /\ c.image = ResolvedImage(app)
         /\ c.env = app.container.env \o app.podTemplate.container.env
         /\ c.mounts = app.container.mounts \o app.podTemplate.container.mounts
  <1>1. PICK bare : bare = [NoContainer EXCEPT !.security = "restricted"]
    OBVIOUS
  <1>2. PICK top : top = [NoContainer EXCEPT !.image = app.image, !.resources = app.resources]
    OBVIOUS
  <1>3. List(<<>>)
    BY DEF List, Elements
  <1>4. Container(bare) /\ bare.env = <<>> /\ bare.mounts = <<>>
    BY <1>1, <1>3 DEF Container, Record, NoContainer
  <1>5. Container(top) /\ top.env = <<>> /\ top.mounts = <<>> /\ top.image = app.image
    BY <1>2, <1>3 DEF Container, Record, NoContainer
  <1>6. PICK c1 : c1 = applyContainerFields(bare, top)
    OBVIOUS
  <1>7. Container(c1) /\ c1.image = Or(app.image, bare.image) /\ c1.env = <<>> \o <<>> /\ c1.mounts = <<>> \o <<>>
    <2>1. OnTop(bare, top, c1)
      BY <1>4, <1>5, <1>6, TierApplied
    <2> QED BY <1>4, <1>5, <2>1 DEF OnTop
  <1>8. c1.image = app.image
    BY <1>1, <1>7 DEF Or, NoContainer
  <1>9. PICK c2 : c2 = applyContainerFields(c1, app.container)
    OBVIOUS
  <1>10. Container(app.container) /\ Container(app.podTemplate.container)
    BY DEF ApplicationSpec
  <1>11. /\ Container(c2) /\ c2.image = Or(app.container.image, c1.image)
         /\ c2.env = c1.env \o app.container.env /\ c2.mounts = c1.mounts \o app.container.mounts
    BY <1>7, <1>9, <1>10, TierApplied DEF OnTop
  <1>12. \A s : List(s) => (<<>> \o <<>>) \o s = s
    BY DEF List
  <1>13. c2.env = app.container.env /\ c2.mounts = app.container.mounts
    BY <1>7, <1>10, <1>11, <1>12 DEF Container
  <1>14. c = applyContainerFields(c2, app.podTemplate.container)
    BY <1>1, <1>2, <1>6, <1>9 DEF resolveContainer, applyContainerFields
  <1>15. /\ Container(c) /\ c.image = Or(app.podTemplate.container.image, c2.image)
         /\ c.env = c2.env \o app.podTemplate.container.env /\ c.mounts = c2.mounts \o app.podTemplate.container.mounts
    <2>1. OnTop(c2, app.podTemplate.container, c)
      BY <1>10, <1>11, <1>14, TierApplied
    <2> QED BY <2>1 DEF OnTop
  <1> QED BY <1>8, <1>11, <1>13, <1>15 DEF ResolvedImage

-----------------------------------------------------------------------------
(* Workloads                                                               *)

\* A container of which only variables and other probes have changed.
Kept(c, d) ==
    /\ Record(d, DOMAIN NoContainer)
    /\ d.image = c.image /\ d.mounts = c.mounts /\ d.liveness = c.liveness

LEMMA EnvOnly ==
  ASSUME NEW c, Record(c, DOMAIN NoContainer), NEW e
  PROVE  Kept(c, WithEnv(c, e)) /\ Kept(c, Without(c, e)) /\ Kept(c, DurableStartupProbe(c))
  <1>1. Kept(c, WithEnv(c, e))
    BY DEF Kept, WithEnv, Record, NoContainer
  <1>2. Kept(c, Without(c, e))
    <2>1. PICK f : f = Keep(c.env, {i \in DOMAIN c.env : c.env[i].name \notin e})
      OBVIOUS
    <2>2. Without(c, e) = [c EXCEPT !.env = f]
      BY <2>1 DEF Without
    <2> QED BY <2>2 DEF Kept, Record, NoContainer
  <1>3. Kept(c, DurableStartupProbe(c))
    BY DEF Kept, DurableStartupProbe, Record, NoContainer
  <1> QED BY <1>1, <1>2, <1>3

LEMMA DurableEnvOnly ==
  ASSUME NEW c, Record(c, DOMAIN NoContainer), NEW pool
  PROVE  Kept(c, WithDurableEnvVars(c, pool))
  <1>1. PICK f : f = Without(c, Immutable)
    OBVIOUS
  <1>2. PICK e : e = DurableEnvs(pool) \o IF \E i \in DOMAIN f.env : f.env[i].name = AcquireTimeout THEN <<>>
                                          ELSE <<envLiteral(AcquireTimeout, "30S")>>
    OBVIOUS
  <1>3. WithDurableEnvVars(c, pool) = WithEnv(f, e)
    BY <1>1, <1>2 DEF WithDurableEnvVars, Without, WithEnv
  <1>4. Kept(c, f)
    BY <1>1, EnvOnly
  <1>5. Kept(f, WithEnv(f, e))
    BY <1>4, EnvOnly DEF Kept
  <1> QED BY <1>3, <1>4, <1>5 DEF Kept

-----------------------------------------------------------------------------
(* Parts of a list, and lists of variables                                 *)

\* A set of numbers up to N that has 0 and with n also n + 1 has them all.
LEMMA Upwards ==
  ASSUME NEW N \in Nat, NEW T, 0 \in T, \A n \in 0..N : n \in T /\ n < N => n + 1 \in T
  PROVE  \A n \in 0..N : n \in T
  <1> DEFINE U == {n \in 0..N : n \notin T}
             R == OpToRel(<, Nat)
  <1>1. U \subseteq Nat
    OBVIOUS
  <1>2. \A m, n \in Nat : m < n => <<m, n>> \in R
    BY DEF OpToRel
  <1>3. IsWellFoundedOn(R, Nat)
    BY NatLessThanWellFounded, Zenon
  <1>4. SUFFICES ASSUME U # {} PROVE FALSE
    OBVIOUS
  <1> HIDE DEF R, U
  <1>5. \E n \in U : \A m \in U : ~(<<m, n>> \in R)
    BY <1>1, <1>3, <1>4, WFMin
  <1>6. PICK n \in U : \A m \in U : ~(<<m, n>> \in R)
    BY <1>5
  <1>7. n \in 0..N /\ n \notin T
    BY <1>6 DEF U
  <1>8. n # 0
    BY <1>7
  <1>9. n - 1 \in 0..N /\ n - 1 < N /\ (n - 1) + 1 = n /\ n - 1 < n /\ n - 1 \in Nat /\ n \in Nat
    BY <1>7, <1>8
  <1>10. n - 1 \notin U
    BY <1>2, <1>6, <1>9
  <1>11. n - 1 \in T
    BY <1>9, <1>10 DEF U
  <1> QED BY <1>7, <1>9, <1>11

\* The recursive function that Keep is defined by, up to n.
Keeps(k, s, P, n) ==
    k = [i \in 0..n |-> IF i = 0 THEN <<>> ELSE IF i \in P THEN Append(k[i - 1], s[i]) ELSE k[i - 1]]

LEMMA KeepExists ==
  ASSUME NEW s, List(s), NEW P
  PROVE  \E k : Keeps(k, s, P, Len(s)) /\ Keep(s, P) = k[Len(s)]
  <1>1. Len(s) \in Nat
    BY DEF List
  <1>2. PICK N \in Nat : N = Len(s)
    BY <1>1
  <1> DEFINE T == {n \in 0..N : \E k : Keeps(k, s, P, n)}
  <1>3. 0 \in T
    <2>1. PICK k : k = [i \in 0..0 |-> <<>>]
      OBVIOUS
    <2>2. Keeps(k, s, P, 0)
      BY <2>1 DEF Keeps
    <2> QED BY <2>2
  <1>4. ASSUME NEW n \in 0..N, n \in T, n < N PROVE n + 1 \in T
    <2>1. PICK k : Keeps(k, s, P, n)
      BY <1>4
    <2>2. PICK g : g = [i \in 0..(n + 1) |-> IF i <= n THEN k[i]
                                             ELSE IF n + 1 \in P THEN Append(k[n], s[n + 1]) ELSE k[n]]
      OBVIOUS
    <2>3. PICK h : h = [i \in 0..(n + 1) |-> IF i = 0 THEN <<>> ELSE IF i \in P THEN Append(g[i - 1], s[i]) ELSE g[i - 1]]
      OBVIOUS
    <2>4. ASSUME NEW i \in 0..(n + 1) PROVE g[i] = h[i]
      <3>1. CASE i = 0
        <4>1. i \in 0..n /\ i <= n
          BY <3>1
        <4>2. k[i] = <<>>
          BY <2>1, <3>1, <4>1 DEF Keeps
        <4> QED BY <2>2, <2>3, <3>1, <4>1, <4>2
      <3>2. CASE i \in 1..n
        <4>1. i \in 0..n /\ i <= n /\ i # 0 /\ i - 1 \in 0..(n + 1) /\ i - 1 <= n
          BY <3>2
        <4>2. k[i] = IF i \in P THEN Append(k[i - 1], s[i]) ELSE k[i - 1]
          BY <2>1, <4>1 DEF Keeps
        <4>3. g[i] = k[i] /\ g[i - 1] = k[i - 1]
          BY <2>2, <4>1
        <4>4. h[i] = IF i \in P THEN Append(g[i - 1], s[i]) ELSE g[i - 1]
          BY <2>3, <4>1
        <4> QED BY <4>2, <4>3, <4>4
      <3>3. CASE i = n + 1
        <4>1. i # 0 /\ ~(i <= n) /\ i - 1 = n /\ n \in 0..(n + 1) /\ n <= n
          BY <3>3
        <4>2. g[n] = k[n]
          BY <2>2, <4>1
        <4>3. h[i] = IF i \in P THEN Append(g[n], s[i]) ELSE g[n]
          BY <2>3, <4>1
        <4>4. g[i] = IF i \in P THEN Append(k[n], s[i]) ELSE k[n]
          BY <2>2, <3>3, <4>1
        <4> QED BY <4>2, <4>3, <4>4
      <3> QED BY <3>1, <3>2, <3>3
    <2>5. g = h
      BY <2>2, <2>3, <2>4
    <2>6. Keeps(g, s, P, n + 1)
      BY <2>3, <2>5 DEF Keeps
    <2> QED BY <1>4, <2>6
  <1>5. N \in T
    <2> HIDE DEF T
    <2> QED BY <1>3, <1>4, Upwards
  <1>6. PICK k : Keeps(k, s, P, Len(s))
    BY <1>2, <1>5
  <1>7. PICK f : f = CHOOSE h : h = [i \in 0..Len(s) |-> IF i = 0 THEN <<>>
                                                        ELSE IF i \in P THEN Append(h[i - 1], s[i]) ELSE h[i - 1]]
    OBVIOUS
  <1>8. Keeps(f, s, P, Len(s))
    BY <1>6, <1>7 DEF Keeps
  <1>9. Keep(s, P) = f[Len(s)]
    BY <1>7 DEF Keep
  <1> QED BY <1>8, <1>9

\* The elements of t stand in s, at different positions of P up to n.
Stands(t, s, P, n) ==
    \E at \in [1..Len(t) -> P \cap (1..n)] : /\ \A a \in 1..Len(t) : t[a] = s[at[a]]
                                            /\ \A a, b \in 1..Len(t) : a # b => at[a] # at[b]

\* What is kept stands in s.
LEMMA KeptFrom ==
  ASSUME NEW s, List(s), NEW P, NEW t, t = Keep(s, P)
  PROVE  t \in Seq(Elements(s)) /\ Stands(t, s, P, Len(s))
  <1>1. PICK k : Keeps(k, s, P, Len(s)) /\ t = k[Len(s)]
    BY KeepExists
  <1>2. Len(s) \in Nat /\ \A i \in 1..Len(s) : s[i] \in Elements(s)
    BY DEF List, Elements
  <1>3. PICK N \in Nat : N = Len(s)
    BY <1>2
  <1> DEFINE T == {n \in 0..N : k[n] \in Seq(Elements(s)) /\ Stands(k[n], s, P, n)}
  <1>4. 0 \in T
    <2>1. PICK e : e = <<>>
      OBVIOUS
    <2>2. PICK at : at = [a \in 1..0 |-> 0]
      OBVIOUS
    <2>3. Len(e) = 0 /\ at \in [1..0 -> P \cap (1..0)] /\ ~\E a \in 1..0 : TRUE
      BY <2>1, <2>2
    <2>4. Stands(e, s, P, 0)
      BY <2>3 DEF Stands
    <2>5. e \in Seq(Elements(s)) /\ k[0] = e /\ 0 \in 0..N
      BY <1>1, <1>3, <2>1 DEF Keeps
    <2> QED BY <2>4, <2>5
  <1>5. ASSUME NEW n \in 0..N, n \in T, n < N PROVE n + 1 \in T
    <2>1. n + 1 \in 1..Len(s) /\ n + 1 \in 0..Len(s) /\ n + 1 # 0 /\ (n + 1) - 1 = n
      BY <1>3, <1>5
    <2>2. PICK u : u = k[n]
      OBVIOUS
    <2>3. PICK m : m = n + 1
      OBVIOUS
    <2>4. k[m] = IF m \in P THEN Append(u, s[m]) ELSE u
      BY <1>1, <2>1, <2>2, <2>3 DEF Keeps
    <2>5. u \in Seq(Elements(s))
      BY <1>5, <2>2
    <2>6. PICK at \in [1..Len(u) -> P \cap (1..n)] :
                /\ \A a \in 1..Len(u) : u[a] = s[at[a]]
                /\ \A a, b \in 1..Len(u) : a # b => at[a] # at[b]
      BY <1>5, <2>2 DEF Stands
    <2>7. \A x \in P \cap (1..n) : x \in P \cap (1..m) /\ x # m
      BY <1>3, <2>3
    <2>8. CASE m \notin P
      <3>1. at \in [1..Len(u) -> P \cap (1..m)]
        BY <2>6, <2>7
      <3>2. Stands(u, s, P, m)
        BY <2>6, <3>1 DEF Stands
      <3>3. k[m] = u /\ m \in 0..N
        BY <1>3, <2>1, <2>3, <2>4, <2>8
      <3>4. m \in T
        BY <2>5, <3>2, <3>3
      <3> QED BY <2>3, <3>4
    <2>9. CASE m \in P
      <3>1. PICK v : v = Append(u, s[m])
        OBVIOUS
      <3>2. PICK l \in Nat : l = Len(u)
        BY <2>5
      <3>3. /\ v \in Seq(Elements(s)) /\ Len(v) = l + 1 /\ v[l + 1] = s[m]
            /\ \A a \in 1..l : v[a] = u[a]
        BY <1>2, <2>1, <2>3, <2>5, <3>1, <3>2
      <3>4. PICK to : to = [a \in 1..(l + 1) |-> IF a = l + 1 THEN m ELSE at[a]]
        OBVIOUS
      <3>5. m \in P \cap (1..m)
        BY <2>1, <2>3, <2>9
      <3>6. \A a \in 1..(l + 1) : a = l + 1 \/ a \in 1..l
        BY <3>2
      <3>7. /\ \A a \in 1..l : to[a] = at[a] /\ at[a] \in P \cap (1..n)
            /\ to[l + 1] = m
        BY <2>6, <3>2, <3>4
      <3>8. to \in [1..Len(v) -> P \cap (1..m)]
        BY <2>7, <3>3, <3>4, <3>5, <3>6, <3>7
      <3>9. \A a \in 1..Len(v) : v[a] = s[to[a]]
        BY <2>6, <3>2, <3>3, <3>6, <3>7
      <3>10. \A a, b \in 1..Len(v) : a # b => to[a] # to[b]
        BY <2>6, <2>7, <3>2, <3>3, <3>6, <3>7
      <3>11. Stands(v, s, P, m)
        BY <3>8, <3>9, <3>10 DEF Stands
      <3>12. k[m] = v
        BY <2>4, <2>9, <3>1
      <3>13. m \in 0..N
        BY <1>3, <2>1, <2>3
      <3>14. m \in T
        BY <3>3, <3>11, <3>12, <3>13
      <3> QED BY <2>3, <3>14
    <2> QED BY <2>8, <2>9
  <1>6. N \in T
    <2> HIDE DEF T
    <2> QED BY <1>4, <1>5, Upwards
  <1> QED BY <1>1, <1>3, <1>6

-----------------------------------------------------------------------------
(* Lists of variables                                                      *)

\* No two variables of e have one name, but for names of U.
Distinct(e, U) == /\ List(e)
                  /\ \A i, j \in 1..Len(e) : i # j /\ e[i].name = e[j].name => e[i].name \in U
NamesOf(e) == {e[i].name : i \in 1..Len(e)}

LEMMA ConcatParts ==
  ASSUME NEW a, List(a), NEW b, List(b), NEW c, c = a \o b
  PROVE  /\ DOMAIN c = 1..Len(c) /\ Len(c) = Len(a) + Len(b) /\ Len(a) \in Nat /\ Len(b) \in Nat
         /\ \A i \in 1..Len(c) : \/ i \in 1..Len(a) /\ c[i] = a[i]
                                 \/ i - Len(a) \in 1..Len(b) /\ c[i] = b[i - Len(a)]
         /\ \A i \in 1..Len(a) : i \in 1..Len(c) /\ c[i] = a[i]
         /\ \A i \in 1..Len(b) : i + Len(a) \in 1..Len(c) /\ c[i + Len(a)] = b[i]
  <1>1. PICK m \in Nat, n \in Nat : m = Len(a) /\ n = Len(b)
    BY DEF List
  <1>2. PICK S : S = Elements(a) \cup Elements(b)
    OBVIOUS
  <1>3. a \in Seq(S) /\ b \in Seq(S)
    BY <1>2 DEF List, Elements
  <1>4. DOMAIN c = 1..Len(c) /\ Len(c) = m + n /\ \A i \in 1..(m + n) : c[i] = IF i <= m THEN a[i] ELSE b[i - m]
    BY <1>1, <1>3
  <1> QED BY <1>1, <1>4

LEMMA NamesOfConcat ==
  ASSUME NEW a, List(a), NEW b, List(b)
  PROVE  NamesOf(a \o b) = NamesOf(a) \cup NamesOf(b)
  <1>1. PICK c : c = a \o b
    OBVIOUS
  <1>2. \A i \in 1..Len(c) : \/ i \in 1..Len(a) /\ c[i] = a[i]
                             \/ i - Len(a) \in 1..Len(b) /\ c[i] = b[i - Len(a)]
    BY <1>1, ConcatParts
  <1>3. /\ \A i \in 1..Len(a) : i \in 1..Len(c) /\ c[i] = a[i]
        /\ \A i \in 1..Len(b) : i + Len(a) \in 1..Len(c) /\ c[i + Len(a)] = b[i]
    BY <1>1, ConcatParts
  <1>4. NamesOf(c) \subseteq NamesOf(a) \cup NamesOf(b)
    BY <1>2 DEF NamesOf
  <1>5. NamesOf(a) \cup NamesOf(b) \subseteq NamesOf(c)
    BY <1>3 DEF NamesOf
  <1> QED BY <1>1, <1>4, <1>5

LEMMA DistinctMore ==
  ASSUME NEW e, NEW U, Distinct(e, U), NEW V, U \subseteq V
  PROVE  Distinct(e, V)
  BY DEF Distinct

LEMMA DistinctConcat ==
  ASSUME NEW U, NEW a, Distinct(a, U), NEW b, Distinct(b, U), NamesOf(a) \cap NamesOf(b) \subseteq U
  PROVE  Distinct(a \o b, U)
  <1>1. List(a) /\ List(b)
    BY DEF Distinct
  <1>2. PICK c : c = a \o b
    OBVIOUS
  <1>3. List(c)
    BY <1>1, <1>2, ElementsOfConcat
  <1>4. PICK m : m = Len(a)
    OBVIOUS
  <1>5. /\ m \in Nat
        /\ \A i \in 1..Len(c) : \/ i \in 1..m /\ c[i] = a[i]
                                \/ i - m \in 1..Len(b) /\ c[i] = b[i - m]
    BY <1>1, <1>2, <1>4, ConcatParts
  <1>6. ASSUME NEW i \in 1..Len(c), NEW j \in 1..Len(c), i # j, c[i].name = c[j].name
        PROVE  c[i].name \in U
    <2>1. CASE i \in 1..m /\ c[i] = a[i] /\ j \in 1..m /\ c[j] = a[j]
      BY <1>4, <1>6, <2>1 DEF Distinct
    <2>2. CASE i - m \in 1..Len(b) /\ c[i] = b[i - m] /\ j - m \in 1..Len(b) /\ c[j] = b[j - m]
      <3>1. i - m # j - m
        BY <1>5, <1>6
      <3> QED BY <1>6, <2>2, <3>1 DEF Distinct
    <2>3. CASE i \in 1..m /\ c[i] = a[i] /\ j - m \in 1..Len(b) /\ c[j] = b[j - m]
      BY <1>4, <1>6, <2>3 DEF NamesOf
    <2>4. CASE i - m \in 1..Len(b) /\ c[i] = b[i - m] /\ j \in 1..m /\ c[j] = a[j]
      BY <1>4, <1>6, <2>4 DEF NamesOf
    <2> QED BY <1>5, <2>1, <2>2, <2>3, <2>4
  <1> QED BY <1>2, <1>3, <1>6 DEF Distinct

\* Variables that are taken out are not there, and the others do not become more.
LEMMA WithoutDistinct ==
  ASSUME NEW c, Record(c, DOMAIN NoContainer), NEW U, Distinct(c.env, U), NEW names
  PROVE  /\ Distinct(Without(c, names).env, U \ names)
         /\ NamesOf(Without(c, names).env) \subseteq NamesOf(c.env) \ names
  <1>1. PICK e : e = c.env
    OBVIOUS
  <1>2. PICK P : P = {i \in DOMAIN e : e[i].name \notin names}
    OBVIOUS
  <1>3. PICK t : t = Keep(e, P)
    OBVIOUS
  <1>4. Without(c, names) = [c EXCEPT !.env = t]
    BY <1>1, <1>2, <1>3 DEF Without
  <1>5. Without(c, names).env = t
    BY <1>4 DEF Record, NoContainer
  <1>6. List(e) /\ DOMAIN e = 1..Len(e)
    BY <1>1 DEF Distinct, List
  <1>7. t \in Seq(Elements(e)) /\ Stands(t, e, P, Len(e))
    BY <1>3, <1>6, KeptFrom
  <1>8. PICK at \in [1..Len(t) -> P \cap (1..Len(e))] :
               /\ \A a \in 1..Len(t) : t[a] = e[at[a]]
               /\ \A a, b \in 1..Len(t) : a # b => at[a] # at[b]
    BY <1>7 DEF Stands
  <1>9. List(t)
    BY <1>7 DEF List, Elements
  <1>10. ASSUME NEW a \in 1..Len(t) PROVE at[a] \in 1..Len(e) /\ t[a].name = e[at[a]].name /\ t[a].name \notin names
    BY <1>2, <1>6, <1>8
  <1>11. NamesOf(t) \subseteq NamesOf(e) \ names
    BY <1>10 DEF NamesOf
  <1>12. \A a, b \in 1..Len(t) : a # b /\ t[a].name = t[b].name => t[a].name \in U \ names
    BY <1>1, <1>8, <1>10 DEF Distinct
  <1> QED BY <1>1, <1>5, <1>9, <1>11, <1>12 DEF Distinct

\* The main container is there once.
LEMMA MainOnce ==
  ASSUME NEW names, List(names), NEW main, NEW s, s = <<main>> \o filterSidecars(names, main)
  PROVE  \A i \in DOMAIN s : s[i] = s[1] => i = 1
  <1>1. PICK P : P = {i \in DOMAIN names : names[i] # main}
    OBVIOUS
  <1>2. PICK t : t = filterSidecars(names, main)
    OBVIOUS
  <1>3. t = Keep(names, P)
    BY <1>1, <1>2 DEF filterSidecars
  <1>4. t \in Seq(Elements(names)) /\ Stands(t, names, P, Len(names))
    BY <1>3, KeptFrom
  <1>5. \A a \in 1..Len(t) : t[a] # main
    BY <1>1, <1>4 DEF Stands
  <1>6. PICK S : S = Elements(names) \cup {main}
    OBVIOUS
  <1>7. PICK u : u = <<main>>
    OBVIOUS
  <1>8. u \in Seq(S) /\ Len(u) = 1 /\ u[1] = main
    BY <1>6, <1>7
  <1>9. t \in Seq(S)
    BY <1>4, <1>6
  <1>10. PICK n \in Nat : n = Len(t)
    BY <1>4
  <1>11. DOMAIN s = 1..(1 + n) /\ \A i \in 1..(1 + n) : s[i] = IF i <= 1 THEN u[i] ELSE t[i - 1]
    BY <1>2, <1>7, <1>8, <1>9, <1>10
  <1>12. s[1] = main
    BY <1>8, <1>10, <1>11
  <1>13. ASSUME NEW i \in 1..(1 + n), i # 1 PROVE s[i] # main
    <2>1. ~(i <= 1) /\ i - 1 \in 1..n
      BY <1>10, <1>13
    <2> QED BY <1>5, <1>10, <1>11, <2>1
  <1> QED BY <1>11, <1>12, <1>13

\* Variables that the operator writes: their names begin with a word of H, and no two have
\* one name but for names of U.
Built(e, H, U) == Distinct(e, U) /\ \A n \in NamesOf(e) : n[1] \in H

LEMMA BuiltConcat ==
  ASSUME NEW U, NEW H, NEW K, H \cap K = {}, NEW a, Built(a, H, U), NEW b, Built(b, K, U)
  PROVE  Built(a \o b, H \cup K, U)
  <1>1. NamesOf(a) \cap NamesOf(b) \subseteq U
    BY DEF Built
  <1>2. Distinct(a, U) /\ Distinct(b, U) /\ List(a) /\ List(b)
    BY DEF Built, Distinct
  <1>3. Distinct(a \o b, U) /\ NamesOf(a \o b) = NamesOf(a) \cup NamesOf(b)
    BY <1>1, <1>2, DistinctConcat, NamesOfConcat
  <1> QED BY <1>3 DEF Built

LEMMA BuiltMore ==
  ASSUME NEW e, NEW H, NEW U, Built(e, H, U), NEW K, H \subseteq K, NEW V, U \subseteq V
  PROVE  Built(e, K, V)
  BY DEF Built, Distinct

LEMMA BuiltNone ==
  ASSUME NEW H, NEW U
  PROVE  Built(<<>>, H, U)
  BY DEF Built, Distinct, NamesOf, List, Elements

LEMMA BuiltOne ==
  ASSUME NEW a, NEW h, a.name = <<h>>, NEW U
  PROVE  Built(<<a>>, {h}, U)
  <1>1. PICK e : e = <<a>>
    OBVIOUS
  <1>2. Len(e) = 1 /\ e[1] = a /\ DOMAIN e = 1..1 /\ e \in Seq({a})
    BY <1>1
  <1>3. List(e)
    BY <1>2 DEF List, Elements
  <1>4. NamesOf(e) = {<<h>>}
    BY <1>2 DEF NamesOf
  <1>5. Distinct(e, U)
    BY <1>2, <1>3 DEF Distinct
  <1> QED BY <1>1, <1>4, <1>5 DEF Built

LEMMA BuiltThree ==
  ASSUME NEW a, NEW b, NEW c, NEW h, NEW i, NEW j, h # i, h # j, i # j,
         a.name = <<h>>, b.name = <<i>>, c.name = <<j>>, NEW U
  PROVE  Built(<<a, b, c>>, {h, i, j}, U)
  <1>1. PICK e : e = <<a, b, c>>
    OBVIOUS
  <1>2. Len(e) = 3 /\ e[1] = a /\ e[2] = b /\ e[3] = c /\ DOMAIN e = 1..3 /\ e \in Seq({a, b, c})
    BY <1>1
  <1>3. List(e)
    BY <1>2 DEF List, Elements
  <1>4. \A n \in 1..3 : n = 1 \/ n = 2 \/ n = 3
    OBVIOUS
  <1>5. \A n \in NamesOf(e) : n = a.name \/ n = b.name \/ n = c.name
    BY <1>2, <1>4 DEF NamesOf
  <1>6. a.name[1] = h /\ b.name[1] = i /\ c.name[1] = j
    OBVIOUS
  <1>7. Distinct(e, U)
    BY <1>2, <1>3, <1>4, <1>6 DEF Distinct
  <1> QED BY <1>1, <1>5, <1>6, <1>7 DEF Built

LEMMA PersistenceEnv ==
  ASSUME NEW p, NEW U
  PROVE  Built(persistenceQuarkusEnvVars(p),
               {"QUARKUS_DATASOURCE_USERNAME", "QUARKUS_DATASOURCE_PASSWORD", "QUARKUS_DATASOURCE_JDBC_URL",
                "QUARKUS_HIBERNATE_ORM_DATABASE_DEFAULT_SCHEMA"}, U)
  <1>1. PICK H : H = {"QUARKUS_DATASOURCE_USERNAME", "QUARKUS_DATASOURCE_PASSWORD", "QUARKUS_DATASOURCE_JDBC_URL"}
    OBVIOUS
  <1>2. PICK h : h = "QUARKUS_HIBERNATE_ORM_DATABASE_DEFAULT_SCHEMA"
    OBVIOUS
  <1>3. PICK pg : pg = p.postgresql
    OBVIOUS
  <1>4. PICK a : a = <<envFromSecret(<<"QUARKUS_DATASOURCE_USERNAME">>, pg.secret, userKey(pg)),
                       envFromSecret(<<"QUARKUS_DATASOURCE_PASSWORD">>, pg.secret, passwordKey(pg)),
                       envLiteral(<<"QUARKUS_DATASOURCE_JDBC_URL">>, WithSSLMode(buildJdbcURL(pg), pg.tls))>>
    OBVIOUS
  <1>5. PICK b : b = IF pg.schema = Nil THEN <<>>
                     ELSE <<envLiteral(<<"QUARKUS_HIBERNATE_ORM_DATABASE_DEFAULT_SCHEMA">>, pg.schema)>>
    OBVIOUS
  <1>6. Built(a, H, U)
    BY <1>1, <1>4, BuiltThree DEF envFromSecret, envLiteral
  <1>7. Built(b, {h}, U)
    BY <1>2, <1>5, BuiltOne, BuiltNone DEF envLiteral
  <1>8. Built(a \o b, H \cup {h}, U)
    BY <1>1, <1>2, <1>6, <1>7, BuiltConcat
  <1>9. persistenceQuarkusEnvVars(p) = IF HasPersistence(p) THEN a \o b ELSE <<>>
    BY <1>3, <1>4, <1>5 DEF persistenceQuarkusEnvVars
  <1>10. Built(persistenceQuarkusEnvVars(p), H \cup {h}, U)
    BY <1>8, <1>9, BuiltNone
  <1>11. H \cup {h} = {"QUARKUS_DATASOURCE_USERNAME", "QUARKUS_DATASOURCE_PASSWORD", "QUARKUS_DATASOURCE_JDBC_URL",
                       "QUARKUS_HIBERNATE_ORM_DATABASE_DEFAULT_SCHEMA"}
    BY <1>1, <1>2
  <1> QED BY <1>10, <1>11

\* Two keys of one name are what makes a variable of the keys appear twice.
SameNames(keys) ==
    {keys[i].name : i \in {k \in DOMAIN keys : \E j \in DOMAIN keys \ {k} : keys[j].name = keys[k].name}}
KeyNames(names) == {KeyVariable(name, part) : name \in names, part \in {"SECRET", "ROLES", "NAMESPACES"}}

LEMMA KeysEnv ==
  ASSUME NEW keys, List(keys)
  PROVE  Built(apiKeyEnvVars(keys), {"QUARKUS_FLOW_RUNNER_SECURITY_TYPE", "QUARKUS_FLOW_RUNNER_SECURITY_API_KEYS"},
               KeyNames(SameNames(keys)))
  <1>1. PICK U : U = KeyNames(SameNames(keys))
    OBVIOUS
  <1>2. PICK N \in Nat : N = Len(keys) /\ DOMAIN keys = 1..N
    BY DEF List
  <1>3. PICK e : e = [i \in 1..3 * N |-> KeyEnvVars(keys[(i + 2) \div 3])[((i - 1) % 3) + 1]]
    OBVIOUS
  <1>4. 3 * N \in Nat
    BY <1>2
  <1>5. Len(e) = 3 * N /\ DOMAIN e = 1..3 * N
    BY <1>3, <1>4
  <1>6. List(e)
    <2>1. PICK S : S = Elements(e)
      OBVIOUS
    <2>2. e \in [1..3 * N -> S]
      BY <1>3, <1>5, <2>1 DEF Elements
    <2> QED BY <1>4, <2>1, <2>2 DEF List
  <1>7. ASSUME NEW i \in 1..3 * N
        PROVE  \E k \in 1..N : \E r \in 1..3 : /\ k = (i + 2) \div 3 /\ r = ((i - 1) % 3) + 1 /\ i = 3 * k - 3 + r
    BY <1>2
  <1>8. PICK parts : parts = <<"SECRET", "ROLES", "NAMESPACES">>
    OBVIOUS
  <1>9. /\ \A r \in 1..3 : parts[r] \in {"SECRET", "ROLES", "NAMESPACES"}
        /\ \A r, q \in 1..3 : parts[r] = parts[q] => r = q
    BY <1>8
  <1>10. \A k : \A r \in 1..3 : KeyEnvVars(k)[r].name = KeyVariable(k.name, parts[r])
    BY <1>8 DEF KeyEnvVars, envFromSecret, envLiteral
  <1>11. \A k, l, r, q : KeyVariable(k, r) = KeyVariable(l, q) => k = l /\ r = q
    BY DEF KeyVariable
  <1>12. ASSUME NEW i \in 1..3 * N
         PROVE  \E k \in 1..N : \E r \in 1..3 : i = 3 * k - 3 + r /\ e[i].name = KeyVariable(keys[k].name, parts[r])
    <2>1. PICK k \in 1..N : \E r \in 1..3 : /\ k = (i + 2) \div 3 /\ r = ((i - 1) % 3) + 1 /\ i = 3 * k - 3 + r
      BY <1>7
    <2>2. PICK r \in 1..3 : k = (i + 2) \div 3 /\ r = ((i - 1) % 3) + 1 /\ i = 3 * k - 3 + r
      BY <2>1
    <2>3. e[i] = KeyEnvVars(keys[k])[r]
      BY <1>3, <2>2
    <2>4. PICK x : x = keys[k]
      OBVIOUS
    <2>5. KeyEnvVars(x)[r].name = KeyVariable(x.name, parts[r])
      BY <1>10
    <2>6. e[i].name = KeyVariable(keys[k].name, parts[r])
      BY <2>3, <2>4, <2>5
    <2> QED BY <2>2, <2>6
  <1>13. ASSUME NEW i \in 1..3 * N, NEW j \in 1..3 * N, i # j, e[i].name = e[j].name
         PROVE  e[i].name \in U
    <2>1. PICK k \in 1..N : \E r \in 1..3 : i = 3 * k - 3 + r /\ e[i].name = KeyVariable(keys[k].name, parts[r])
      BY <1>12
    <2>2. PICK r \in 1..3 : i = 3 * k - 3 + r /\ e[i].name = KeyVariable(keys[k].name, parts[r])
      BY <2>1
    <2>3. PICK l \in 1..N : \E q \in 1..3 : j = 3 * l - 3 + q /\ e[j].name = KeyVariable(keys[l].name, parts[q])
      BY <1>12
    <2>4. PICK q \in 1..3 : j = 3 * l - 3 + q /\ e[j].name = KeyVariable(keys[l].name, parts[q])
      BY <2>3
    <2>5. keys[k].name = keys[l].name /\ parts[r] = parts[q]
      BY <1>11, <1>13, <2>2, <2>4
    <2>6. r = q
      BY <1>9, <2>5
    <2>7. k # l
      BY <1>13, <2>2, <2>4, <2>6
    <2>8. keys[k].name \in SameNames(keys)
      BY <1>2, <2>5, <2>7 DEF SameNames
    <2> QED BY <1>1, <1>9, <2>2, <2>8 DEF KeyNames
  <1>14. Distinct(e, U)
    BY <1>5, <1>6, <1>13 DEF Distinct
  <1>15. \A k, r : KeyVariable(k, r)[1] = "QUARKUS_FLOW_RUNNER_SECURITY_API_KEYS"
    BY DEF KeyVariable
  <1>16. Built(e, {"QUARKUS_FLOW_RUNNER_SECURITY_API_KEYS"}, U)
    <2> SUFFICES ASSUME NEW i \in 1..3 * N PROVE e[i].name[1] = "QUARKUS_FLOW_RUNNER_SECURITY_API_KEYS"
      BY <1>5, <1>14 DEF Built, NamesOf
    <2> QED BY <1>12, <1>15
  <1>17. PICK t : t = <<envLiteral(<<"QUARKUS_FLOW_RUNNER_SECURITY_TYPE">>, "api-key")>>
    OBVIOUS
  <1>18. Built(t, {"QUARKUS_FLOW_RUNNER_SECURITY_TYPE"}, U)
    BY <1>17, BuiltOne DEF envLiteral
  <1>19. apiKeyEnvVars(keys) = t \o e
    BY <1>2, <1>3, <1>17 DEF apiKeyEnvVars
  <1>20. Built(t \o e, {"QUARKUS_FLOW_RUNNER_SECURITY_TYPE"} \cup {"QUARKUS_FLOW_RUNNER_SECURITY_API_KEYS"}, U)
    BY <1>16, <1>18, BuiltConcat
  <1>21. Built(t \o e, {"QUARKUS_FLOW_RUNNER_SECURITY_TYPE", "QUARKUS_FLOW_RUNNER_SECURITY_API_KEYS"}, U)
    BY <1>20, BuiltMore
  <1> QED BY <1>1, <1>19, <1>21

LEMMA BuiltFour ==
  ASSUME NEW a, NEW b, NEW c, NEW d, NEW h, NEW i, NEW j, NEW k,
         h \notin {i, j, k}, i \notin {j, k}, j # k,
         a.name = <<h>>, b.name = <<i>>, c.name = <<j>>, d.name = <<k>>, NEW U
  PROVE  Built(<<a, b, c, d>>, {h, i, j, k}, U)
  <1>1. PICK e : e = <<a, b, c, d>>
    OBVIOUS
  <1>2. Len(e) = 4 /\ e[1] = a /\ e[2] = b /\ e[3] = c /\ e[4] = d /\ DOMAIN e = 1..4 /\ e \in Seq({a, b, c, d})
    BY <1>1
  <1>3. List(e)
    BY <1>2 DEF List, Elements
  <1>4. \A n \in 1..4 : n = 1 \/ n = 2 \/ n = 3 \/ n = 4
    OBVIOUS
  <1>5. \A n \in NamesOf(e) : n = a.name \/ n = b.name \/ n = c.name \/ n = d.name
    BY <1>2, <1>4 DEF NamesOf
  <1>6. a.name[1] = h /\ b.name[1] = i /\ c.name[1] = j /\ d.name[1] = k
    OBVIOUS
  <1>7. Distinct(e, U)
    BY <1>2, <1>3, <1>4, <1>6 DEF Distinct
  <1> QED BY <1>1, <1>5, <1>6, <1>7 DEF Built

LEMMA BuiltSix ==
  ASSUME NEW a, NEW b, NEW c, NEW d, NEW f, NEW g, NEW h, NEW i, NEW j, NEW k, NEW l, NEW m,
         h \notin {i, j, k, l, m}, i \notin {j, k, l, m}, j \notin {k, l, m}, k \notin {l, m}, l # m,
         a.name = <<h>>, b.name = <<i>>, c.name = <<j>>, d.name = <<k>>, f.name = <<l>>, g.name = <<m>>, NEW U
  PROVE  Built(<<a, b, c, d, f, g>>, {h, i, j, k, l, m}, U)
  <1>1. PICK e : e = <<a, b, c, d, f, g>>
    OBVIOUS
  <1>2. /\ Len(e) = 6 /\ e[1] = a /\ e[2] = b /\ e[3] = c /\ e[4] = d /\ e[5] = f /\ e[6] = g
        /\ DOMAIN e = 1..6 /\ e \in Seq({a, b, c, d, f, g})
    BY <1>1
  <1>3. List(e)
    BY <1>2 DEF List, Elements
  <1>4. \A n \in 1..6 : n = 1 \/ n = 2 \/ n = 3 \/ n = 4 \/ n = 5 \/ n = 6
    OBVIOUS
  <1>5. \A n \in NamesOf(e) : n = a.name \/ n = b.name \/ n = c.name \/ n = d.name \/ n = f.name \/ n = g.name
    BY <1>2, <1>4 DEF NamesOf
  <1>6. a.name[1] = h /\ b.name[1] = i /\ c.name[1] = j /\ d.name[1] = k /\ f.name[1] = l /\ g.name[1] = m
    OBVIOUS
  <1>7. Distinct(e, U)
    BY <1>2, <1>3, <1>4, <1>6 DEF Distinct
  <1> QED BY <1>1, <1>5, <1>6, <1>7 DEF Built

OIDCNames == {"QUARKUS_FLOW_RUNNER_SECURITY_TYPE", "QUARKUS_OIDC_AUTH_SERVER_URL", "QUARKUS_OIDC_CLIENT_ID",
              "QUARKUS_OIDC_CREDENTIALS_SECRET", "QUARKUS_OIDC_ROLES_CLAIM"}

LEMMA OIDCEnv ==
  ASSUME NEW oidc, NEW U
  PROVE  Built(oidcEnvVars(oidc), OIDCNames, U)
  <1>1. PICK a : a = <<envLiteral(<<"QUARKUS_FLOW_RUNNER_SECURITY_TYPE">>, "oidc")>>
    OBVIOUS
  <1>2. PICK b : b = <<envLiteral(<<"QUARKUS_OIDC_AUTH_SERVER_URL">>, oidc.server),
                       envLiteral(<<"QUARKUS_OIDC_CLIENT_ID">>, oidc.client),
                       envFromSecret(<<"QUARKUS_OIDC_CREDENTIALS_SECRET">>, oidc.secret, Or(oidc.key, "value"))>>
    OBVIOUS
  <1>3. PICK c : c = IF oidc.rolesClaim \in {Nil, "roles"} THEN <<>>
                     ELSE <<envLiteral(<<"QUARKUS_OIDC_ROLES_CLAIM">>, oidc.rolesClaim)>>
    OBVIOUS
  <1>4. PICK H : H = {"QUARKUS_OIDC_AUTH_SERVER_URL", "QUARKUS_OIDC_CLIENT_ID", "QUARKUS_OIDC_CREDENTIALS_SECRET"}
    OBVIOUS
  <1>5. Built(a, {"QUARKUS_FLOW_RUNNER_SECURITY_TYPE"}, U)
    BY <1>1, BuiltOne DEF envLiteral
  <1>6. Built(b, H, U)
    BY <1>2, <1>4, BuiltThree DEF envFromSecret, envLiteral
  <1>7. Built(c, {"QUARKUS_OIDC_ROLES_CLAIM"}, U)
    BY <1>3, BuiltOne, BuiltNone DEF envLiteral
  <1>8. Built(b \o c, H \cup {"QUARKUS_OIDC_ROLES_CLAIM"}, U)
    BY <1>4, <1>6, <1>7, BuiltConcat
  <1>9. PICK d : d = IF oidc = Nil THEN <<>> ELSE b \o c
    OBVIOUS
  <1>10. Built(d, H \cup {"QUARKUS_OIDC_ROLES_CLAIM"}, U)
    BY <1>8, <1>9, BuiltNone
  <1>11. Built(a \o d, {"QUARKUS_FLOW_RUNNER_SECURITY_TYPE"} \cup (H \cup {"QUARKUS_OIDC_ROLES_CLAIM"}), U)
    BY <1>4, <1>5, <1>10, BuiltConcat
  <1>12. oidcEnvVars(oidc) = a \o d
    BY <1>1, <1>2, <1>3, <1>9 DEF oidcEnvVars
  <1>13. OIDCNames = {"QUARKUS_FLOW_RUNNER_SECURITY_TYPE"} \cup (H \cup {"QUARKUS_OIDC_ROLES_CLAIM"})
    BY <1>4 DEF OIDCNames
  <1> QED BY <1>11, <1>12, <1>13

SecurityNames == OIDCNames \cup {"QUARKUS_FLOW_RUNNER_SECURITY_API_KEYS"}

LEMMA SecurityEnv ==
  ASSUME NEW sec, List(sec.apiKeys)
  PROVE  Built(securityEnvVars(sec), SecurityNames, KeyNames(SameNames(sec.apiKeys)))
  <1>1. PICK U : U = KeyNames(SameNames(sec.apiKeys))
    OBVIOUS
  <1>2. Built(apiKeyEnvVars(sec.apiKeys), SecurityNames, U)
    <2>1. {"QUARKUS_FLOW_RUNNER_SECURITY_TYPE", "QUARKUS_FLOW_RUNNER_SECURITY_API_KEYS"} \subseteq SecurityNames
      BY DEF SecurityNames, OIDCNames
    <2>2. Built(apiKeyEnvVars(sec.apiKeys), {"QUARKUS_FLOW_RUNNER_SECURITY_TYPE", "QUARKUS_FLOW_RUNNER_SECURITY_API_KEYS"}, U)
      BY <1>1, KeysEnv
    <2> QED BY <2>1, <2>2, BuiltMore
  <1>3. Built(oidcEnvVars(sec.oidc), SecurityNames, U)
    <2>1. OIDCNames \subseteq SecurityNames
      BY DEF SecurityNames
    <2>2. Built(oidcEnvVars(sec.oidc), OIDCNames, U)
      BY OIDCEnv
    <2> QED BY <2>1, <2>2, BuiltMore
  <1>4. PICK n : n = <<envLiteral(<<"QUARKUS_FLOW_RUNNER_SECURITY_TYPE">>, "none")>>
    OBVIOUS
  <1>5. Built(n, {"QUARKUS_FLOW_RUNNER_SECURITY_TYPE"}, U)
    BY <1>4, BuiltOne DEF envLiteral
  <1>6. Built(n, SecurityNames, U)
    <2>1. {"QUARKUS_FLOW_RUNNER_SECURITY_TYPE"} \subseteq SecurityNames
      BY DEF SecurityNames, OIDCNames
    <2> QED BY <1>5, <2>1, BuiltMore
  <1>7. securityEnvVars(sec) \in {apiKeyEnvVars(sec.apiKeys), oidcEnvVars(sec.oidc), n}
    BY <1>4 DEF securityEnvVars
  <1> QED BY <1>1, <1>2, <1>3, <1>6, <1>7

LoggingNames == {"QUARKUS_FLOW_STRUCTURED_LOGGING_ENABLED",
                 "QUARKUS_FLOW_STRUCTURED_LOGGING_INCLUDE_WORKFLOW_PAYLOADS",
                 "QUARKUS_FLOW_STRUCTURED_LOGGING_INCLUDE_TASK_PAYLOADS"}

LEMMA BuiltIfSet ==
  ASSUME NEW value, NEW name, NEW U
  PROVE  Built(IF value = Nil THEN <<>> ELSE <<envLiteral(<<name>>, value)>>, {name}, U)
  <1>1. Built(<<envLiteral(<<name>>, value)>>, {name}, U)
    <2>1. PICK v : v = envLiteral(<<name>>, value)
      OBVIOUS
    <2>2. v.name = <<name>>
      BY <2>1 DEF envLiteral
    <2> QED BY <2>1, <2>2, BuiltOne
  <1>2. CASE value = Nil
    <2>1. (IF value = Nil THEN <<>> ELSE <<envLiteral(<<name>>, value)>>) = <<>>
      BY <1>2
    <2> QED BY <2>1, BuiltNone
  <1>3. CASE value # Nil
    <2>1. (IF value = Nil THEN <<>> ELSE <<envLiteral(<<name>>, value)>>) = <<envLiteral(<<name>>, value)>>
      BY <1>3
    <2> QED BY <1>1, <2>1
  <1> QED BY <1>2, <1>3

LEMMA LoggingEnv ==
  ASSUME NEW logging, NEW U
  PROVE  Built(structuredLoggingEnvVars(logging), LoggingNames, U)
  <1>1. PICK a : a = IF logging.enabled = Nil THEN <<>>
                     ELSE <<envLiteral(<<"QUARKUS_FLOW_STRUCTURED_LOGGING_ENABLED">>, logging.enabled)>>
    OBVIOUS
  <1>2. PICK b : b = IF logging.workflowPayloads = Nil THEN <<>>
                     ELSE <<envLiteral(<<"QUARKUS_FLOW_STRUCTURED_LOGGING_INCLUDE_WORKFLOW_PAYLOADS">>, logging.workflowPayloads)>>
    OBVIOUS
  <1>3. PICK c : c = IF logging.taskPayloads = Nil THEN <<>>
                     ELSE <<envLiteral(<<"QUARKUS_FLOW_STRUCTURED_LOGGING_INCLUDE_TASK_PAYLOADS">>, logging.taskPayloads)>>
    OBVIOUS
  <1>4. /\ Built(a, {"QUARKUS_FLOW_STRUCTURED_LOGGING_ENABLED"}, U)
        /\ Built(b, {"QUARKUS_FLOW_STRUCTURED_LOGGING_INCLUDE_WORKFLOW_PAYLOADS"}, U)
        /\ Built(c, {"QUARKUS_FLOW_STRUCTURED_LOGGING_INCLUDE_TASK_PAYLOADS"}, U)
    BY <1>1, <1>2, <1>3, BuiltIfSet
  <1>5. PICK K : K = {"QUARKUS_FLOW_STRUCTURED_LOGGING_ENABLED"} \cup {"QUARKUS_FLOW_STRUCTURED_LOGGING_INCLUDE_WORKFLOW_PAYLOADS"}
    OBVIOUS
  <1>6. Built(a \o b, K, U)
    BY <1>4, <1>5, BuiltConcat
  <1>7. Built((a \o b) \o c, K \cup {"QUARKUS_FLOW_STRUCTURED_LOGGING_INCLUDE_TASK_PAYLOADS"}, U)
    BY <1>4, <1>5, <1>6, BuiltConcat
  <1>8. K \cup {"QUARKUS_FLOW_STRUCTURED_LOGGING_INCLUDE_TASK_PAYLOADS"} = LoggingNames
    BY <1>5 DEF LoggingNames
  <1>9. structuredLoggingEnvVars(logging) \in {<<>>, (a \o b) \o c}
    BY <1>1, <1>2, <1>3 DEF structuredLoggingEnvVars
  <1> QED BY <1>7, <1>8, <1>9, BuiltNone

LEMMA EnvOfOptions ==
  ASSUME NEW c, Record(c, DOMAIN NoContainer), NEW e, NEW d
  PROVE  /\ d = WithEnv(c, e) => d.env = c.env \o e
         /\ d \in {DefaultQuarkusProbes(c), WithFlowVolumeMounts(c, e), DurableStartupProbe(c)} => d.env = c.env
  BY DEF WithEnv, DefaultQuarkusProbes, WithFlowVolumeMounts, DurableStartupProbe, Record, NoContainer

\* The path of the flows is there once, whatever the user says of it.
LEMMA SourcePathEnv ==
  ASSUME NEW c, Record(c, DOMAIN NoContainer), NEW U, Distinct(c.env, U), NEW d, d = WithFlowSourcePath(c)
  PROVE  Distinct(d.env, U \ {SourcePath}) /\ NamesOf(d.env) \subseteq NamesOf(c.env) \cup {SourcePath}
  <1>1. PICK f : f = Without(c, {SourcePath})
    OBVIOUS
  <1>2. PICK e : e = <<envLiteral(SourcePath, "/deployments/workflows")>>
    OBVIOUS
  <1>3. Record(f, DOMAIN NoContainer)
    BY <1>1, EnvOnly DEF Kept
  <1>4. d = WithEnv(f, e)
    BY <1>1, <1>2 DEF WithFlowSourcePath, Without, WithEnv
  <1>5. d.env = f.env \o e
    BY <1>3, <1>4, EnvOfOptions
  <1>6. Distinct(f.env, U \ {SourcePath}) /\ NamesOf(f.env) \subseteq NamesOf(c.env) \ {SourcePath}
    BY <1>1, WithoutDistinct
  <1>7. Built(e, {"QUARKUS_FLOW_RUNNER_SOURCE_PATH"}, U \ {SourcePath})
    BY <1>2, BuiltOne DEF envLiteral, SourcePath
  <1>8. Len(e) = 1 /\ e[1].name = SourcePath
    BY <1>2 DEF envLiteral
  <1>9. NamesOf(e) = {SourcePath}
    BY <1>8 DEF NamesOf
  <1>10. Distinct(e, U \ {SourcePath}) /\ NamesOf(f.env) \cap NamesOf(e) \subseteq U \ {SourcePath}
    BY <1>6, <1>7, <1>9 DEF Built
  <1>11. Distinct(f.env \o e, U \ {SourcePath})
    BY <1>6, <1>10, DistinctConcat
  <1>12. NamesOf(f.env \o e) = NamesOf(f.env) \cup NamesOf(e)
    BY <1>6, <1>10, NamesOfConcat DEF Distinct
  <1> QED BY <1>5, <1>6, <1>9, <1>11, <1>12

\* What the operator adds for a durable runner and users may name as well.
Shared == {<<"QUARKUS_FLOW_DURABLE_KUBE_LEASE_MEMBER_DURATION">>, <<"QUARKUS_FLOW_DURABLE_KUBE_SCHEDULERS_MEMBER_INTERVAL">>}

LEMMA DurableList ==
  ASSUME NEW pool, NEW e, e \in {<<>>, <<envLiteral(AcquireTimeout, "30S")>>}, NEW d, d = DurableEnvs(pool) \o e
  PROVE  /\ Distinct(d, {})
         /\ NamesOf(d) \subseteq Immutable \cup Shared \cup (IF e = <<>> THEN {} ELSE {AcquireTimeout})
  <1>1. PICK s : s = DurableEnvs(pool)
    OBVIOUS
  <1>2. PICK H : H = {"QUARKUS_FLOW_DURABLE_KUBE_LEASE_LEADER_ENABLED", "QUARKUS_FLOW_DURABLE_KUBE_POOL_NAME",
                      "QUARKUS_FLOW_DURABLE_KUBE_LEASE_MEMBER_DURATION", "QUARKUS_FLOW_DURABLE_KUBE_SCHEDULERS_MEMBER_INTERVAL",
                      "POD_NAME", "POD_NAMESPACE"}
    OBVIOUS
  <1>3. Built(s, H, {})
    BY <1>1, <1>2, BuiltSix DEF DurableEnvs, envLiteral, envFieldRef
  <1>4. /\ Len(s) = 6 /\ s[1].name = <<"QUARKUS_FLOW_DURABLE_KUBE_LEASE_LEADER_ENABLED">>
        /\ s[2].name = <<"QUARKUS_FLOW_DURABLE_KUBE_POOL_NAME">>
        /\ s[3].name = <<"QUARKUS_FLOW_DURABLE_KUBE_LEASE_MEMBER_DURATION">>
        /\ s[4].name = <<"QUARKUS_FLOW_DURABLE_KUBE_SCHEDULERS_MEMBER_INTERVAL">>
        /\ s[5].name = <<"POD_NAME">> /\ s[6].name = <<"POD_NAMESPACE">>
    BY <1>1 DEF DurableEnvs, envLiteral, envFieldRef
  <1>5. \A i \in 1..6 : i = 1 \/ i = 2 \/ i = 3 \/ i = 4 \/ i = 5 \/ i = 6
    OBVIOUS
  <1>6. NamesOf(s) \subseteq Immutable \cup Shared
    BY <1>4, <1>5 DEF NamesOf, Immutable, Shared
  <1>7. PICK a : a = <<envLiteral(AcquireTimeout, "30S")>>
    OBVIOUS
  <1>8. Len(a) = 1 /\ a[1].name = AcquireTimeout
    BY <1>7 DEF envLiteral
  <1>9. NamesOf(a) = {AcquireTimeout}
    BY <1>8 DEF NamesOf
  <1>10. Built(a, {"QUARKUS_FLOW_DURABLE_KUBE_LEASE_MEMBER_ACQUIRE_TIMEOUT"}, {})
    BY <1>7, BuiltOne DEF envLiteral, AcquireTimeout
  <1>11. Built(e, {"QUARKUS_FLOW_DURABLE_KUBE_LEASE_MEMBER_ACQUIRE_TIMEOUT"}, {})
    BY <1>7, <1>10, BuiltNone
  <1>12. Built(s \o e, H \cup {"QUARKUS_FLOW_DURABLE_KUBE_LEASE_MEMBER_ACQUIRE_TIMEOUT"}, {})
    BY <1>2, <1>3, <1>11, BuiltConcat
  <1>13. Distinct(s, {}) /\ Distinct(e, {}) /\ Distinct(d, {})
    BY <1>1, <1>3, <1>11, <1>12 DEF Built
  <1>14. List(s) /\ List(e)
    BY <1>13 DEF Distinct
  <1>15. NamesOf(d) = NamesOf(s) \cup NamesOf(e)
    BY <1>1, <1>14, NamesOfConcat
  <1>16. CASE e = a
    <2>1. PICK z : z = <<>>
      OBVIOUS
    <2>2. Len(z) = 0
      BY <2>1
    <2>3. a # <<>>
      BY <1>8, <2>1, <2>2
    <2> QED BY <1>6, <1>9, <1>13, <1>15, <1>16, <2>3
  <1>17. CASE e = <<>>
    <2>1. Len(e) = 0
      BY <1>17
    <2>2. NamesOf(e) = {}
      BY <2>1 DEF NamesOf
    <2> QED BY <1>6, <1>13, <1>15, <1>17, <2>2
  <1> QED BY <1>7, <1>16, <1>17

\* The variables that a durable runner needs are there once; a timeout of the user's stays.
LEMMA DurableEnv ==
  ASSUME NEW c, Record(c, DOMAIN NoContainer), NEW U, Distinct(c.env, U), NamesOf(c.env) \cap Shared \subseteq U,
         NEW pool, NEW d, d = WithDurableEnvVars(c, pool)
  PROVE  Distinct(d.env, U \ Immutable)
  <1>1. PICK f : f = Without(c, Immutable)
    OBVIOUS
  <1>2. PICK e : e = IF \E i \in DOMAIN f.env : f.env[i].name = AcquireTimeout THEN <<>>
                     ELSE <<envLiteral(AcquireTimeout, "30S")>>
    OBVIOUS
  <1>3. PICK s : s = DurableEnvs(pool) \o e
    OBVIOUS
  <1>4. Record(f, DOMAIN NoContainer)
    BY <1>1, EnvOnly DEF Kept
  <1>5. d = WithEnv(f, s)
    BY <1>1, <1>2, <1>3 DEF WithDurableEnvVars, Without, WithEnv
  <1>6. d.env = f.env \o s
    BY <1>4, <1>5, EnvOfOptions
  <1>7. Distinct(f.env, U \ Immutable) /\ NamesOf(f.env) \subseteq NamesOf(c.env) \ Immutable
    BY <1>1, WithoutDistinct
  <1>8. e \in {<<>>, <<envLiteral(AcquireTimeout, "30S")>>}
    BY <1>2
  <1>9. /\ Distinct(s, {})
        /\ NamesOf(s) \subseteq Immutable \cup Shared \cup (IF e = <<>> THEN {} ELSE {AcquireTimeout})
    BY <1>3, <1>8, DurableList
  <1>10. DOMAIN f.env = 1..Len(f.env)
    BY <1>7 DEF Distinct, List
  <1>11. e # <<>> => AcquireTimeout \notin NamesOf(f.env)
    BY <1>2, <1>10 DEF NamesOf
  <1>12. NamesOf(f.env) \cap NamesOf(s) \subseteq U \ Immutable
    BY <1>7, <1>9, <1>11
  <1>13. Distinct(s, U \ Immutable)
    BY <1>9, DistinctMore
  <1>14. Distinct(f.env \o s, U \ Immutable)
    BY <1>7, <1>12, <1>13, DistinctConcat
  <1> QED BY <1>6, <1>14


-----------------------------------------------------------------------------
(* The runner                                                              *)

UserEnv(app) == app.container.env \o app.podTemplate.container.env

\* Names that a runner may have twice: the user's own, but not those the operator keeps.
FreeNames(rt) ==
    ((NamesOf(UserEnv(rt.app)) \cup KeyNames(SameNames(rt.security.apiKeys))) \ {SourcePath})
    \ (IF rt.persistence # Nil THEN Immutable ELSE {})

LEMMA UserEnvDistinct ==
  ASSUME NEW app, ApplicationSpec(app)
  PROVE  Distinct(UserEnv(app), NamesOf(UserEnv(app)))
  <1>1. Container(app.container) /\ Container(app.podTemplate.container)
    BY DEF ApplicationSpec
  <1>2. List(UserEnv(app))
    BY <1>1, ElementsOfConcat DEF Container, UserEnv
  <1> QED BY <1>2 DEF Distinct, NamesOf

\* What the operator adds to what the user says, before the flows and the leases.
LEMMA OperatorEnv ==
  ASSUME NEW rt, LogicFlowRuntime(rt), NEW V, V = NamesOf(UserEnv(rt.app)) \cup KeyNames(SameNames(rt.security.apiKeys)),
         NEW e, e = UserEnv(rt.app) \o (persistenceQuarkusEnvVars(rt.persistence) \o securityEnvVars(rt.security)
                                        \o structuredLoggingEnvVars(rt.logging))
  PROVE  Distinct(e, V) /\ NamesOf(e) \cap Shared \subseteq V
  <1>1. PICK a : a = persistenceQuarkusEnvVars(rt.persistence)
    OBVIOUS
  <1>2. PICK b : b = securityEnvVars(rt.security)
    OBVIOUS
  <1>3. PICK c : c = structuredLoggingEnvVars(rt.logging)
    OBVIOUS
  <1>4. PICK H : H = {"QUARKUS_DATASOURCE_USERNAME", "QUARKUS_DATASOURCE_PASSWORD", "QUARKUS_DATASOURCE_JDBC_URL",
                      "QUARKUS_HIBERNATE_ORM_DATABASE_DEFAULT_SCHEMA"}
    OBVIOUS
  <1>5. Built(a, H, V)
    BY <1>1, <1>4, PersistenceEnv
  <1>6. Built(b, SecurityNames, V)
    <2>1. Built(b, SecurityNames, KeyNames(SameNames(rt.security.apiKeys)))
      BY <1>2, SecurityEnv DEF LogicFlowRuntime
    <2> QED BY <2>1, BuiltMore
  <1>7. Built(c, LoggingNames, V)
    BY <1>3, LoggingEnv
  <1>8. PICK ab : ab = a \o b
    OBVIOUS
  <1>9. H \cap SecurityNames = {}
    BY <1>4 DEF SecurityNames, OIDCNames
  <1>10. Built(ab, H \cup SecurityNames, V)
    BY <1>5, <1>6, <1>8, <1>9, BuiltConcat
  <1>11. PICK K : K = H \cup SecurityNames
    OBVIOUS
  <1>12. K \cap LoggingNames = {}
    BY <1>4, <1>11 DEF SecurityNames, OIDCNames, LoggingNames
  <1>13. PICK f : f = ab \o c
    OBVIOUS
  <1>14. Built(f, K \cup LoggingNames, V)
    BY <1>7, <1>10, <1>11, <1>12, <1>13, BuiltConcat
  <1>15. PICK u : u = UserEnv(rt.app)
    OBVIOUS
  <1>16. Distinct(u, V)
    BY <1>15, UserEnvDistinct, DistinctMore DEF LogicFlowRuntime
  <1>17. Distinct(f, V) /\ NamesOf(u) \cap NamesOf(f) \subseteq V
    BY <1>14, <1>15 DEF Built
  <1>18. e = u \o f
    BY <1>1, <1>2, <1>3, <1>8, <1>13, <1>15
  <1>19. Distinct(e, V)
    BY <1>16, <1>17, <1>18, DistinctConcat
  <1>20. NamesOf(e) = NamesOf(u) \cup NamesOf(f)
    BY <1>16, <1>17, <1>18, NamesOfConcat DEF Distinct
  <1>21. \A n \in Shared : n[1] \notin K \cup LoggingNames
    BY <1>4, <1>11 DEF Shared, SecurityNames, OIDCNames, LoggingNames
  <1> QED BY <1>14, <1>15, <1>19, <1>20, <1>21 DEF Built

LEMMA RunnerEnv ==
  ASSUME NEW rt, LogicFlowRuntime(rt),
         NEW c2, Record(c2, DOMAIN NoContainer),
         c2.env = UserEnv(rt.app) \o (persistenceQuarkusEnvVars(rt.persistence) \o securityEnvVars(rt.security)
                                      \o structuredLoggingEnvVars(rt.logging)),
         NEW c3, Record(c3, DOMAIN NoContainer), c3 = DefaultQuarkusProbes(c2),
         NEW c4, Record(c4, DOMAIN NoContainer), c4 = WithFlowSourcePath(c3),
         NEW c5, Record(c5, DOMAIN NoContainer), c5 = WithFlowVolumeMounts(c4, rt.flows),
         NEW c6, c6 = IF rt.persistence # Nil THEN DurableStartupProbe(WithDurableEnvVars(c5, rt.name)) ELSE c5
  PROVE  Distinct(c6.env, FreeNames(rt))
  <1>1. PICK V : V = NamesOf(UserEnv(rt.app)) \cup KeyNames(SameNames(rt.security.apiKeys))
    OBVIOUS
  <1>2. Distinct(c2.env, V) /\ NamesOf(c2.env) \cap Shared \subseteq V
    BY <1>1, OperatorEnv
  <1>3. c3.env = c2.env
    BY EnvOfOptions
  <1>4. Distinct(c4.env, V \ {SourcePath}) /\ NamesOf(c4.env) \subseteq NamesOf(c2.env) \cup {SourcePath}
    BY <1>2, <1>3, SourcePathEnv
  <1>5. c5.env = c4.env
    BY EnvOfOptions
  <1>6. SourcePath \notin Shared
    BY DEF SourcePath, Shared
  <1>7. NamesOf(c5.env) \cap Shared \subseteq V \ {SourcePath}
    BY <1>2, <1>4, <1>5, <1>6
  <1>8. CASE rt.persistence = Nil
    <2>1. FreeNames(rt) = V \ {SourcePath} /\ c6 = c5
      BY <1>1, <1>8 DEF FreeNames
    <2> QED BY <1>4, <1>5, <2>1
  <1>9. CASE rt.persistence # Nil
    <2>1. PICK d : d = WithDurableEnvVars(c5, rt.name)
      OBVIOUS
    <2>2. PICK U : U = V \ {SourcePath}
      OBVIOUS
    <2>3. Distinct(c5.env, U) /\ NamesOf(c5.env) \cap Shared \subseteq U
      BY <1>4, <1>5, <1>7, <2>2
    <2>4. Distinct(d.env, U \ Immutable)
      BY <2>1, <2>3, DurableEnv
    <2>5. Record(d, DOMAIN NoContainer)
      BY <2>1, DurableEnvOnly DEF Kept
    <2>6. c6 = DurableStartupProbe(d)
      BY <1>9, <2>1
    <2>7. c6.env = d.env
      BY <2>5, <2>6, EnvOfOptions
    <2>8. FreeNames(rt) = U \ Immutable
      BY <1>1, <1>9, <2>2 DEF FreeNames
    <2> QED BY <2>4, <2>7, <2>8
  <1> QED BY <1>8, <1>9

\* The runner's image, of the release that runs unless the user chose one.
RunnerImage(rt, rel) ==
    Or(ResolvedImage(rt.app), Image("runner", IF HasPersistence(rt.persistence) THEN "standard" ELSE "minimal", rel))

RunnerPods(rt, rel, w) ==
    /\ w.selector = SelectorLabels(<<rt.name>>)
    /\ w.template.labels = MergeMaps(ChildLabels(rt, <<rt.name>>), rt.app.podTemplate.labels)
    /\ w.template.main.image = RunnerImage(rt, rel) /\ w.template.main.liveness # Nil
    /\ w.template.main.mounts = (rt.app.container.mounts \o rt.app.podTemplate.container.mounts) \o rt.flows
    /\ Distinct(w.template.main.env, FreeNames(rt))
    /\ w.template.containers = <<"runner">> \o filterSidecars(rt.app.podTemplate.sidecars, "runner")
    /\ w.template.volumes = rt.app.podTemplate.volumes \o FlowVolumes(rt.flows)
    /\ w.template.account = IF rt.persistence # Nil THEN <<rt.name>>
                            ELSE IF rt.app.podTemplate.account = Nil THEN Nil ELSE <<rt.app.podTemplate.account>>

LEMMA RunnerBuilt ==
  ASSUME NEW rt, LogicFlowRuntime(rt), NEW rel
  PROVE  RunnerPods(rt, rel, RunnerDeployment(rt, rel))
  <1>1. PICK c0 : c0 = resolveContainer(rt.app)
    OBVIOUS
  <1>2. /\ Record(c0, DOMAIN NoContainer) /\ c0.image = ResolvedImage(rt.app)
        /\ c0.mounts = rt.app.container.mounts \o rt.app.podTemplate.container.mounts /\ c0.env = UserEnv(rt.app)
    BY <1>1, ContainerResolved DEF LogicFlowRuntime, Container, UserEnv
  <1>3. PICK c1 : c1 = DefaultRunnerImage(c0, rt.persistence, rel)
    OBVIOUS
  <1>4. Record(c1, DOMAIN NoContainer) /\ c1.image = RunnerImage(rt, rel) /\ c1.mounts = c0.mounts
        /\ c1.env = c0.env
    BY <1>2, <1>3 DEF DefaultRunnerImage, Record, NoContainer, RunnerImage
  <1>5. PICK e : e = persistenceQuarkusEnvVars(rt.persistence) \o securityEnvVars(rt.security)
                     \o structuredLoggingEnvVars(rt.logging)
    OBVIOUS
  <1>6. PICK c2 : c2 = WithEnv(c1, e)
    OBVIOUS
  <1>7. Kept(c1, c2)
    BY <1>4, <1>6, EnvOnly
  <1>8. PICK c3 : c3 = DefaultQuarkusProbes(c2)
    OBVIOUS
  <1>9. Probe("/q/health/live", RunnerPort) # Nil
    BY ManifestConstants DEF Probes
  <1>10. Record(c3, DOMAIN NoContainer) /\ c3.image = c1.image /\ c3.mounts = c1.mounts /\ c3.liveness # Nil
    BY <1>7, <1>8, <1>9 DEF Kept, DefaultQuarkusProbes, Record, NoContainer, Or
  <1>11. PICK f : f = Without(c3, {SourcePath})
    OBVIOUS
  <1>12. PICK c4 : c4 = WithFlowSourcePath(c3)
    OBVIOUS
  <1>13. Kept(c3, c4)
    <2>1. Kept(c3, f)
      BY <1>10, <1>11, EnvOnly
    <2>2. c4 = WithEnv(f, <<envLiteral(SourcePath, "/deployments/workflows")>>)
      BY <1>11, <1>12 DEF WithFlowSourcePath, WithEnv, Without
    <2>3. Kept(f, c4)
      BY <2>1, <2>2, EnvOnly DEF Kept
    <2> QED BY <2>1, <2>3 DEF Kept
  <1>14. PICK c5 : c5 = WithFlowVolumeMounts(c4, rt.flows)
    OBVIOUS
  <1>15. /\ Record(c5, DOMAIN NoContainer) /\ c5.image = c4.image /\ c5.liveness = c4.liveness
         /\ c5.mounts = c4.mounts \o rt.flows
    BY <1>13, <1>14 DEF Kept, WithFlowVolumeMounts, Record, NoContainer
  <1>16. PICK c6 : c6 = IF rt.persistence # Nil THEN DurableStartupProbe(WithDurableEnvVars(c5, rt.name)) ELSE c5
    OBVIOUS
  <1>17. Kept(c5, c6)
    <2>1. Kept(c5, WithDurableEnvVars(c5, rt.name))
      BY <1>15, DurableEnvOnly
    <2>2. Kept(WithDurableEnvVars(c5, rt.name), DurableStartupProbe(WithDurableEnvVars(c5, rt.name)))
      BY <2>1, EnvOnly DEF Kept
    <2> QED BY <1>15, <1>16, <2>1, <2>2 DEF Kept
  <1>18. c2.env = UserEnv(rt.app) \o e
    <2>1. c2.env = c1.env \o e
      BY <1>4, <1>6 DEF WithEnv, Record, NoContainer
    <2> QED BY <1>2, <1>4, <2>1
  <1>19. Distinct(c6.env, FreeNames(rt))
    <2>1. Record(c2, DOMAIN NoContainer) /\ Record(c4, DOMAIN NoContainer)
      BY <1>7, <1>13 DEF Kept
    <2> QED BY <1>5, <1>8, <1>10, <1>12, <1>14, <1>15, <1>16, <1>18, <2>1, RunnerEnv
  <1>20. PICK spec : spec = ToDeploymentSpec("runner", rt.app, ChildLabels(rt, <<rt.name>>),
                                             SelectorLabels(<<rt.name>>), c6)
    OBVIOUS
  <1>21. PICK w : w = [spec EXCEPT !.template.volumes = @ \o FlowVolumes(rt.flows),
                                   !.template.account = IF rt.persistence # Nil THEN <<rt.name>> ELSE @]
    OBVIOUS
  <1>22. w = RunnerDeployment(rt, rel)
    BY <1>1, <1>3, <1>5, <1>6, <1>8, <1>12, <1>14, <1>16, <1>20, <1>21 DEF RunnerDeployment
  <1>23. PICK t : t = toPodTemplate("runner", rt.app, ChildLabels(rt, <<rt.name>>), c6)
    OBVIOUS
  <1>24. spec = [selector |-> SelectorLabels(<<rt.name>>), replicas |-> Or(rt.app.podTemplate.replicas, rt.app.replicas),
                 template |-> t]
    BY <1>20, <1>23 DEF ToDeploymentSpec
  <1>25. PICK vs : vs = rt.app.podTemplate.volumes \o FlowVolumes(rt.flows)
    OBVIOUS
  <1>26. PICK labels : labels = MergeMaps(ChildLabels(rt, <<rt.name>>), rt.app.podTemplate.labels)
    OBVIOUS
  <1>27. PICK ac : ac = IF rt.app.podTemplate.account = Nil THEN Nil ELSE <<rt.app.podTemplate.account>>
    OBVIOUS
  <1>28. PICK cs : cs = <<"runner">> \o filterSidecars(rt.app.podTemplate.sidecars, "runner")
    OBVIOUS
  <1>29. t.labels = labels /\ t.main = c6 /\ t.volumes = rt.app.podTemplate.volumes /\ t.account = ac
         /\ t.containers = cs
         /\ {"labels", "main", "volumes", "account", "containers"} \subseteq DOMAIN t
    BY <1>23, <1>26, <1>27, <1>28 DEF toPodTemplate
  <1>30. w = [spec EXCEPT !.template = [t EXCEPT !.volumes = vs, !.account = IF rt.persistence # Nil THEN <<rt.name>> ELSE ac]]
    BY <1>21, <1>24, <1>25, <1>29
  <1>31. /\ w.selector = SelectorLabels(<<rt.name>>) /\ w.template.labels = labels /\ w.template.main = c6
         /\ w.template.volumes = vs /\ w.template.account = IF rt.persistence # Nil THEN <<rt.name>> ELSE ac
         /\ w.template.containers = cs
    BY <1>24, <1>29, <1>30
  <1>32. /\ c6.image = RunnerImage(rt, rel) /\ c6.liveness # Nil
         /\ c6.mounts = (rt.app.container.mounts \o rt.app.podTemplate.container.mounts) \o rt.flows
    BY <1>2, <1>4, <1>10, <1>13, <1>15, <1>17 DEF Kept
  <1> QED BY <1>22, <1>25, <1>26, <1>27, <1>31, <1>32, <1>19, <1>28 DEF RunnerPods

UserAccount(app) == IF app.podTemplate.account = Nil THEN Nil ELSE <<app.podTemplate.account>>

DataIndexEnv(plat) ==
    persistenceQuarkusEnvVars(plat.dataIndex.persistence)
    \o <<envLiteral(<<"QUARKUS_FLYWAY_MIGRATE_AT_START">>, "true"),
         envLiteral(<<"QUARKUS_FLYWAY_BASELINE_ON_MIGRATE">>, "true"),
         envLiteral(<<"QUARKUS_FLYWAY_BASELINE_VERSION">>, "0"),
         envLiteral(<<"QUARKUS_SMALLRYE_GRAPHQL_UI_ENABLE">>, "true")>>

\* A Deployment or DaemonSet of the platform's: the pods of app, and what is added.
PlatformPods(w, app, name, labels, mounts, volumes, account, env) ==
    /\ w.selector = SelectorLabels(name) /\ w.template.labels = MergeMaps(labels, app.podTemplate.labels)
    /\ w.template.main.image = ResolvedImage(app) /\ w.template.main.liveness # Nil
    /\ w.template.main.mounts = (app.container.mounts \o app.podTemplate.container.mounts) \o mounts
    /\ w.template.main.env = UserEnv(app) \o env
    /\ \E main : w.template.containers = <<main>> \o filterSidecars(app.podTemplate.sidecars, main)
    /\ w.template.volumes = app.podTemplate.volumes \o volumes /\ w.template.account = account

LEMMA EmptySuffix ==
  ASSUME NEW s, List(s)
  PROVE  s \o <<>> = s
  BY DEF List

LEMMA DataIndexBuilt ==
  ASSUME NEW plat, LogicPlatform(plat)
  PROVE  LET app == plat.dataIndex.app
         IN PlatformPods(DataIndexDeployment(plat), app, dataIndexName(plat), ChildLabelsInstance(plat, dataIndexName(plat)),
                         <<>>, <<>>, UserAccount(app), DataIndexEnv(plat))
  <1>1. PICK app : app = plat.dataIndex.app
    OBVIOUS
  <1>2. ApplicationSpec(app) /\ Container(app.container) /\ Container(app.podTemplate.container)
        /\ List(app.podTemplate.volumes)
    BY <1>1 DEF LogicPlatform, ApplicationSpec
  <1>3. PICK c0 : c0 = resolveContainer(app)
    OBVIOUS
  <1>4. PICK mounts : mounts = app.container.mounts \o app.podTemplate.container.mounts
    OBVIOUS
  <1>5. Record(c0, DOMAIN NoContainer) /\ c0.image = ResolvedImage(app) /\ c0.mounts = mounts /\ c0.env = UserEnv(app)
        /\ List(mounts)
    <2>1. List(mounts)
      BY <1>2, <1>4, ElementsOfConcat DEF Container
    <2> QED BY <1>2, <1>3, <1>4, <2>1, ContainerResolved DEF Container, UserEnv
  <1>6. PICK e : e = DataIndexEnv(plat)
    OBVIOUS
  <1>7. PICK c1 : c1 = WithEnv(c0, e)
    OBVIOUS
  <1>8. /\ Record(c1, DOMAIN NoContainer) /\ c1.image = c0.image /\ c1.mounts = c0.mounts
        /\ c1.env = UserEnv(app) \o e
    BY <1>5, <1>7 DEF WithEnv, Record, NoContainer
  <1>9. PICK c2 : c2 = DefaultQuarkusProbes(c1)
    OBVIOUS
  <1>10. Probe("/q/health/live", RunnerPort) # Nil
    BY ManifestConstants DEF Probes
  <1>11. c2.image = c0.image /\ c2.mounts = c0.mounts /\ c2.env = c1.env /\ c2.liveness # Nil
    BY <1>8, <1>9, <1>10 DEF DefaultQuarkusProbes, Record, NoContainer, Or
  <1>12. PICK labels : labels = ChildLabelsInstance(plat, dataIndexName(plat))
    OBVIOUS
  <1>13. PICK t : t = toPodTemplate("logic-data-index", app, labels, c2)
    OBVIOUS
  <1>14. PICK w : w = [selector |-> SelectorLabels(dataIndexName(plat)),
                       replicas |-> Or(app.podTemplate.replicas, app.replicas), template |-> t]
    OBVIOUS
  <1>15. w = DataIndexDeployment(plat)
    BY <1>1, <1>3, <1>6, <1>7, <1>9, <1>12, <1>13, <1>14 DEF DataIndexDeployment, ToDeploymentSpec, DataIndexEnv
  <1>16. /\ t.labels = MergeMaps(labels, app.podTemplate.labels) /\ t.main = c2 /\ t.volumes = app.podTemplate.volumes
         /\ t.account = UserAccount(app)
         /\ t.containers = <<"logic-data-index">> \o filterSidecars(app.podTemplate.sidecars, "logic-data-index")
    BY <1>13 DEF toPodTemplate, UserAccount
  <1>17. mounts \o <<>> = mounts /\ app.podTemplate.volumes \o <<>> = app.podTemplate.volumes
    BY <1>2, <1>5, EmptySuffix
  <1>18. PlatformPods(w, app, dataIndexName(plat), labels, <<>>, <<>>, UserAccount(app), e)
    BY <1>4, <1>5, <1>8, <1>11, <1>14, <1>16, <1>17 DEF PlatformPods
  <1> QED BY <1>1, <1>6, <1>12, <1>15, <1>18

VectorMounts == <<"config", "data", "var-log", "var-lib-docker-containers">>

LEMMA VectorBuilt ==
  ASSUME NEW plat, LogicPlatform(plat), plat.dataIndex.vector # Nil
  PROVE  LET app == plat.dataIndex.vector.app
             name == vectorName(plat)
         IN PlatformPods(VectorDaemonSet(plat), app, name, MergeMaps(ChildLabelsInstance(plat, name), SelectorLabels(name)),
                         VectorMounts, VectorVolumes(plat), name, VectorEnvVars(plat))
  <1>1. PICK app : app = plat.dataIndex.vector.app
    OBVIOUS
  <1>2. PICK name : name = vectorName(plat)
    OBVIOUS
  <1>3. ApplicationSpec(app) /\ Container(app.container) /\ Container(app.podTemplate.container)
    BY <1>1 DEF LogicPlatform, ApplicationSpec
  <1>4. PICK c0 : c0 = resolveContainer(app)
    OBVIOUS
  <1>5. PICK mounts : mounts = app.container.mounts \o app.podTemplate.container.mounts
    OBVIOUS
  <1>6. Record(c0, DOMAIN NoContainer) /\ c0.image = ResolvedImage(app) /\ c0.mounts = mounts /\ c0.env = UserEnv(app)
    BY <1>3, <1>4, <1>5, ContainerResolved DEF Container, UserEnv
  <1>7. PICK e : e = VectorEnvVars(plat)
    OBVIOUS
  <1>8. PICK c1 : c1 = WithEnv(c0, e)
    OBVIOUS
  <1>9. /\ Record(c1, DOMAIN NoContainer) /\ c1.image = c0.image /\ c1.mounts = c0.mounts
        /\ c1.env = UserEnv(app) \o e
    BY <1>6, <1>8 DEF WithEnv, Record, NoContainer
  <1>10. PICK c2 : c2 = WithVectorVolumeMounts(c1)
    OBVIOUS
  <1>11. /\ Record(c2, DOMAIN NoContainer) /\ c2.image = c0.image /\ c2.mounts = mounts \o VectorMounts
         /\ c2.env = c1.env
    BY <1>6, <1>9, <1>10 DEF WithVectorVolumeMounts, VectorMounts, Record, NoContainer
  <1>12. Probe("/health", 8686) # Nil
    BY ManifestConstants DEF Probes
  <1>13. PICK c3 : c3 = VectorProbes(c2)
    OBVIOUS
  <1>14. c3.image = c0.image /\ c3.mounts = c2.mounts /\ c3.env = c1.env /\ c3.liveness # Nil
    BY <1>11, <1>12, <1>13 DEF VectorProbes, Record, NoContainer
  <1>15. PICK labels : labels = MergeMaps(ChildLabelsInstance(plat, name), SelectorLabels(name))
    OBVIOUS
  <1>16. PICK t : t = toPodTemplate("vector", app, labels, c3)
    OBVIOUS
  <1>17. PICK spec : spec = ToDaemonSetSpec("vector", app, labels, SelectorLabels(name), c3)
    OBVIOUS
  <1>18. spec = [selector |-> SelectorLabels(name), replicas |-> Nil, template |-> [t EXCEPT !.security = Nil]]
    BY <1>16, <1>17 DEF ToDaemonSetSpec
  <1>19. PICK w : w = [spec EXCEPT !.template.volumes = @ \o VectorVolumes(plat), !.template.account = name]
    OBVIOUS
  <1>20. w = VectorDaemonSet(plat)
    BY <1>1, <1>2, <1>4, <1>7, <1>8, <1>10, <1>13, <1>15, <1>17, <1>19 DEF VectorDaemonSet
  <1>21. PICK vs : vs = app.podTemplate.volumes \o VectorVolumes(plat)
    OBVIOUS
  <1>22. /\ t.labels = MergeMaps(labels, app.podTemplate.labels) /\ t.main = c3 /\ t.volumes = app.podTemplate.volumes
         /\ t.containers = <<"vector">> \o filterSidecars(app.podTemplate.sidecars, "vector")
         /\ {"labels", "main", "volumes", "account", "security", "containers"} \subseteq DOMAIN t
    BY <1>16 DEF toPodTemplate
  <1>23. PICK u : u = [t EXCEPT !.security = Nil]
    OBVIOUS
  <1>24. /\ u.labels = t.labels /\ u.main = c3 /\ u.volumes = t.volumes /\ u.containers = t.containers
         /\ {"labels", "main", "volumes", "account", "containers"} \subseteq DOMAIN u
    BY <1>22, <1>23
  <1>25. w = [spec EXCEPT !.template = [u EXCEPT !.volumes = vs, !.account = name]]
    BY <1>18, <1>19, <1>21, <1>22, <1>23, <1>24
  <1>26. /\ w.selector = SelectorLabels(name) /\ w.template.labels = t.labels /\ w.template.main = c3
         /\ w.template.volumes = vs /\ w.template.account = name /\ w.template.containers = t.containers
    BY <1>18, <1>24, <1>25
  <1>27. PlatformPods(w, app, name, labels, VectorMounts, VectorVolumes(plat), name, e)
    BY <1>5, <1>6, <1>9, <1>11, <1>14, <1>21, <1>22, <1>26 DEF PlatformPods
  <1> QED BY <1>1, <1>2, <1>7, <1>15, <1>20, <1>27

LEMMA GatewayBuilt ==
  ASSUME NEW plat, LogicPlatform(plat), plat.gateway # Nil
  PROVE  LET app == plat.gateway.app
             name == gatewayName(plat)
         IN PlatformPods(GatewayDeployment(plat), app, name, ChildLabelsInstance(plat, name), <<>>, <<>>, name,
                         <<envFieldRef(<<"POD_NAMESPACE">>, "metadata.namespace")>>)
  <1>1. PICK app : app = plat.gateway.app
    OBVIOUS
  <1>2. PICK name : name = gatewayName(plat)
    OBVIOUS
  <1>3. ApplicationSpec(app) /\ Container(app.container) /\ Container(app.podTemplate.container)
        /\ List(app.podTemplate.volumes)
    BY <1>1 DEF LogicPlatform, ApplicationSpec
  <1>4. PICK c0 : c0 = resolveContainer(app)
    OBVIOUS
  <1>5. PICK mounts : mounts = app.container.mounts \o app.podTemplate.container.mounts
    OBVIOUS
  <1>6. Record(c0, DOMAIN NoContainer) /\ c0.image = ResolvedImage(app) /\ c0.mounts = mounts /\ c0.env = UserEnv(app)
        /\ List(mounts)
    <2>1. List(mounts)
      BY <1>3, <1>5, ElementsOfConcat DEF Container
    <2> QED BY <1>3, <1>4, <1>5, <2>1, ContainerResolved DEF Container, UserEnv
  <1>7. PICK e : e = <<envFieldRef(<<"POD_NAMESPACE">>, "metadata.namespace")>>
    OBVIOUS
  <1>8. PICK c1 : c1 = WithEnv(c0, e)
    OBVIOUS
  <1>9. /\ Record(c1, DOMAIN NoContainer) /\ c1.image = c0.image /\ c1.mounts = c0.mounts
        /\ c1.env = UserEnv(app) \o e
    BY <1>6, <1>8 DEF WithEnv, Record, NoContainer
  <1>10. Probe("/health", 8081) # Nil
    BY ManifestConstants DEF Probes
  <1>11. PICK c2 : c2 = GatewayProbes(c1)
    OBVIOUS
  <1>12. c2.image = c0.image /\ c2.mounts = c0.mounts /\ c2.env = c1.env /\ c2.liveness # Nil
    BY <1>9, <1>10, <1>11 DEF GatewayProbes, Record, NoContainer
  <1>13. PICK labels : labels = ChildLabelsInstance(plat, name)
    OBVIOUS
  <1>14. PICK t : t = toPodTemplate("workflow-gateway", app, labels, c2)
    OBVIOUS
  <1>15. PICK spec : spec = ToDeploymentSpec("workflow-gateway", app, labels, SelectorLabels(name), c2)
    OBVIOUS
  <1>16. spec = [selector |-> SelectorLabels(name), replicas |-> Or(app.podTemplate.replicas, app.replicas), template |-> t]
    BY <1>14, <1>15 DEF ToDeploymentSpec
  <1>17. PICK w : w = [spec EXCEPT !.template.account = name]
    OBVIOUS
  <1>18. w = GatewayDeployment(plat)
    BY <1>1, <1>2, <1>4, <1>7, <1>8, <1>11, <1>13, <1>15, <1>17 DEF GatewayDeployment
  <1>19. /\ t.labels = MergeMaps(labels, app.podTemplate.labels) /\ t.main = c2 /\ t.volumes = app.podTemplate.volumes
         /\ t.containers = <<"workflow-gateway">> \o filterSidecars(app.podTemplate.sidecars, "workflow-gateway")
         /\ {"labels", "main", "volumes", "account", "containers"} \subseteq DOMAIN t
    BY <1>14 DEF toPodTemplate
  <1>20. w = [spec EXCEPT !.template = [t EXCEPT !.account = name]]
    BY <1>16, <1>17
  <1>21. /\ w.selector = SelectorLabels(name) /\ w.template.labels = t.labels /\ w.template.main = c2
         /\ w.template.volumes = t.volumes /\ w.template.account = name /\ w.template.containers = t.containers
    BY <1>16, <1>19, <1>20
  <1>22. mounts \o <<>> = mounts /\ app.podTemplate.volumes \o <<>> = app.podTemplate.volumes
    BY <1>3, <1>6, EmptySuffix
  <1>23. PlatformPods(w, app, name, labels, <<>>, <<>>, name, e)
    BY <1>5, <1>6, <1>9, <1>12, <1>19, <1>21, <1>22 DEF PlatformPods
  <1> QED BY <1>1, <1>2, <1>7, <1>13, <1>18, <1>23

-----------------------------------------------------------------------------
(* What a reconcile applies                                                *)

LEMMA RuntimeRendered ==
  ASSUME NEW o, o.kind = "LogicFlowRuntime", NEW rel, NEW os
  PROVE  /\ Render(o, rel, os).workloads = {RunnerDeployment(o, rel)}
         /\ Render(o, rel, os).services = {QuarkusService(<<o.name>>)}
         /\ Render(o, rel, os).fronts = {}
         /\ Render(o, rel, os).accounts = IF o.persistence # Nil THEN {<<o.name>>} ELSE {}
         /\ Render(o, rel, os).configMaps = {<<o.flows[i]>> : i \in DOMAIN o.flows}
  BY DEF Render, RuntimeObjects, Nothing

LEMMA ServiceRendered ==
  ASSUME NEW o, o.kind = "LogicFlowService", NEW rel, NEW os
  PROVE  Render(o, rel, os).workloads = {} /\ Render(o, rel, os).fronts = {ingressForService(o)}
  BY DEF Render, Nothing

LEMMA RunnerApplied ==
  ASSUME NEW o, o.kind = "LogicFlowRuntime", LogicFlowRuntime(o), NEW rel, NEW os, NEW w \in Render(o, rel, os).workloads
  PROVE  RunnerPods(o, rel, w) /\ QuarkusService(<<o.name>>) \in Render(o, rel, os).services
  <1>1. PICK r : r = Render(o, rel, os)
    OBVIOUS
  <1>2. r.workloads = {RunnerDeployment(o, rel)} /\ r.services = {QuarkusService(<<o.name>>)}
    BY <1>1, RuntimeRendered
  <1>3. w = RunnerDeployment(o, rel)
    BY <1>1, <1>2
  <1> QED BY <1>1, <1>2, <1>3, RunnerBuilt

Parts == DOMAIN Nothing

LEMMA DataIndexParts ==
  ASSUME NEW o, NEW os
  PROVE  LET a == DataIndexObjects(o, os)
             di == o.dataIndex
         IN /\ DOMAIN a = Parts /\ a.accounts = {} /\ a.configMaps = {}
            /\ a.workloads = IF di.enabled THEN {DataIndexDeployment(o)} ELSE {}
            /\ a.services = IF di.enabled THEN {QuarkusService(dataIndexName(o))} ELSE {}
            /\ a.fronts = IF ~di.enabled \/ di.ingress = Nil \/ ~di.ingress.enabled THEN {}
                          ELSE {IF os THEN routeForDataIndex(o) ELSE ingressForDataIndex(o)}
  <1>1. CASE ~o.dataIndex.enabled
    BY <1>1 DEF DataIndexObjects, Nothing, Parts
  <1>2. CASE o.dataIndex.enabled
    BY <1>2 DEF DataIndexObjects, Nothing, Parts
  <1> QED BY <1>1, <1>2

HasVector(o) == o.dataIndex.vector # Nil /\ o.dataIndex.vector.enabled

LEMMA VectorParts ==
  ASSUME NEW o
  PROVE  LET a == VectorObjects(o)
         IN /\ DOMAIN a = Parts /\ a.fronts = {}
            /\ a.workloads = IF HasVector(o) THEN {VectorDaemonSet(o)} ELSE {}
            /\ a.services = IF HasVector(o) THEN {VectorService(o)} ELSE {}
            /\ a.accounts = IF HasVector(o) THEN {vectorName(o)} ELSE {}
            /\ a.configMaps = IF HasVector(o) THEN {vectorName(o)} ELSE {}
  BY DEF VectorObjects, Nothing, Parts, HasVector

LEMMA GatewayParts ==
  ASSUME NEW o, NEW os
  PROVE  LET a == GatewayObjects(o, os)
             gw == o.gateway
         IN /\ DOMAIN a = Parts /\ a.configMaps = {}
            /\ a.workloads = IF gw = Nil THEN {} ELSE {GatewayDeployment(o)}
            /\ a.services = IF gw = Nil THEN {} ELSE {serviceForGateway(o)}
            /\ a.accounts = IF gw = Nil THEN {} ELSE {gatewayName(o)}
            /\ a.fronts = IF gw = Nil \/ gw.ingress = Nil \/ ~gw.ingress.enabled THEN {}
                          ELSE {IF os THEN routeForGateway(o) ELSE ingressForGateway(o)}
  <1>1. CASE o.gateway = Nil
    BY <1>1 DEF GatewayObjects, Nothing, Parts
  <1>2. CASE o.gateway # Nil
    BY <1>2 DEF GatewayObjects, Nothing, Parts
  <1> QED BY <1>1, <1>2

LEMMA PlatformRendered ==
  ASSUME NEW o, o.kind = "LogicPlatform", NEW rel, NEW os, NEW k \in Parts
  PROVE  Render(o, rel, os)[k] = DataIndexObjects(o, os)[k] \cup (VectorObjects(o)[k] \cup GatewayObjects(o, os)[k])
  <1>1. PICK d : d = DataIndexObjects(o, os)
    OBVIOUS
  <1>2. PICK v : v = VectorObjects(o)
    OBVIOUS
  <1>3. PICK g : g = GatewayObjects(o, os)
    OBVIOUS
  <1>4. DOMAIN d = Parts /\ DOMAIN v = Parts
    BY <1>1, <1>2, DataIndexParts, VectorParts
  <1>5. Render(o, rel, os) = Both(d, Both(v, g))
    BY <1>1, <1>2, <1>3 DEF Render
  <1> QED BY <1>1, <1>2, <1>3, <1>4, <1>5 DEF Both

LEMMA PlatformWorkloads ==
  ASSUME NEW o, o.kind = "LogicPlatform", NEW rel, NEW os, NEW w \in Render(o, rel, os).workloads
  PROVE  \/ /\ o.dataIndex.enabled /\ w = DataIndexDeployment(o)
            /\ QuarkusService(dataIndexName(o)) \in Render(o, rel, os).services
         \/ /\ HasVector(o) /\ w = VectorDaemonSet(o) /\ VectorService(o) \in Render(o, rel, os).services
            /\ vectorName(o) \in Render(o, rel, os).accounts /\ vectorName(o) \in Render(o, rel, os).configMaps
         \/ /\ o.gateway # Nil /\ w = GatewayDeployment(o) /\ serviceForGateway(o) \in Render(o, rel, os).services
            /\ gatewayName(o) \in Render(o, rel, os).accounts
  <1>1. {"workloads", "services", "accounts", "configMaps"} \subseteq Parts
    BY DEF Parts, Nothing
  <1>2. ASSUME NEW k \in {"workloads", "services", "accounts", "configMaps"}
        PROVE  Render(o, rel, os)[k] = DataIndexObjects(o, os)[k] \cup (VectorObjects(o)[k] \cup GatewayObjects(o, os)[k])
    BY <1>1, PlatformRendered
  <1>3. PICK d : d = DataIndexObjects(o, os)
    OBVIOUS
  <1>4. PICK v : v = VectorObjects(o)
    OBVIOUS
  <1>5. PICK g : g = GatewayObjects(o, os)
    OBVIOUS
  <1>6. PICK r : r = Render(o, rel, os)
    OBVIOUS
  <1>7. /\ r.workloads = d.workloads \cup (v.workloads \cup g.workloads)
        /\ r.services = d.services \cup (v.services \cup g.services)
        /\ r.accounts = d.accounts \cup (v.accounts \cup g.accounts)
        /\ r.configMaps = d.configMaps \cup (v.configMaps \cup g.configMaps)
    BY <1>2, <1>3, <1>4, <1>5, <1>6
  <1>8. CASE w \in d.workloads
    <2>1. /\ d.workloads = IF o.dataIndex.enabled THEN {DataIndexDeployment(o)} ELSE {}
          /\ d.services = IF o.dataIndex.enabled THEN {QuarkusService(dataIndexName(o))} ELSE {}
      BY <1>3, DataIndexParts
    <2> QED BY <1>6, <1>7, <1>8, <2>1
  <1>9. CASE w \in v.workloads
    BY <1>4, <1>6, <1>7, <1>9, VectorParts
  <1>10. CASE w \in g.workloads
    <2>1. /\ g.workloads = IF o.gateway = Nil THEN {} ELSE {GatewayDeployment(o)}
          /\ g.services = IF o.gateway = Nil THEN {} ELSE {serviceForGateway(o)}
          /\ g.accounts = IF o.gateway = Nil THEN {} ELSE {gatewayName(o)}
      BY <1>5, GatewayParts
    <2> QED BY <1>6, <1>7, <1>10, <2>1
  <1> QED BY <1>6, <1>7, <1>8, <1>9, <1>10

LEMMA PlatformFronts ==
  ASSUME NEW o, o.kind = "LogicPlatform", NEW rel, NEW os, NEW f \in Render(o, rel, os).fronts
  PROVE  \/ /\ o.dataIndex.enabled /\ o.dataIndex.ingress # Nil /\ o.dataIndex.ingress.enabled
            /\ f = IF os THEN routeForDataIndex(o) ELSE ingressForDataIndex(o)
            /\ QuarkusService(dataIndexName(o)) \in Render(o, rel, os).services
         \/ /\ o.gateway # Nil /\ o.gateway.ingress # Nil /\ o.gateway.ingress.enabled
            /\ f = IF os THEN routeForGateway(o) ELSE ingressForGateway(o)
            /\ serviceForGateway(o) \in Render(o, rel, os).services
  <1>1. {"fronts", "services"} \subseteq Parts
    BY DEF Parts, Nothing
  <1>2. ASSUME NEW k \in {"fronts", "services"}
        PROVE  Render(o, rel, os)[k] = DataIndexObjects(o, os)[k] \cup (VectorObjects(o)[k] \cup GatewayObjects(o, os)[k])
    BY <1>1, PlatformRendered
  <1>3. PICK d : d = DataIndexObjects(o, os)
    OBVIOUS
  <1>4. PICK v : v = VectorObjects(o)
    OBVIOUS
  <1>5. PICK g : g = GatewayObjects(o, os)
    OBVIOUS
  <1>6. PICK r : r = Render(o, rel, os)
    OBVIOUS
  <1>7. /\ r.fronts = d.fronts \cup (v.fronts \cup g.fronts)
        /\ r.services = d.services \cup (v.services \cup g.services)
    BY <1>2, <1>3, <1>4, <1>5, <1>6
  <1>8. CASE f \in d.fronts
    <2>1. /\ d.services = IF o.dataIndex.enabled THEN {QuarkusService(dataIndexName(o))} ELSE {}
          /\ d.fronts = IF ~o.dataIndex.enabled \/ o.dataIndex.ingress = Nil \/ ~o.dataIndex.ingress.enabled THEN {}
                       ELSE {IF os THEN routeForDataIndex(o) ELSE ingressForDataIndex(o)}
      BY <1>3, DataIndexParts
    <2> QED BY <1>6, <1>7, <1>8, <2>1
  <1>9. CASE f \in v.fronts
    BY <1>4, <1>6, <1>7, <1>9, VectorParts
  <1>10. CASE f \in g.fronts
    <2>1. /\ g.services = IF o.gateway = Nil THEN {} ELSE {serviceForGateway(o)}
          /\ g.fronts = IF o.gateway = Nil \/ o.gateway.ingress = Nil \/ ~o.gateway.ingress.enabled THEN {}
                       ELSE {IF os THEN routeForGateway(o) ELSE ingressForGateway(o)}
      BY <1>5, GatewayParts
    <2> QED BY <1>6, <1>7, <1>10, <2>1
  <1> QED BY <1>6, <1>7, <1>8, <1>9, <1>10

-----------------------------------------------------------------------------
(* The inductive invariant                                                 *)

Equipped(result) == \A w \in result.workloads : w.template.main.image # Nil /\ w.template.main.liveness # Nil

\* The stored object is one that users can write and, once admitted, is valid and settled
\* for every release; what was applied is what its defaulted copy renders to.
ManifestInv ==
    /\ Object(obj) /\ \E o \in Objects : obj.name = o.name
    /\ phase \in {"submitted", "refused", "stored", "applied"} /\ admitted \in BOOLEAN
    /\ release \in 1..MaxRelease /\ openShift \in BOOLEAN
    /\ admitted => Valid(obj) /\ \A r \in Releases : Default(obj, r) = obj
    /\ Equipped(out)
    /\ phase = "applied" => out = Render(Default(obj, release), release, openShift)

LEMMA RunnerEquipped ==
  ASSUME NEW o, Object(o), o.kind = "LogicFlowRuntime", NEW r \in Releases, NEW os
  PROVE  Equipped(Render(o, r, os))
  <1>1. PICK w : w = RunnerDeployment(o, r)
    OBVIOUS
  <1>2. RunnerPods(o, r, w)
    BY <1>1, RunnerBuilt DEF Object
  <1>3. RunnerImage(o, r) # Nil
    BY ImageIsSet DEF RunnerImage, Or
  <1>4. Render(o, r, os).workloads = {w}
    BY <1>1, RuntimeRendered
  <1> QED BY <1>2, <1>3, <1>4 DEF Equipped, RunnerPods

LEMMA PlatformEquipped ==
  ASSUME NEW o, Object(o), o.kind = "LogicPlatform", NEW r, NEW os,
         o.dataIndex.enabled => o.dataIndex.app.image # Nil,
         HasVector(o) => o.dataIndex.vector.app.image # Nil,
         o.gateway # Nil => o.gateway.app.image # Nil
  PROVE  Equipped(Render(o, r, os))
  <1> SUFFICES ASSUME NEW w \in Render(o, r, os).workloads
               PROVE  w.template.main.image # Nil /\ w.template.main.liveness # Nil
    BY DEF Equipped
  <1>1. LogicPlatform(o)
    BY DEF Object
  <1>2. \A a : a.image # Nil => ResolvedImage(a) # Nil
    BY DEF ResolvedImage, Or
  <1>3. CASE o.dataIndex.enabled /\ w = DataIndexDeployment(o)
    BY <1>1, <1>2, <1>3, DataIndexBuilt DEF PlatformPods
  <1>4. CASE HasVector(o) /\ w = VectorDaemonSet(o)
    BY <1>1, <1>2, <1>4, VectorBuilt DEF PlatformPods, HasVector
  <1>5. CASE o.gateway # Nil /\ w = GatewayDeployment(o)
    BY <1>1, <1>2, <1>5, GatewayBuilt DEF PlatformPods
  <1> QED BY <1>3, <1>4, <1>5, PlatformWorkloads

LEMMA RenderEquipped ==
  ASSUME NEW o, Object(o), NEW r \in Releases, NEW os
  PROVE  Equipped(Render(Default(o, r), r, os))
  <1>1. PICK q : q = Default(o, r)
    OBVIOUS
  <1>2. Object(q) /\ Same(o, q)
    BY <1>1, DefaultTwice
  <1>3. CASE o.kind = "LogicFlowRuntime"
    BY <1>1, <1>2, <1>3, RunnerEquipped DEF Same
  <1>4. CASE o.kind = "LogicPlatform"
    <2>1. SamePlatform(o, q) /\ q.kind = "LogicPlatform"
      BY <1>2, <1>4 DEF Same
    <2>2. /\ q.dataIndex.enabled => q.dataIndex.app.image # Nil
          /\ HasVector(q) => q.dataIndex.vector.app.image # Nil
          /\ q.gateway # Nil => q.gateway.app.image # Nil
      BY <2>1 DEF SamePlatform, SameDataIndex, SameVector, SameGateway, HasVector
    <2> QED BY <1>1, <1>2, <2>1, <2>2, PlatformEquipped
  <1>5. CASE o.kind = "LogicFlowService"
    <2>1. q = o
      BY <1>2, <1>5 DEF Same
    <2> QED BY <1>1, <1>5, <2>1, ServiceRendered DEF Equipped
  <1> QED BY <1>3, <1>4, <1>5 DEF Object

LEMMA ManifestInvInit ==
  ASSUME Init
  PROVE  ManifestInv
  <1>1. Equipped(out)
    BY DEF Init, Equipped, Nothing
  <1>2. Object(obj) /\ \E o \in Objects : obj.name = o.name
    BY ManifestConstants DEF Init
  <1>3. release \in 1..MaxRelease
    BY ManifestConstants DEF Init
  <1> QED BY <1>1, <1>2, <1>3 DEF Init, ManifestInv

LEMMA ManifestInvNext ==
  ASSUME ManifestInv, [Next]_vars
  PROVE  ManifestInv'
  <1>1. release \in Releases /\ \A n \in 1..MaxRelease : n \in Releases
    BY ManifestConstants DEF ManifestInv, Releases
  <1>2. CASE Admit
    <2>1. PICK q : q = Default(obj, release)
      OBVIOUS
    <2>2. Object(q) /\ q.name = obj.name /\ \A s \in Releases : Default(q, s) = q
      BY <1>1, <2>1, DefaultTwice DEF ManifestInv, Same
    <2>3. CASE Valid(q)
      <3>1. obj' = q /\ phase' = "stored" /\ admitted' = TRUE /\ UNCHANGED <<release, openShift, out>>
        BY <1>2, <2>1, <2>3 DEF Admit
      <3> QED BY <2>2, <2>3, <3>1 DEF ManifestInv
    <2>4. CASE ~Valid(q)
      <3>1. /\ obj' = obj /\ admitted' = admitted /\ UNCHANGED <<release, openShift, out>>
            /\ phase' = IF phase = "submitted" THEN "refused" ELSE phase
        BY <1>2, <2>1, <2>4 DEF Admit
      <3> QED BY <3>1 DEF ManifestInv
    <2> QED BY <2>3, <2>4
  <1>3. CASE StoreUnseen
    BY <1>3 DEF StoreUnseen, ManifestInv
  <1>4. CASE Reconcile
    <2>1. Equipped(out')
      BY <1>1, <1>4, RenderEquipped DEF Reconcile, ManifestInv
    <2> QED BY <1>4, <2>1 DEF Reconcile, ManifestInv
  <1>5. CASE Upgrade
    <2>1. release' \in 1..MaxRelease
      BY <1>5, ManifestConstants DEF Upgrade, ManifestInv
    <2> QED BY <1>5, <2>1 DEF Upgrade, ManifestInv
  <1>6. CASE UNCHANGED vars
    BY <1>6 DEF vars, ManifestInv
  <1> QED BY <1>2, <1>3, <1>4, <1>5, <1>6 DEF Next

\* ManifestInv holds in every behaviour of admission, reconciliation and upgrades.
THEOREM ManifestInvariant == Spec => []ManifestInv
  <1>1. Init => ManifestInv
    BY ManifestInvInit
  <1>2. ManifestInv /\ [Next]_vars => ManifestInv'
    BY ManifestInvNext
  <1> QED BY <1>1, <1>2, PTL DEF Spec

\* Every container that is applied has an image and a liveness probe, and the phases and
\* releases are what they are.
THEOREM ManifestTypes == Spec => []TypeOK
  <1>1. ManifestInv => TypeOK
    BY DEF ManifestInv, TypeOK, Object, Equipped
  <1> QED BY <1>1, ManifestInvariant, PTL

\* What was admitted once is admitted again, unchanged, by every later release.
THEOREM AdmissionStays == Spec => []AdmissionIsStable
  <1>1. ManifestInv => AdmissionIsStable
    BY ManifestConstants DEF ManifestInv, AdmissionIsStable, Releases
  <1> QED BY <1>1, ManifestInvariant, PTL

-----------------------------------------------------------------------------
(* Labels and images                                                       *)

\* What is applied is rendered from the defaulted copy q.
AppliedFrom(q) ==
    /\ Object(q) /\ Same(obj, q) /\ out = Render(q, release, openShift)
    /\ admitted => q = obj /\ Valid(obj)

LEMMA AppliedCopy ==
  ASSUME ManifestInv, Applied
  PROVE  \E q : AppliedFrom(q)
  <1>1. PICK q : q = Default(obj, release)
    OBVIOUS
  <1>2. release \in Releases
    BY ManifestConstants DEF ManifestInv, Releases
  <1>3. Object(q) /\ Same(obj, q)
    BY <1>1, <1>2, DefaultTwice DEF ManifestInv
  <1> QED BY <1>1, <1>2, <1>3 DEF ManifestInv, Applied, AppliedFrom

\* The pods of the copy are the user's.
LEMMA CopiedApps ==
  ASSUME NEW o, NEW q, Same(o, q), NEW b \in Apps(q)
  PROVE  \E a \in Apps(o) : SameApp(a, b)
  <1>1. CASE o.kind = "LogicFlowRuntime"
    BY <1>1 DEF Same, SameRuntime, Apps
  <1>2. CASE o.kind = "LogicPlatform"
    <2>1. SamePlatform(o, q) /\ q.kind = "LogicPlatform"
      BY <1>2 DEF Same
    <2>2. CASE b = q.dataIndex.app
      BY <1>2, <2>1, <2>2 DEF SamePlatform, SameDataIndex, Apps
    <2>3. CASE q.dataIndex.vector # Nil /\ b = q.dataIndex.vector.app
      BY <1>2, <2>1, <2>3 DEF SamePlatform, SameDataIndex, SameVector, Apps
    <2>4. CASE q.gateway # Nil /\ b = q.gateway.app
      BY <1>2, <2>1, <2>4 DEF SamePlatform, SameGateway, Apps
    <2> QED BY <2>1, <2>2, <2>3, <2>4 DEF Apps
  <1>3. CASE o.kind \notin {"LogicFlowRuntime", "LogicPlatform"}
    BY <1>3 DEF Same, Apps
  <1> QED BY <1>1, <1>2, <1>3

LEMMA LabelsSelect ==
  ASSUME NEW name, NEW labels, "name" \in DOMAIN labels, labels["name"] = name,
         NEW own, "name" \notin DOMAIN own
  PROVE  \A k \in DOMAIN SelectorLabels(name) : MergeMaps(labels, own)[k] = SelectorLabels(name)[k]
  BY DEF SelectorLabels, MergeMaps

LEMMA NameLabel ==
  ASSUME NEW owner, NEW app
  PROVE  /\ "name" \in DOMAIN ChildLabels(owner, app) /\ ChildLabels(owner, app)["name"] = app
         /\ "name" \in DOMAIN ChildLabelsInstance(owner, app) /\ ChildLabelsInstance(owner, app)["name"] = app
         /\ "name" \in DOMAIN MergeMaps(ChildLabelsInstance(owner, app), SelectorLabels(app))
         /\ MergeMaps(ChildLabelsInstance(owner, app), SelectorLabels(app))["name"] = app
  <1>1. PICK l : l = ChildLabels(owner, app)
    OBVIOUS
  <1>2. "name" \in DOMAIN l /\ l["name"] = app
    BY <1>1 DEF ChildLabels, MergeMaps
  <1>3. PICK m : m = ChildLabelsInstance(owner, app)
    OBVIOUS
  <1>4. "name" \in DOMAIN m /\ m["name"] = app
    BY <1>1, <1>2, <1>3 DEF ChildLabelsInstance, MergeMaps
  <1>5. PICK n : n = MergeMaps(m, SelectorLabels(app))
    OBVIOUS
  <1>6. "name" \in DOMAIN n /\ n["name"] = app
    BY <1>4, <1>5 DEF MergeMaps, SelectorLabels
  <1> QED BY <1>1, <1>2, <1>3, <1>4, <1>5, <1>6

SelectedBy(w, s) == s.selector = w.selector /\ \A k \in DOMAIN s.selector : w.template.labels[k] = s.selector[k]

LEMMA PlatformPodsSelected ==
  ASSUME NEW w, NEW app, NEW name, NEW labels, NEW mounts, NEW volumes, NEW account, NEW env,
         PlatformPods(w, app, name, labels, mounts, volumes, account, env),
         "name" \in DOMAIN labels, labels["name"] = name, "name" \notin DOMAIN app.podTemplate.labels,
         NEW s, s.selector = SelectorLabels(name)
  PROVE  SelectedBy(w, s)
  BY LabelsSelect DEF PlatformPods, SelectedBy

LEMMA InvSelectors ==
  ASSUME ManifestInv
  PROVE  SelectorsFindPods
  <1> SUFFICES ASSUME Applied, \A a \in Apps(obj) : "name" \notin DOMAIN a.podTemplate.labels,
                      NEW w \in out.workloads
               PROVE  \E s \in out.services : SelectedBy(w, s)
    BY DEF SelectorsFindPods, SelectedBy
  <1>1. PICK q : AppliedFrom(q)
    BY AppliedCopy
  <1>2. /\ Object(q) /\ q.kind = obj.kind /\ out = Render(q, release, openShift)
        /\ \A b \in Apps(q) : "name" \notin DOMAIN b.podTemplate.labels
    BY <1>1, CopiedApps DEF AppliedFrom, Same, SameApp
  <1>3. CASE obj.kind = "LogicFlowRuntime"
    <2>1. LogicFlowRuntime(q) /\ q.kind = "LogicFlowRuntime" /\ w \in Render(q, release, openShift).workloads
      BY <1>2, <1>3 DEF Object
    <2>2. RunnerPods(q, release, w) /\ QuarkusService(<<q.name>>) \in out.services
      BY <1>2, <2>1, RunnerApplied
    <2>3. "name" \notin DOMAIN q.app.podTemplate.labels
      BY <1>2, <1>3 DEF Apps
    <2>4. PICK name : name = <<q.name>>
      OBVIOUS
    <2>5. PICK labels : labels = ChildLabels(q, name)
      OBVIOUS
    <2>6. w.selector = SelectorLabels(name) /\ w.template.labels = MergeMaps(labels, q.app.podTemplate.labels)
      BY <2>2, <2>4, <2>5 DEF RunnerPods
    <2>7. "name" \in DOMAIN labels /\ labels["name"] = name
      BY <2>5, NameLabel
    <2>8. QuarkusService(name).selector = SelectorLabels(name)
      BY DEF QuarkusService
    <2>9. \A k \in DOMAIN SelectorLabels(name) :
             MergeMaps(labels, q.app.podTemplate.labels)[k] = SelectorLabels(name)[k]
      BY <2>3, <2>7, LabelsSelect
    <2>10. SelectedBy(w, QuarkusService(name))
      BY <2>6, <2>8, <2>9 DEF SelectedBy
    <2> QED BY <2>2, <2>4, <2>10
  <1>4. CASE obj.kind = "LogicPlatform"
    <2>1. LogicPlatform(q) /\ q.kind = "LogicPlatform" /\ w \in Render(q, release, openShift).workloads
      BY <1>2, <1>4 DEF Object
    <2>2. CASE w = DataIndexDeployment(q) /\ QuarkusService(dataIndexName(q)) \in out.services
      <3>1. q.dataIndex.app \in Apps(q)
        BY <2>1 DEF Apps
      <3>2. SelectedBy(w, QuarkusService(dataIndexName(q)))
        BY <1>2, <2>1, <2>2, <3>1, DataIndexBuilt, PlatformPodsSelected, NameLabel DEF QuarkusService
      <3> QED BY <2>2, <3>2
    <2>3. CASE HasVector(q) /\ w = VectorDaemonSet(q) /\ VectorService(q) \in out.services
      <3>1. q.dataIndex.vector.app \in Apps(q)
        BY <2>1, <2>3 DEF Apps, HasVector
      <3>2. SelectedBy(w, VectorService(q))
        BY <1>2, <2>1, <2>3, <3>1, VectorBuilt, PlatformPodsSelected, NameLabel DEF VectorService, HasVector
      <3> QED BY <2>3, <3>2
    <2>4. CASE q.gateway # Nil /\ w = GatewayDeployment(q) /\ serviceForGateway(q) \in out.services
      <3>1. q.gateway.app \in Apps(q)
        BY <2>1, <2>4 DEF Apps
      <3>2. SelectedBy(w, serviceForGateway(q))
        BY <1>2, <2>1, <2>4, <3>1, GatewayBuilt, PlatformPodsSelected, NameLabel DEF serviceForGateway
      <3> QED BY <2>4, <3>2
    <2> QED BY <1>2, <2>1, <2>2, <2>3, <2>4, PlatformWorkloads
  <1>5. CASE obj.kind = "LogicFlowService"
    BY <1>2, <1>5, ServiceRendered
  <1> QED BY <1>3, <1>4, <1>5 DEF ManifestInv, Object

\* A Service finds the pods it is meant for, whatever labels the owner has.
THEOREM SelectorsFind == Spec => []SelectorsFindPods
  <1>1. ManifestInv => SelectorsFindPods
    BY InvSelectors
  <1> QED BY <1>1, ManifestInvariant, PTL

LEMMA InvRunnerFollows ==
  ASSUME ManifestInv
  PROVE  RunnerFollowsRelease
  <1> SUFFICES ASSUME Applied, obj.kind = "LogicFlowRuntime", NEW w \in out.workloads,
                      w.template.main.image.release > 0
               PROVE  w.template.main.image.release = release
    BY DEF RunnerFollowsRelease
  <1>1. PICK q : AppliedFrom(q)
    BY AppliedCopy
  <1>2. /\ q.kind = "LogicFlowRuntime" /\ LogicFlowRuntime(q) /\ LogicFlowRuntime(obj) /\ SameRuntime(obj, q)
        /\ w \in Render(q, release, openShift).workloads
    BY <1>1 DEF AppliedFrom, Same, Object, ManifestInv
  <1>3. RunnerPods(q, release, w)
    BY <1>2, RunnerApplied
  <1>4. ResolvedImage(q.app) # Nil => ResolvedImage(q.app).release = 0
    BY <1>2 DEF ResolvedImage, Or, SameRuntime, SameApp, LogicFlowRuntime
  <1>5. PICK i : i = ResolvedImage(q.app)
    OBVIOUS
  <1>6. CASE i = Nil
    BY <1>3, <1>5, <1>6 DEF RunnerPods, RunnerImage, Or, Image
  <1>7. CASE i # Nil
    BY <1>3, <1>4, <1>5, <1>7 DEF RunnerPods, RunnerImage, Or
  <1> QED BY <1>6, <1>7

\* After an upgrade a runner that nobody chose an image for is the new release's.
THEOREM RunnersFollow == Spec => []RunnerFollowsRelease
  <1>1. ManifestInv => RunnerFollowsRelease
    BY InvRunnerFollows
  <1> QED BY <1>1, ManifestInvariant, PTL

LEMMA InvImageFits ==
  ASSUME ManifestInv
  PROVE  ImageFitsPersistence
  <1> SUFFICES ASSUME Accepted, obj.kind = "LogicFlowRuntime",
                      obj.app.container.image = Nil, obj.app.podTemplate.container.image = Nil,
                      NEW w \in out.workloads, w.template.main.image.repo = "runner"
               PROVE  /\ w.template.main.image.variant = "standard" => HasPersistence(obj.persistence)
                      /\ w.template.main.image.variant = "minimal" => ~HasPersistence(obj.persistence)
    BY DEF ImageFitsPersistence
  <1>1. /\ AppliedFrom(obj) /\ ValidateRuntime(obj)
    BY AppliedCopy DEF Accepted, AppliedFrom, Valid
  <1>2. LogicFlowRuntime(obj) /\ w \in Render(obj, release, openShift).workloads
    BY <1>1 DEF AppliedFrom, Object
  <1>3. RunnerPods(obj, release, w)
    BY <1>2, RunnerApplied
  <1>4. ResolvedImage(obj.app) = obj.app.image
    BY DEF ResolvedImage, Or
  <1>5. CASE obj.app.image = Nil
    BY <1>3, <1>4, <1>5 DEF RunnerPods, RunnerImage, Or, Image
  <1>6. CASE obj.app.image # Nil
    BY <1>1, <1>3, <1>4, <1>6 DEF RunnerPods, RunnerImage, Or, ValidateRuntime, ValidateRunnerImage
  <1> QED BY <1>5, <1>6

\* A runner image of the operator's suits the persistence.
THEOREM ImagesFit == Spec => []ImageFitsPersistence
  <1>1. ManifestInv => ImageFitsPersistence
    BY InvImageFits
  <1> QED BY <1>1, ManifestInvariant, PTL

-----------------------------------------------------------------------------
(* Ingresses, Routes and certificates                                      *)

LEMMA InvFronts ==
  ASSUME ManifestInv
  PROVE  FrontsLeadSomewhere
  <1> SUFFICES ASSUME Applied, obj.kind = "LogicPlatform", NEW f \in out.fronts
               PROVE  \/ f.front = "Ingress" /\ f.name = dataIndexName(obj)
                      \/ \E s \in out.services : s.name = f.backend /\ s.port = f.port
    BY DEF FrontsLeadSomewhere
  <1>1. PICK q : AppliedFrom(q)
    BY AppliedCopy
  <1>2. q.kind = "LogicPlatform" /\ q.name = obj.name /\ f \in Render(q, release, openShift).fronts
    BY <1>1 DEF AppliedFrom, Same
  <1>3. CASE /\ f = IF openShift THEN routeForDataIndex(q) ELSE ingressForDataIndex(q)
             /\ QuarkusService(dataIndexName(q)) \in Render(q, release, openShift).services
    <2>1. CASE openShift
      <3>1. f.backend = dataIndexName(q) /\ f.port = 80
        BY <1>3, <2>1 DEF routeForDataIndex
      <3> QED BY <1>1, <1>3, <3>1 DEF QuarkusService, AppliedFrom
    <2>2. CASE ~openShift
      BY <1>2, <1>3, <2>2 DEF ingressForDataIndex, dataIndexName
    <2> QED BY <2>1, <2>2
  <1>4. CASE /\ f = IF openShift THEN routeForGateway(q) ELSE ingressForGateway(q)
             /\ serviceForGateway(q) \in Render(q, release, openShift).services
    <2>1. f.backend = gatewayName(q) /\ f.port = 80
      BY <1>4 DEF routeForGateway, ingressForGateway
    <2> QED BY <1>1, <1>4, <2>1 DEF serviceForGateway, AppliedFrom
  <1> QED BY <1>2, <1>3, <1>4, PlatformFronts

\* An Ingress or a Route of the platform's, but for the Data Index's Ingress, leads to a
\* Service that is applied with it.
THEOREM FrontsLead == Spec => []FrontsLeadSomewhere
  <1>1. ManifestInv => FrontsLeadSomewhere
    BY InvFronts
  <1> QED BY <1>1, ManifestInvariant, PTL

CertificateFits(f) ==
    /\ f.spec.tls.secret # Nil => f.secret = <<f.spec.tls.secret>>
    /\ IssuerFromSpec(f.spec) => f.secret # Nil /\ Addressed(f.annotations, f.spec.tls.issuer)

LEMMA IssuerAnnotated ==
  ASSUME NEW ingress, ingress.tls.enabled, IssuerFromSpec(ingress)
  PROVE  Addressed(Annotations(ingress), ingress.tls.issuer)
  <1>0. ingress.tls.issuer # Nil /\ ingress.tls.issuer.kind \in {"Issuer", "ClusterIssuer"}
    BY DEF IssuerFromSpec
  <1>1. PICK key : key = IF ingress.tls.issuer.kind \in {Nil, "ClusterIssuer"} THEN "cert-manager.io/cluster-issuer"
                         ELSE "cert-manager.io/issuer"
    OBVIOUS
  <1>2. PICK c : c = CertManagerAnnotation(ingress.tls.issuer)
    OBVIOUS
  <1>3. DOMAIN c = {key} /\ c[key] = ingress.tls.issuer.name
    BY <1>1, <1>2 DEF CertManagerAnnotation
  <1>4. Annotations(ingress) = MergeMaps(ingress.annotations, c)
    BY <1>0, <1>2 DEF Annotations, CertManagerAnnotation
  <1>5. PICK a : a = Annotations(ingress)
    OBVIOUS
  <1>6. /\ key \in DOMAIN a /\ a[key] = ingress.tls.issuer.name
        /\ DOMAIN a = DOMAIN ingress.annotations \cup {key}
    BY <1>3, <1>4, <1>5 DEF MergeMaps
  <1>7. "cert-manager.io/issuer-kind" \notin DOMAIN a
    <2>1. "cert-manager.io/issuer-kind" \notin DOMAIN ingress.annotations
      BY DEF IssuerFromSpec, CertManagerKeys
    <2>2. key # "cert-manager.io/issuer-kind"
      BY <1>1
    <2> QED BY <1>6, <2>1, <2>2
  <1>8. CASE ingress.tls.issuer.kind = "Issuer"
    <2>1. key = "cert-manager.io/issuer"
      BY <1>1, <1>8, ManifestConstants
    <2> QED BY <1>5, <1>6, <1>7, <1>8, <2>1 DEF Addressed
  <1>9. CASE ingress.tls.issuer.kind = "ClusterIssuer"
    <2>1. key = "cert-manager.io/cluster-issuer"
      BY <1>1, <1>9
    <2> QED BY <1>5, <1>6, <1>9, <2>1 DEF Addressed
  <1> QED BY <1>0, <1>8, <1>9

LEMMA InvCertificates ==
  ASSUME ManifestInv
  PROVE  IngressServesCertificateAskedFor
  <1> SUFFICES ASSUME Accepted, NEW f \in out.fronts, f.front = "Ingress", f.spec.tls.enabled
               PROVE  CertificateFits(f)
    BY DEF IngressServesCertificateAskedFor, CertificateFits
  <1>1. AppliedFrom(obj) /\ Valid(obj)
    BY AppliedCopy DEF Accepted, AppliedFrom
  <1>2. out = Render(obj, release, openShift) /\ f \in Render(obj, release, openShift).fronts
    BY <1>1 DEF AppliedFrom
  <1>3. <<obj.name, "tls">> # Nil /\ <<obj.name, "workflow-gateway", "tls-cert">> # Nil
    BY ManifestConstants DEF ManifestInv, Secrets
  <1>4. CASE obj.kind = "LogicFlowRuntime"
    BY <1>2, <1>4, RuntimeRendered
  <1>5. CASE obj.kind = "LogicFlowService"
    <2>1. f = ingressForService(obj)
      BY <1>2, <1>5, ServiceRendered
    <2>2. PICK i : i = obj.ingress
      OBVIOUS
    <2>3. f.spec = i /\ f.annotations = Annotations(i) /\ f.secret = TLSSecret(i.tls, <<obj.name, "tls">>)
      BY <2>1, <2>2 DEF ingressForService
    <2>4. ValidateTLS(i.tls)
      BY <1>1, <1>5, <2>2 DEF Valid
    <2> QED BY <1>3, <2>3, <2>4, IssuerAnnotated DEF ValidateTLS, TLSSecret, CertificateFits, IssuerFromSpec
  <1>6. CASE obj.kind = "LogicPlatform"
    <2>1. ValidatePlatform(obj)
      BY <1>1, <1>6 DEF Valid
    <2>2. CASE /\ obj.dataIndex.enabled /\ obj.dataIndex.ingress # Nil /\ obj.dataIndex.ingress.enabled
               /\ f = IF openShift THEN routeForDataIndex(obj) ELSE ingressForDataIndex(obj)
      <3>1. f = ingressForDataIndex(obj)
        BY <2>2 DEF routeForDataIndex
      <3>2. PICK i : i = obj.dataIndex.ingress
        OBVIOUS
      <3>3. f.spec = i /\ f.annotations = Annotations(i) /\ f.secret = TLSSecret(i.tls, <<obj.name, "tls">>)
        BY <3>1, <3>2 DEF ingressForDataIndex
      <3>4. ValidateTLS(i.tls)
        BY <2>1, <2>2, <3>2 DEF ValidatePlatform, validateIngress
      <3> QED BY <1>3, <3>3, <3>4, IssuerAnnotated DEF ValidateTLS, TLSSecret, CertificateFits, IssuerFromSpec
    <2>3. CASE /\ obj.gateway # Nil /\ obj.gateway.ingress # Nil /\ obj.gateway.ingress.enabled
               /\ f = IF openShift THEN routeForGateway(obj) ELSE ingressForGateway(obj)
      <3>1. f = ingressForGateway(obj)
        BY <2>3 DEF routeForGateway
      <3>2. PICK i : i = obj.gateway.ingress
        OBVIOUS
      <3>3. f.spec = i
        BY <3>1, <3>2 DEF ingressForGateway
      <3>4. ValidateTLS(i.tls)
        BY <2>1, <2>3, <3>2 DEF ValidatePlatform, validateWorkflowGateway
      <3>5. CASE i.tls.issuer = Nil
        <4>1. f.secret = TLSSecret(i.tls, Nil)
          BY <3>1, <3>2, <3>5 DEF ingressForGateway
        <4> QED BY <3>3, <3>5, <4>1 DEF TLSSecret, CertificateFits, IssuerFromSpec
      <3>6. CASE i.tls.issuer # Nil
        <4>1. i.tls.enabled /\ i.tls.issuer.name # Nil /\ i.tls.secret = Nil
          BY <3>3, <3>4, <3>6 DEF ValidateTLS
        <4>2. PICK c : c = [k \in {"cert-manager.io/issuer"} \cup
                                  (IF i.tls.issuer.kind = Nil THEN {} ELSE {"cert-manager.io/issuer-kind"})
                              |-> IF k = "cert-manager.io/issuer" THEN i.tls.issuer.name ELSE i.tls.issuer.kind]
          OBVIOUS
        <4>3. f.secret = <<obj.name, "workflow-gateway", "tls-cert">> /\ f.annotations = MergeMaps(i.annotations, c)
          BY <3>1, <3>2, <3>6, <4>1, <4>2 DEF ingressForGateway
        <4>4. /\ "cert-manager.io/issuer" \in DOMAIN c /\ c["cert-manager.io/issuer"] = i.tls.issuer.name
              /\ i.tls.issuer.kind # Nil => /\ "cert-manager.io/issuer-kind" \in DOMAIN c
                                            /\ c["cert-manager.io/issuer-kind"] = i.tls.issuer.kind
          BY <4>2
        <4>5. /\ "cert-manager.io/issuer" \in DOMAIN f.annotations
              /\ f.annotations["cert-manager.io/issuer"] = i.tls.issuer.name
              /\ i.tls.issuer.kind # Nil => /\ "cert-manager.io/issuer-kind" \in DOMAIN f.annotations
                                            /\ f.annotations["cert-manager.io/issuer-kind"] = i.tls.issuer.kind
          BY <4>3, <4>4 DEF MergeMaps
        <4>6. IssuerFromSpec(i) => Addressed(f.annotations, i.tls.issuer)
          <5>1. IssuerFromSpec(i) => i.tls.issuer.kind # Nil
            BY ManifestConstants DEF IssuerFromSpec
          <5> QED BY <4>5, <5>1 DEF Addressed
        <4> QED BY <1>3, <3>3, <4>1, <4>3, <4>6 DEF CertificateFits
      <3> QED BY <3>5, <3>6
    <2> QED BY <1>2, <1>6, <2>2, <2>3, PlatformFronts
  <1> QED BY <1>4, <1>5, <1>6 DEF ManifestInv, Object

\* Every Ingress with TLS serves the certificate of the user's Secret, or names a Secret
\* and addresses the issuer, of the right kind, that the user named.
THEOREM CertificatesAsAsked == Spec => []IngressServesCertificateAskedFor
  <1>1. ManifestInv => IngressServesCertificateAskedFor
    BY InvCertificates
  <1> QED BY <1>1, ManifestInvariant, PTL

-----------------------------------------------------------------------------
(* Lists without duplicates                                                *)

DataIndexOwn == {"QUARKUS_FLYWAY_MIGRATE_AT_START", "QUARKUS_FLYWAY_BASELINE_ON_MIGRATE",
                 "QUARKUS_FLYWAY_BASELINE_VERSION", "QUARKUS_SMALLRYE_GRAPHQL_UI_ENABLE"}

LEMMA DataIndexEnvDistinct ==
  ASSUME NEW plat
  PROVE  Distinct(DataIndexEnv(plat), {})
  <1>1. PICK a : a = persistenceQuarkusEnvVars(plat.dataIndex.persistence)
    OBVIOUS
  <1>2. PICK H : H = {"QUARKUS_DATASOURCE_USERNAME", "QUARKUS_DATASOURCE_PASSWORD", "QUARKUS_DATASOURCE_JDBC_URL",
                      "QUARKUS_HIBERNATE_ORM_DATABASE_DEFAULT_SCHEMA"}
    OBVIOUS
  <1>3. PICK b : b = <<envLiteral(<<"QUARKUS_FLYWAY_MIGRATE_AT_START">>, "true"),
                       envLiteral(<<"QUARKUS_FLYWAY_BASELINE_ON_MIGRATE">>, "true"),
                       envLiteral(<<"QUARKUS_FLYWAY_BASELINE_VERSION">>, "0"),
                       envLiteral(<<"QUARKUS_SMALLRYE_GRAPHQL_UI_ENABLE">>, "true")>>
    OBVIOUS
  <1>4. Built(a, H, {})
    BY <1>1, <1>2, PersistenceEnv
  <1>5. Built(b, DataIndexOwn, {})
    BY <1>3, BuiltFour DEF DataIndexOwn, envLiteral
  <1>6. H \cap DataIndexOwn = {}
    BY <1>2 DEF DataIndexOwn
  <1>7. Built(a \o b, H \cup DataIndexOwn, {})
    BY <1>4, <1>5, <1>6, BuiltConcat
  <1>8. DataIndexEnv(plat) = a \o b
    BY <1>1, <1>3 DEF DataIndexEnv
  <1> QED BY <1>7, <1>8 DEF Built

LEMMA VectorEnvDistinct ==
  ASSUME NEW plat
  PROVE  Distinct(VectorEnvVars(plat), {})
  <1>1. PICK v : v = plat.dataIndex.vector
    OBVIOUS
  <1>2. PICK p : p = plat.dataIndex.persistence
    OBVIOUS
  <1>3. PICK pg : pg = p.postgresql
    OBVIOUS
  <1>4. PICK a : a = <<envFieldRef(<<"VECTOR_SELF_NODE_NAME">>, "spec.nodeName"),
                       envFieldRef(<<"VECTOR_SELF_POD_NAME">>, "metadata.name"),
                       envFieldRef(<<"VECTOR_SELF_POD_NAMESPACE">>, "metadata.namespace"),
                       envFieldRef(<<"NODE_NAME">>, "spec.nodeName")>>
    OBVIOUS
  <1>5. PICK b : b = IF v.watchNamespaces \in {Nil, <<>>} THEN <<>>
                     ELSE <<envLiteral(<<"WORKFLOW_NAMESPACE">>, Head(v.watchNamespaces))>>
    OBVIOUS
  <1>6. PICK c : c = IF v.debugEvents THEN <<envLiteral(<<"DEBUG_EVENTS">>, "true")>> ELSE <<>>
    OBVIOUS
  <1>7. PICK d : d = <<envFromSecret(<<"POSTGRES_USER">>, pg.secret, userKey(pg)),
                       envFromSecret(<<"POSTGRES_PASSWORD">>, pg.secret, passwordKey(pg)),
                       envLiteral(<<"POSTGRES_PORT">>, Or(pg.port, DefaultPort)),
                       envLiteral(<<"POSTGRES_DB">>, pg.database),
                       envLiteral(<<"POSTGRES_SCHEMA">>, pg.schema),
                       envLiteral(<<"POSTGRES_HOST">>, VectorAddress(plat, pg))>>
    OBVIOUS
  <1>8. PICK f : f = IF ~HasPersistence(p) THEN <<>> ELSE d
    OBVIOUS
  <1>9. PICK A : A = {"VECTOR_SELF_NODE_NAME", "VECTOR_SELF_POD_NAME", "VECTOR_SELF_POD_NAMESPACE", "NODE_NAME"}
    OBVIOUS
  <1>10. PICK D : D = {"POSTGRES_USER", "POSTGRES_PASSWORD", "POSTGRES_PORT", "POSTGRES_DB", "POSTGRES_SCHEMA",
                       "POSTGRES_HOST"}
    OBVIOUS
  <1>11. Built(a, A, {})
    BY <1>4, <1>9, BuiltFour DEF envFieldRef
  <1>12. Built(b, {"WORKFLOW_NAMESPACE"}, {})
    BY <1>5, BuiltOne, BuiltNone DEF envLiteral
  <1>13. Built(c, {"DEBUG_EVENTS"}, {})
    BY <1>6, BuiltOne, BuiltNone DEF envLiteral
  <1>14. Built(d, D, {})
    BY <1>7, <1>10, BuiltSix DEF envFromSecret, envLiteral
  <1>15. Built(f, D, {})
    BY <1>8, <1>14, BuiltNone
  <1>16. PICK ab : ab = a \o b
    OBVIOUS
  <1>17. PICK B : B = A \cup {"WORKFLOW_NAMESPACE"}
    OBVIOUS
  <1>18. Built(ab, B, {})
    BY <1>9, <1>11, <1>12, <1>16, <1>17, BuiltConcat
  <1>19. PICK abc : abc = ab \o c
    OBVIOUS
  <1>20. PICK C : C = B \cup {"DEBUG_EVENTS"}
    OBVIOUS
  <1>21. Built(abc, C, {})
    BY <1>9, <1>13, <1>17, <1>18, <1>19, <1>20, BuiltConcat
  <1>22. C \cap D = {}
    BY <1>9, <1>10, <1>17, <1>20
  <1>23. Built(abc \o f, C \cup D, {})
    BY <1>15, <1>21, <1>22, BuiltConcat
  <1>24. VectorEnvVars(plat) = abc \o f
    BY <1>1, <1>2, <1>3, <1>4, <1>5, <1>6, <1>7, <1>8, <1>16, <1>19 DEF VectorEnvVars
  <1> QED BY <1>23, <1>24 DEF Built

GatewayEnv == <<envFieldRef(<<"POD_NAMESPACE">>, "metadata.namespace")>>

LEMMA GatewayEnvDistinct == Distinct(GatewayEnv, {})
  BY BuiltOne DEF GatewayEnv, envFieldRef, Built

LEMMA UserNamesOf ==
  ASSUME NEW o, NEW q, Same(o, q), NEW app \in Apps(q), ApplicationSpec(app)
  PROVE  NamesOf(UserEnv(app)) \subseteq UserNames(o)
  <1>1. PICK a \in Apps(o) : SameApp(a, app)
    BY CopiedApps
  <1>2. PICK c : c = app.container
    OBVIOUS
  <1>3. PICK d : d = app.podTemplate.container
    OBVIOUS
  <1>4. c \in Containers(o) /\ d \in Containers(o)
    BY <1>1, <1>2, <1>3 DEF SameApp, Containers
  <1>5. List(c.env) /\ List(d.env)
    BY <1>2, <1>3 DEF ApplicationSpec, Container
  <1>6. DOMAIN c.env = 1..Len(c.env) /\ DOMAIN d.env = 1..Len(d.env)
    BY <1>5 DEF List
  <1>7. NamesOf(c.env) \subseteq UserNames(o) /\ NamesOf(d.env) \subseteq UserNames(o)
    BY <1>4, <1>6 DEF NamesOf, UserNames
  <1>8. NamesOf(UserEnv(app)) = NamesOf(c.env) \cup NamesOf(d.env)
    BY <1>2, <1>3, <1>5, NamesOfConcat DEF UserEnv
  <1> QED BY <1>7, <1>8

\* Neither a container nor, but for names of U, a variable twice.
Single(w, U) ==
    LET containers == w.template.containers
        env == w.template.main.env
    IN /\ \A i \in DOMAIN containers : containers[i] = containers[1] => i = 1
       /\ \A i, j \in DOMAIN env : i # j /\ env[i].name = env[j].name => env[i].name \in U

LEMMA SingleIf ==
  ASSUME NEW w, NEW U, Distinct(w.template.main.env, U), NEW names, List(names), NEW main,
         w.template.containers = <<main>> \o filterSidecars(names, main)
  PROVE  Single(w, U)
  <1>1. PICK s : s = w.template.containers
    OBVIOUS
  <1>2. \A i \in DOMAIN s : s[i] = s[1] => i = 1
    BY <1>1, MainOnce
  <1>3. PICK e : e = w.template.main.env
    OBVIOUS
  <1>4. DOMAIN e = 1..Len(e) /\ Distinct(e, U)
    BY <1>3 DEF Distinct, List
  <1> QED BY <1>1, <1>2, <1>3, <1>4 DEF Single, Distinct

LEMMA PlatformSingle ==
  ASSUME NEW w, NEW app, ApplicationSpec(app), NEW name, NEW labels, NEW mounts, NEW volumes, NEW account,
         NEW env, Distinct(env, {}), PlatformPods(w, app, name, labels, mounts, volumes, account, env)
  PROVE  Single(w, NamesOf(UserEnv(app)))
  <1>1. PICK U : U = NamesOf(UserEnv(app))
    OBVIOUS
  <1>2. PICK u : u = UserEnv(app)
    OBVIOUS
  <1>3. Distinct(u, U) /\ Distinct(env, U) /\ NamesOf(u) \cap NamesOf(env) \subseteq U
    BY <1>1, <1>2, UserEnvDistinct, DistinctMore
  <1>4. Distinct(u \o env, U)
    BY <1>3, DistinctConcat
  <1>5. w.template.main.env = u \o env
    BY <1>2 DEF PlatformPods
  <1>6. PICK main : w.template.containers = <<main>> \o filterSidecars(app.podTemplate.sidecars, main)
    BY DEF PlatformPods
  <1>7. List(app.podTemplate.sidecars)
    BY DEF ApplicationSpec
  <1> QED BY <1>1, <1>4, <1>5, <1>6, <1>7, SingleIf

\* What ListsHaveNoDuplicates says of one workload.
Unique(w) ==
    LET containers == w.template.containers
        env == w.template.main.env
    IN /\ \A i \in DOMAIN containers : containers[i] = containers[1] => i = 1
       /\ \A i, j \in DOMAIN env : i # j /\ env[i].name = env[j].name =>
            /\ env[i].name \in UserNames(obj) \cup SameKeyVariables(obj)
            /\ obj.kind = "LogicFlowRuntime" =>
                 /\ env[i].name # SourcePath
                 /\ obj.persistence # Nil => env[i].name \notin Immutable

\* Names that may be there twice.
Excused(U) ==
    /\ U \subseteq UserNames(obj) \cup SameKeyVariables(obj)
    /\ obj.kind = "LogicFlowRuntime" => SourcePath \notin U /\ (obj.persistence # Nil => U \cap Immutable = {})

LEMMA UniqueIf ==
  ASSUME NEW w, NEW U, Single(w, U), Excused(U)
  PROVE  Unique(w)
  <1>1. PICK e : e = w.template.main.env
    OBVIOUS
  <1>2. PICK s : s = w.template.containers
    OBVIOUS
  <1>3. /\ \A i \in DOMAIN s : s[i] = s[1] => i = 1
        /\ \A i, j \in DOMAIN e : i # j /\ e[i].name = e[j].name => e[i].name \in U
    BY <1>1, <1>2 DEF Single
  <1>4. ASSUME NEW n \in U
        PROVE  /\ n \in UserNames(obj) \cup SameKeyVariables(obj)
               /\ obj.kind = "LogicFlowRuntime" => n # SourcePath /\ (obj.persistence # Nil => n \notin Immutable)
    BY DEF Excused
  <1> QED BY <1>1, <1>2, <1>3, <1>4 DEF Unique

LEMMA InvNoDuplicates ==
  ASSUME ManifestInv
  PROVE  ListsHaveNoDuplicates
  <1> SUFFICES ASSUME Applied, NEW w \in out.workloads
               PROVE  \E U : Single(w, U) /\ Excused(U)
    <2>1. ListsHaveNoDuplicates <=> (Applied => \A w \in out.workloads : Unique(w))
      BY DEF ListsHaveNoDuplicates, Unique
    <2>2. \A w, U : Single(w, U) /\ Excused(U) => Unique(w)
      BY UniqueIf
    <2> QED BY <2>1, <2>2
  <1>1. PICK q : AppliedFrom(q)
    BY AppliedCopy
  <1>2. Object(q) /\ Same(obj, q) /\ q.kind = obj.kind /\ w \in Render(q, release, openShift).workloads
    BY <1>1 DEF AppliedFrom, Same
  <1>3. CASE obj.kind = "LogicFlowRuntime"
    <2>1. LogicFlowRuntime(q) /\ q.kind = "LogicFlowRuntime" /\ SameRuntime(obj, q)
      BY <1>2, <1>3 DEF Object, Same
    <2>2. RunnerPods(q, release, w)
      BY <1>2, <2>1, RunnerApplied
    <2>3. ApplicationSpec(q.app) /\ List(q.app.podTemplate.sidecars)
      BY <2>1 DEF LogicFlowRuntime, ApplicationSpec
    <2>4. PICK U : U = FreeNames(q)
      OBVIOUS
    <2>5. Single(w, U)
      BY <2>2, <2>3, <2>4, SingleIf DEF RunnerPods
    <2>6. NamesOf(UserEnv(q.app)) \subseteq UserNames(obj)
      <3>1. q.app \in Apps(q)
        BY <2>1 DEF Apps
      <3> QED BY <1>2, <2>3, <3>1, UserNamesOf
    <2>7. KeyNames(SameNames(q.security.apiKeys)) = SameKeyVariables(obj)
      <3>1. q.security = obj.security
        BY <2>1 DEF SameRuntime
      <3> QED BY <1>3, <3>1 DEF SameKeyVariables, KeyNames, SameNames
    <2>8. q.persistence = obj.persistence
      BY <2>1 DEF SameRuntime
    <2>9. Excused(U)
      BY <2>4, <2>6, <2>7, <2>8 DEF FreeNames, Excused
    <2> QED BY <2>5, <2>9
  <1>4. CASE obj.kind = "LogicPlatform"
    <2>1. LogicPlatform(q) /\ q.kind = "LogicPlatform"
      BY <1>2, <1>4 DEF Object
    <2>2. ASSUME NEW app \in Apps(q), ApplicationSpec(app), Single(w, NamesOf(UserEnv(app)))
          PROVE  \E U : Single(w, U) /\ Excused(U)
      <3>1. PICK U : U = NamesOf(UserEnv(app))
        OBVIOUS
      <3>2. U \subseteq UserNames(obj)
        BY <1>2, <2>2, <3>1, UserNamesOf
      <3>3. Excused(U)
        BY <1>4, <3>2 DEF Excused
      <3> QED BY <2>2, <3>1, <3>3
    <2>3. CASE w = DataIndexDeployment(q)
      <3>1. PICK app : app = q.dataIndex.app
        OBVIOUS
      <3>2. app \in Apps(q) /\ ApplicationSpec(app)
        BY <2>1, <3>1 DEF Apps, LogicPlatform
      <3>3. PlatformPods(w, app, dataIndexName(q), ChildLabelsInstance(q, dataIndexName(q)), <<>>, <<>>, UserAccount(app),
                         DataIndexEnv(q))
        BY <2>1, <2>3, <3>1, DataIndexBuilt
      <3>4. Distinct(DataIndexEnv(q), {})
        BY DataIndexEnvDistinct
      <3>5. Single(w, NamesOf(UserEnv(app)))
        BY <3>2, <3>3, <3>4, PlatformSingle
      <3> QED BY <1>4, <2>2, <3>2, <3>5
    <2>4. CASE HasVector(q) /\ w = VectorDaemonSet(q)
      <3>1. PICK app : app = q.dataIndex.vector.app
        OBVIOUS
      <3>2. app \in Apps(q) /\ ApplicationSpec(app) /\ q.dataIndex.vector # Nil
        BY <2>1, <2>4, <3>1 DEF Apps, LogicPlatform, HasVector
      <3>3. PICK name : name = vectorName(q)
        OBVIOUS
      <3>4. PlatformPods(w, app, name, MergeMaps(ChildLabelsInstance(q, name), SelectorLabels(name)), VectorMounts,
                         VectorVolumes(q), name, VectorEnvVars(q))
        BY <2>1, <2>4, <3>1, <3>2, <3>3, VectorBuilt
      <3>5. Distinct(VectorEnvVars(q), {})
        BY VectorEnvDistinct
      <3>6. Single(w, NamesOf(UserEnv(app)))
        BY <3>2, <3>4, <3>5, PlatformSingle
      <3> QED BY <1>4, <2>2, <3>2, <3>6
    <2>5. CASE q.gateway # Nil /\ w = GatewayDeployment(q)
      <3>1. PICK app : app = q.gateway.app
        OBVIOUS
      <3>2. app \in Apps(q) /\ ApplicationSpec(app)
        BY <2>1, <2>5, <3>1 DEF Apps, LogicPlatform
      <3>3. PICK name : name = gatewayName(q)
        OBVIOUS
      <3>4. PlatformPods(w, app, name, ChildLabelsInstance(q, name), <<>>, <<>>, name, GatewayEnv)
        BY <2>1, <2>5, <3>1, <3>3, GatewayBuilt DEF GatewayEnv
      <3>5. Distinct(GatewayEnv, {})
        BY GatewayEnvDistinct
      <3>6. Single(w, NamesOf(UserEnv(app)))
        BY <3>2, <3>4, <3>5, PlatformSingle
      <3> QED BY <1>4, <2>2, <3>2, <3>6
    <2> QED BY <1>2, <2>1, <2>3, <2>4, <2>5, PlatformWorkloads
  <1>5. CASE obj.kind = "LogicFlowService"
    BY <1>2, <1>5, ServiceRendered
  <1> QED BY <1>3, <1>4, <1>5 DEF ManifestInv, Object

\* The main container is listed once, and so is each of its variables but what the user
\* wrote twice or gave two API keys the name of; what the operator keeps is there once.
THEOREM NoDuplicates == Spec => []ListsHaveNoDuplicates
  <1>1. ManifestInv => ListsHaveNoDuplicates
    BY InvNoDuplicates
  <1> QED BY <1>1, ManifestInvariant, PTL

-----------------------------------------------------------------------------
(* Volumes, accounts and configuration                                     *)

LEMMA UserOwns ==
  ASSUME NEW o, NEW a \in Apps(o)
  PROVE  /\ Elements(a.container.mounts) \subseteq UserMounts(o)
         /\ Elements(a.podTemplate.container.mounts) \subseteq UserMounts(o)
         /\ Elements(a.podTemplate.volumes) \subseteq UserVolumes(o)
  <1>1. a.container \in Containers(o) /\ a.podTemplate.container \in Containers(o)
    BY DEF Containers
  <1> QED BY <1>1 DEF UserMounts, UserVolumes

\* What pods mount and have is the user's, or one of these.
Uses(w, o, mounts, volumes) ==
    /\ \A m \in Elements(w.template.main.mounts) : m \in UserMounts(o) \/ m \in Elements(mounts)
    /\ \A v \in Elements(w.template.volumes) : v \in UserVolumes(o) \/ v \in Elements(volumes)
    /\ Elements(volumes) \subseteq Elements(w.template.volumes)

LEMMA UsesWhat ==
  ASSUME NEW o, NEW app \in Apps(o), ApplicationSpec(app), NEW mounts, List(mounts), NEW volumes, List(volumes), NEW w,
         w.template.main.mounts = (app.container.mounts \o app.podTemplate.container.mounts) \o mounts,
         w.template.volumes = app.podTemplate.volumes \o volumes
  PROVE  Uses(w, o, mounts, volumes)
  <1>1. PICK a : a = app.container.mounts
    OBVIOUS
  <1>2. PICK b : b = app.podTemplate.container.mounts
    OBVIOUS
  <1>3. PICK c : c = app.podTemplate.volumes
    OBVIOUS
  <1>4. PICK ab : ab = a \o b
    OBVIOUS
  <1>5. List(a) /\ List(b) /\ List(c)
    BY <1>1, <1>2, <1>3 DEF ApplicationSpec, Container
  <1>6. List(ab) /\ Elements(ab) = Elements(a) \cup Elements(b)
    BY <1>4, <1>5, ElementsOfConcat
  <1>7. PICK m : m = ab \o mounts
    OBVIOUS
  <1>8. Elements(m) = Elements(ab) \cup Elements(mounts)
    BY <1>6, <1>7, ElementsOfConcat
  <1>9. PICK v : v = c \o volumes
    OBVIOUS
  <1>10. Elements(v) = Elements(c) \cup Elements(volumes)
    BY <1>5, <1>9, ElementsOfConcat
  <1>11. w.template.main.mounts = m /\ w.template.volumes = v
    BY <1>1, <1>2, <1>3, <1>4, <1>7, <1>9
  <1>12. Elements(a) \subseteq UserMounts(o) /\ Elements(b) \subseteq UserMounts(o) /\ Elements(c) \subseteq UserVolumes(o)
    BY <1>1, <1>2, <1>3, UserOwns
  <1> QED BY <1>6, <1>8, <1>10, <1>11, <1>12 DEF Uses

Resolves(w) ==
    LET volumes == Elements(w.template.volumes)
    IN /\ \A m \in Elements(w.template.main.mounts) :
            m \in UserMounts(obj) \/ \E v \in volumes : v.name = m
       /\ \A v \in volumes : v \in UserVolumes(obj) \/ v.configMap \in out.configMaps \cup {Nil}
       /\ \/ w.template.account \in out.accounts \cup {Nil}
          \/ w.template.account \in {<<a.podTemplate.account>> : a \in Apps(obj)}

LEMMA UsesResolved ==
  ASSUME NEW w, NEW mounts, NEW volumes, Uses(w, obj, mounts, volumes),
         \A m \in Elements(mounts) : \E v \in Elements(volumes) : v.name = m,
         \A v \in Elements(volumes) : v.configMap \in out.configMaps \cup {Nil},
         \/ w.template.account \in out.accounts \cup {Nil}
         \/ w.template.account \in {<<a.podTemplate.account>> : a \in Apps(obj)}
  PROVE  Resolves(w)
  BY DEF Uses, Resolves

LEMMA AccountOfUser ==
  ASSUME NEW o, NEW app \in Apps(o)
  PROVE  UserAccount(app) \in {Nil} \cup {<<a.podTemplate.account>> : a \in Apps(o)}
  BY DEF UserAccount

LEMMA EmptyList == List(<<>>) /\ Elements(<<>>) = {}
  BY DEF List, Elements

LEMMA FlowsMounted ==
  ASSUME NEW flows, List(flows)
  PROVE  /\ List(FlowVolumes(flows))
         /\ \A m \in Elements(flows) : \E v \in Elements(FlowVolumes(flows)) : v.name = m
         /\ \A v \in Elements(FlowVolumes(flows)) : v.configMap \in {<<flows[i]>> : i \in DOMAIN flows}
  <1>1. PICK fv : fv = FlowVolumes(flows)
    OBVIOUS
  <1>2. /\ DOMAIN fv = DOMAIN flows
        /\ \A i \in DOMAIN flows : fv[i].name = flows[i] /\ fv[i].configMap = <<flows[i]>>
    BY <1>1 DEF FlowVolumes
  <1>3. PICK n \in Nat : DOMAIN flows = 1..n
    BY DEF List
  <1>4. fv \in [1..n -> Elements(fv)]
    BY <1>1, <1>2, <1>3 DEF FlowVolumes, Elements
  <1>5. fv \in Seq(Elements(fv))
    BY <1>3, <1>4
  <1> QED BY <1>1, <1>2, <1>5 DEF List, Elements

LEMMA VectorMounted ==
  ASSUME NEW o, HasPersistence(o.dataIndex.persistence)
  PROVE  /\ List(VectorMounts) /\ List(VectorVolumes(o))
         /\ \A m \in Elements(VectorMounts) : \E v \in Elements(VectorVolumes(o)) : v.name = m
         /\ \A v \in Elements(VectorVolumes(o)) : v.configMap \in {Nil, vectorName(o)}
  <1>1. PICK a, b, c, d : /\ a = [name |-> "data", configMap |-> Nil]
                          /\ b = [name |-> "var-log", configMap |-> Nil]
                          /\ c = [name |-> "var-lib-docker-containers", configMap |-> Nil]
                          /\ d = [name |-> "config", configMap |-> vectorName(o)]
    OBVIOUS
  <1>2. /\ List(<<a, b, c>>) /\ Elements(<<a, b, c>>) = {a, b, c}
        /\ List(<<d>>) /\ Elements(<<d>>) = {d}
    BY DEF List, Elements
  <1>3. VectorVolumes(o) = <<a, b, c>> \o <<d>>
    BY <1>1 DEF VectorVolumes
  <1>4. List(VectorVolumes(o)) /\ Elements(VectorVolumes(o)) = {a, b, c, d}
    BY <1>2, <1>3, ElementsOfConcat
  <1>5. List(VectorMounts) /\ Elements(VectorMounts) = {"config", "data", "var-log", "var-lib-docker-containers"}
    BY DEF VectorMounts, List, Elements
  <1> QED BY <1>1, <1>4, <1>5

LEMMA InvReferences ==
  ASSUME ManifestInv
  PROVE  ReferencesResolve
  <1> SUFFICES ASSUME Accepted, obj.kind = "LogicPlatform" => obj.dataIndex.enabled, NEW w \in out.workloads
               PROVE  Resolves(w)
    BY DEF ReferencesResolve, Resolves
  <1>1. AppliedFrom(obj) /\ Valid(obj)
    BY AppliedCopy DEF Accepted, AppliedFrom
  <1>2. out = Render(obj, release, openShift) /\ w \in Render(obj, release, openShift).workloads
    BY <1>1 DEF AppliedFrom
  <1>3. CASE obj.kind = "LogicFlowRuntime"
    <2>1. LogicFlowRuntime(obj) /\ ApplicationSpec(obj.app) /\ List(obj.flows) /\ obj.app \in Apps(obj)
      BY <1>1, <1>3 DEF AppliedFrom, Object, LogicFlowRuntime, Apps
    <2>2. RunnerPods(obj, release, w)
      BY <1>2, <1>3, <2>1, RunnerApplied
    <2>3. PICK volumes : volumes = FlowVolumes(obj.flows)
      OBVIOUS
    <2>4. /\ List(volumes) /\ \A m \in Elements(obj.flows) : \E v \in Elements(volumes) : v.name = m
          /\ \A v \in Elements(volumes) : v.configMap \in {<<obj.flows[i]>> : i \in DOMAIN obj.flows}
      BY <2>1, <2>3, FlowsMounted
    <2>5. Uses(w, obj, obj.flows, volumes)
      BY <2>1, <2>2, <2>3, <2>4, UsesWhat DEF RunnerPods
    <2>6. out.configMaps = {<<obj.flows[i]>> : i \in DOMAIN obj.flows}
      BY <1>2, <1>3, RuntimeRendered
    <2>7. out.accounts = IF obj.persistence # Nil THEN {<<obj.name>>} ELSE {}
      BY <1>2, <1>3, RuntimeRendered
    <2>8. w.template.account = IF obj.persistence # Nil THEN <<obj.name>> ELSE UserAccount(obj.app)
      BY <2>2 DEF RunnerPods, UserAccount
    <2>9. \/ w.template.account \in out.accounts \cup {Nil}
          \/ w.template.account \in {<<a.podTemplate.account>> : a \in Apps(obj)}
      BY <2>1, <2>7, <2>8, AccountOfUser
    <2> QED BY <2>4, <2>5, <2>6, <2>9, UsesResolved
  <1>4. CASE obj.kind = "LogicPlatform"
    <2>1. /\ LogicPlatform(obj) /\ HasPersistence(obj.dataIndex.persistence)
      BY <1>1, <1>4 DEF AppliedFrom, Object, Valid, ValidatePlatform, ValidatePersistence
    <2>2. CASE w = DataIndexDeployment(obj)
      <3>1. PICK app : app = obj.dataIndex.app
        OBVIOUS
      <3>2. app \in Apps(obj) /\ ApplicationSpec(app)
        BY <1>4, <2>1, <3>1 DEF Apps, LogicPlatform
      <3>3. /\ w.template.main.mounts = (app.container.mounts \o app.podTemplate.container.mounts) \o <<>>
            /\ w.template.volumes = app.podTemplate.volumes \o <<>> /\ w.template.account = UserAccount(app)
        BY <2>1, <2>2, <3>1, DataIndexBuilt DEF PlatformPods
      <3>4. Uses(w, obj, <<>>, <<>>)
        BY <3>2, <3>3, EmptyList, UsesWhat
      <3>5. \/ w.template.account \in out.accounts \cup {Nil}
            \/ w.template.account \in {<<a.podTemplate.account>> : a \in Apps(obj)}
        BY <3>2, <3>3, AccountOfUser
      <3> QED BY <3>4, <3>5, EmptyList, UsesResolved
    <2>3. CASE /\ HasVector(obj) /\ w = VectorDaemonSet(obj)
               /\ vectorName(obj) \in out.accounts /\ vectorName(obj) \in out.configMaps
      <3>1. PICK app : app = obj.dataIndex.vector.app
        OBVIOUS
      <3>2. app \in Apps(obj) /\ ApplicationSpec(app)
        BY <1>4, <2>1, <2>3, <3>1 DEF Apps, LogicPlatform, HasVector
      <3>3. PICK volumes : volumes = VectorVolumes(obj)
        OBVIOUS
      <3>4. /\ w.template.main.mounts = (app.container.mounts \o app.podTemplate.container.mounts) \o VectorMounts
            /\ w.template.volumes = app.podTemplate.volumes \o volumes /\ w.template.account = vectorName(obj)
        BY <2>1, <2>3, <3>1, <3>3, VectorBuilt DEF PlatformPods, HasVector
      <3>5. /\ List(VectorMounts) /\ List(volumes)
            /\ \A m \in Elements(VectorMounts) : \E v \in Elements(volumes) : v.name = m
            /\ \A v \in Elements(volumes) : v.configMap \in {Nil, vectorName(obj)}
        BY <2>1, <3>3, VectorMounted
      <3>6. Uses(w, obj, VectorMounts, volumes)
        BY <3>2, <3>4, <3>5, UsesWhat
      <3>7. \A v \in Elements(volumes) : v.configMap \in out.configMaps \cup {Nil}
        BY <2>3, <3>5
      <3>8. w.template.account \in out.accounts \cup {Nil}
        BY <2>3, <3>4
      <3> QED BY <3>5, <3>6, <3>7, <3>8, UsesResolved
    <2>4. CASE obj.gateway # Nil /\ w = GatewayDeployment(obj) /\ gatewayName(obj) \in out.accounts
      <3>1. PICK app : app = obj.gateway.app
        OBVIOUS
      <3>2. app \in Apps(obj) /\ ApplicationSpec(app)
        BY <1>4, <2>1, <2>4, <3>1 DEF Apps, LogicPlatform
      <3>3. /\ w.template.main.mounts = (app.container.mounts \o app.podTemplate.container.mounts) \o <<>>
            /\ w.template.volumes = app.podTemplate.volumes \o <<>> /\ w.template.account = gatewayName(obj)
        BY <2>1, <2>4, <3>1, GatewayBuilt DEF PlatformPods
      <3>4. Uses(w, obj, <<>>, <<>>)
        BY <3>2, <3>3, EmptyList, UsesWhat
      <3>5. w.template.account \in out.accounts \cup {Nil}
        BY <2>4, <3>3
      <3> QED BY <3>4, <3>5, EmptyList, UsesResolved
    <2> QED BY <1>2, <1>4, <2>2, <2>3, <2>4, PlatformWorkloads
  <1>5. CASE obj.kind = "LogicFlowService"
    BY <1>2, <1>5, ServiceRendered
  <1> QED BY <1>3, <1>4, <1>5 DEF ManifestInv, Object

\* What the operator mounts, runs as and reads is applied with the pods that need it.
THEOREM ReferencesAreThere == Spec => []ReferencesResolve
  <1>1. ManifestInv => ReferencesResolve
    BY InvReferences
  <1> QED BY <1>1, ManifestInvariant, PTL

-----------------------------------------------------------------------------
(* Both of the platform's components use one database                      *)

\* In a list of variables, n is there and all of that name have the value x.
Has(env, n, x) ==
    /\ \E e \in Elements(env) : e.name = n
    /\ \A e \in Elements(env) : e.name = n => e.value = x

LEMMA ValueFound ==
  ASSUME NEW w, NEW n, NEW x, Has(w.template.main.env, n, x)
  PROVE  ValueOf(w, n) = x
  <1>1. PICK env : env = w.template.main.env
    OBVIOUS
  <1>2. (\E i \in DOMAIN env : env[i].name = n) /\ \A i \in DOMAIN env : env[i].name = n => env[i].value = x
    BY <1>1 DEF Has, Elements
  <1>3. PICK i : i = CHOOSE j \in DOMAIN env : env[j].name = n
    OBVIOUS
  <1>4. i \in DOMAIN env /\ env[i].name = n
    BY <1>2, <1>3
  <1>5. env[i].value = x
    BY <1>2, <1>4
  <1> QED BY <1>1, <1>3, <1>5 DEF ValueOf

\* Lists with these elements, and with no variable of a set of names.
Free(env, names) == List(env) /\ \A e \in Elements(env) : e.name \notin names

LEMMA HasAfter ==
  ASSUME NEW names, NEW s, Free(s, names), NEW t, List(t), NEW n \in names, NEW x, Has(t, n, x)
  PROVE  Has(s \o t, n, x)
  <1>1. PICK st : st = s \o t
    OBVIOUS
  <1>2. Elements(st) = Elements(s) \cup Elements(t)
    BY <1>1, ElementsOfConcat DEF Free
  <1>3. Has(st, n, x)
    BY <1>2 DEF Has, Free
  <1> QED BY <1>1, <1>3

LEMMA HasBefore ==
  ASSUME NEW names, NEW s, List(s), NEW t, Free(t, names), NEW n \in names, NEW x, Has(s, n, x)
  PROVE  Has(s \o t, n, x)
  <1>1. PICK st : st = s \o t
    OBVIOUS
  <1>2. Elements(st) = Elements(s) \cup Elements(t)
    BY <1>1, ElementsOfConcat DEF Free
  <1>3. Has(st, n, x)
    BY <1>2 DEF Has, Free
  <1> QED BY <1>1, <1>3

LEMMA FreeConcat ==
  ASSUME NEW names, NEW s, Free(s, names), NEW t, Free(t, names)
  PROVE  Free(s \o t, names)
  <1>1. PICK st : st = s \o t
    OBVIOUS
  <1>2. List(st) /\ Elements(st) = Elements(s) \cup Elements(t)
    BY <1>1, ElementsOfConcat DEF Free
  <1> QED BY <1>1, <1>2 DEF Free

DatabaseNames == {<<"QUARKUS_DATASOURCE_USERNAME">>, <<"QUARKUS_DATASOURCE_PASSWORD">>, <<"QUARKUS_DATASOURCE_JDBC_URL">>}
Url(pg) == WithSSLMode(buildJdbcURL(pg), pg.tls)

LEMMA QuarkusDatabase ==
  ASSUME NEW p, HasPersistence(p), NEW pg, pg = p.postgresql, NEW rest, Free(rest, DatabaseNames)
  PROVE  LET env == persistenceQuarkusEnvVars(p) \o rest
         IN /\ Has(env, <<"QUARKUS_DATASOURCE_USERNAME">>, <<pg.secret, userKey(pg)>>)
            /\ Has(env, <<"QUARKUS_DATASOURCE_PASSWORD">>, <<pg.secret, passwordKey(pg)>>)
            /\ Has(env, <<"QUARKUS_DATASOURCE_JDBC_URL">>, Url(pg))
            /\ List(env)
  <1>1. PICK a, b, c : /\ a = envFromSecret(<<"QUARKUS_DATASOURCE_USERNAME">>, pg.secret, userKey(pg))
                       /\ b = envFromSecret(<<"QUARKUS_DATASOURCE_PASSWORD">>, pg.secret, passwordKey(pg))
                       /\ c = envLiteral(<<"QUARKUS_DATASOURCE_JDBC_URL">>, Url(pg))
    OBVIOUS
  <1>2. PICK s : s = IF pg.schema = Nil THEN <<>>
                     ELSE <<envLiteral(<<"QUARKUS_HIBERNATE_ORM_DATABASE_DEFAULT_SCHEMA">>, pg.schema)>>
    OBVIOUS
  <1>3. persistenceQuarkusEnvVars(p) = <<a, b, c>> \o s
    BY <1>1, <1>2 DEF persistenceQuarkusEnvVars, Url
  <1>4. Free(s, DatabaseNames)
    <2>1. CASE pg.schema = Nil
      BY <1>2, <2>1, EmptyList DEF Free
    <2>2. CASE pg.schema # Nil
      <3>1. PICK e : e = envLiteral(<<"QUARKUS_HIBERNATE_ORM_DATABASE_DEFAULT_SCHEMA">>, pg.schema)
        OBVIOUS
      <3>2. s = <<e>> /\ e.name \notin DatabaseNames
        BY <1>2, <2>2, <3>1 DEF envLiteral, DatabaseNames
      <3>3. List(s) /\ Elements(s) = {e}
        BY <3>2 DEF List, Elements
      <3> QED BY <3>2, <3>3 DEF Free
    <2> QED BY <2>1, <2>2
  <1>5. PICK abc : abc = <<a, b, c>>
    OBVIOUS
  <1>6. List(abc) /\ Elements(abc) = {a, b, c}
    BY <1>5 DEF List, Elements
  <1>7. /\ Has(abc, <<"QUARKUS_DATASOURCE_USERNAME">>, <<pg.secret, userKey(pg)>>)
        /\ Has(abc, <<"QUARKUS_DATASOURCE_PASSWORD">>, <<pg.secret, passwordKey(pg)>>)
        /\ Has(abc, <<"QUARKUS_DATASOURCE_JDBC_URL">>, Url(pg))
    <2>1. /\ a.name = <<"QUARKUS_DATASOURCE_USERNAME">> /\ a.value = <<pg.secret, userKey(pg)>>
          /\ b.name = <<"QUARKUS_DATASOURCE_PASSWORD">> /\ b.value = <<pg.secret, passwordKey(pg)>>
          /\ c.name = <<"QUARKUS_DATASOURCE_JDBC_URL">> /\ c.value = Url(pg)
      BY <1>1 DEF envFromSecret, envLiteral
    <2> QED BY <1>6, <2>1 DEF Has
  <1>8. PICK abcs : abcs = abc \o s
    OBVIOUS
  <1>9. List(abcs) /\ \A x : \A n \in DatabaseNames : Has(abc, n, x) => Has(abcs, n, x)
    BY <1>4, <1>6, <1>8, HasBefore, ElementsOfConcat DEF Free
  <1>10. \A x : \A n \in DatabaseNames : Has(abcs, n, x) => Has(abcs \o rest, n, x)
    BY <1>9, HasBefore
  <1>11. List(abcs \o rest)
    BY <1>9, ElementsOfConcat DEF Free
  <1> QED BY <1>3, <1>5, <1>7, <1>8, <1>9, <1>10, <1>11 DEF DatabaseNames

LEMMA DataIndexDatabase ==
  ASSUME NEW o, HasPersistence(o.dataIndex.persistence), NEW pg, pg = o.dataIndex.persistence.postgresql
  PROVE  /\ Has(DataIndexEnv(o), <<"QUARKUS_DATASOURCE_USERNAME">>, <<pg.secret, userKey(pg)>>)
         /\ Has(DataIndexEnv(o), <<"QUARKUS_DATASOURCE_PASSWORD">>, <<pg.secret, passwordKey(pg)>>)
         /\ Has(DataIndexEnv(o), <<"QUARKUS_DATASOURCE_JDBC_URL">>, Url(pg))
         /\ List(DataIndexEnv(o))
  <1>1. PICK a, b, c, d : /\ a = envLiteral(<<"QUARKUS_FLYWAY_MIGRATE_AT_START">>, "true")
                          /\ b = envLiteral(<<"QUARKUS_FLYWAY_BASELINE_ON_MIGRATE">>, "true")
                          /\ c = envLiteral(<<"QUARKUS_FLYWAY_BASELINE_VERSION">>, "0")
                          /\ d = envLiteral(<<"QUARKUS_SMALLRYE_GRAPHQL_UI_ENABLE">>, "true")
    OBVIOUS
  <1>2. PICK rest : rest = <<a, b, c, d>>
    OBVIOUS
  <1>3. List(rest) /\ Elements(rest) = {a, b, c, d}
    BY <1>2 DEF List, Elements
  <1>4. \A e \in {a, b, c, d} : e.name \notin DatabaseNames
    BY <1>1 DEF envLiteral, DatabaseNames
  <1>5. Free(rest, DatabaseNames)
    BY <1>3, <1>4 DEF Free
  <1>6. DataIndexEnv(o) = persistenceQuarkusEnvVars(o.dataIndex.persistence) \o rest
    BY <1>1, <1>2 DEF DataIndexEnv
  <1> QED BY <1>5, <1>6, QuarkusDatabase

VectorNames == {<<"POSTGRES_USER">>, <<"POSTGRES_PASSWORD">>, <<"POSTGRES_PORT">>, <<"POSTGRES_DB">>, <<"POSTGRES_HOST">>}

LEMMA VectorDatabase ==
  ASSUME NEW o, HasPersistence(o.dataIndex.persistence), NEW pg, pg = o.dataIndex.persistence.postgresql
  PROVE  /\ Has(VectorEnvVars(o), <<"POSTGRES_USER">>, <<pg.secret, userKey(pg)>>)
         /\ Has(VectorEnvVars(o), <<"POSTGRES_PASSWORD">>, <<pg.secret, passwordKey(pg)>>)
         /\ Has(VectorEnvVars(o), <<"POSTGRES_PORT">>, Or(pg.port, DefaultPort))
         /\ Has(VectorEnvVars(o), <<"POSTGRES_DB">>, pg.database)
         /\ Has(VectorEnvVars(o), <<"POSTGRES_HOST">>, VectorAddress(o, pg))
         /\ List(VectorEnvVars(o))
  <1>1. PICK a, b, c, d : /\ a = envFieldRef(<<"VECTOR_SELF_NODE_NAME">>, "spec.nodeName")
                          /\ b = envFieldRef(<<"VECTOR_SELF_POD_NAME">>, "metadata.name")
                          /\ c = envFieldRef(<<"VECTOR_SELF_POD_NAMESPACE">>, "metadata.namespace")
                          /\ d = envFieldRef(<<"NODE_NAME">>, "spec.nodeName")
    OBVIOUS
  <1>2. PICK v : v = o.dataIndex.vector
    OBVIOUS
  <1>3. PICK e, f : /\ e = envLiteral(<<"WORKFLOW_NAMESPACE">>, Head(v.watchNamespaces))
                    /\ f = envLiteral(<<"DEBUG_EVENTS">>, "true")
    OBVIOUS
  <1>4. PICK g, h, i, j, k, l : /\ g = envFromSecret(<<"POSTGRES_USER">>, pg.secret, userKey(pg))
                                /\ h = envFromSecret(<<"POSTGRES_PASSWORD">>, pg.secret, passwordKey(pg))
                                /\ i = envLiteral(<<"POSTGRES_PORT">>, Or(pg.port, DefaultPort))
                                /\ j = envLiteral(<<"POSTGRES_DB">>, pg.database)
                                /\ k = envLiteral(<<"POSTGRES_SCHEMA">>, pg.schema)
                                /\ l = envLiteral(<<"POSTGRES_HOST">>, VectorAddress(o, pg))
    OBVIOUS
  <1>5. PICK s1 : s1 = <<a, b, c, d>>
    OBVIOUS
  <1>6. PICK s2 : s2 = IF v.watchNamespaces \in {Nil, <<>>} THEN <<>> ELSE <<e>>
    OBVIOUS
  <1>7. PICK s3 : s3 = IF v.debugEvents THEN <<f>> ELSE <<>>
    OBVIOUS
  <1>8. PICK s4 : s4 = <<g, h, i, j, k, l>>
    OBVIOUS
  <1>9. VectorEnvVars(o) = s1 \o s2 \o s3 \o s4
    BY <1>1, <1>2, <1>3, <1>4, <1>5, <1>6, <1>7, <1>8 DEF VectorEnvVars
  <1>10. Free(s1, VectorNames)
    <2>1. List(s1) /\ Elements(s1) = {a, b, c, d}
      BY <1>5 DEF List, Elements
    <2>2. \A x \in {a, b, c, d} : x.name \notin VectorNames
      BY <1>1 DEF envFieldRef, VectorNames
    <2> QED BY <2>1, <2>2 DEF Free
  <1>11. Free(s2, VectorNames) /\ Free(s3, VectorNames)
    <2>1. e.name \notin VectorNames /\ f.name \notin VectorNames
      BY <1>3 DEF envLiteral, VectorNames
    <2>2. \A x : List(<<x>>) /\ Elements(<<x>>) = {x}
      BY DEF List, Elements
    <2>3. Free(<<e>>, VectorNames) /\ Free(<<f>>, VectorNames) /\ Free(<<>>, VectorNames)
      BY <2>1, <2>2, EmptyList DEF Free
    <2> QED BY <1>6, <1>7, <2>3
  <1>12. PICK s12 : s12 = s1 \o s2
    OBVIOUS
  <1>13. PICK s123 : s123 = s12 \o s3
    OBVIOUS
  <1>14. Free(s123, VectorNames)
    BY <1>10, <1>11, <1>12, <1>13, FreeConcat
  <1>15. List(s4) /\ Elements(s4) = {g, h, i, j, k, l}
    BY <1>8 DEF List, Elements
  <1>16. /\ Has(s4, <<"POSTGRES_USER">>, <<pg.secret, userKey(pg)>>)
         /\ Has(s4, <<"POSTGRES_PASSWORD">>, <<pg.secret, passwordKey(pg)>>)
         /\ Has(s4, <<"POSTGRES_PORT">>, Or(pg.port, DefaultPort))
         /\ Has(s4, <<"POSTGRES_DB">>, pg.database)
         /\ Has(s4, <<"POSTGRES_HOST">>, VectorAddress(o, pg))
    <2>1. /\ g.name = <<"POSTGRES_USER">> /\ g.value = <<pg.secret, userKey(pg)>>
          /\ h.name = <<"POSTGRES_PASSWORD">> /\ h.value = <<pg.secret, passwordKey(pg)>>
          /\ i.name = <<"POSTGRES_PORT">> /\ i.value = Or(pg.port, DefaultPort)
          /\ j.name = <<"POSTGRES_DB">> /\ j.value = pg.database
          /\ k.name = <<"POSTGRES_SCHEMA">>
          /\ l.name = <<"POSTGRES_HOST">> /\ l.value = VectorAddress(o, pg)
      BY <1>4 DEF envFromSecret, envLiteral
    <2> QED BY <1>15, <2>1 DEF Has
  <1>17. \A x : \A n \in VectorNames : Has(s4, n, x) => Has(s123 \o s4, n, x)
    BY <1>14, <1>15, HasAfter
  <1>18. VectorEnvVars(o) = s123 \o s4
    BY <1>9, <1>12, <1>13
  <1>19. List(s123 \o s4)
    BY <1>14, <1>15, ElementsOfConcat DEF Free
  <1> QED BY <1>16, <1>17, <1>18, <1>19 DEF VectorNames

LEMMA NoUserVariables ==
  ASSUME NEW o, UserNames(o) = {}, NEW a \in Apps(o), ApplicationSpec(a), NEW env, List(env)
  PROVE  UserEnv(a) \o env = env
  <1>1. PICK x : x = a.container.env
    OBVIOUS
  <1>2. PICK y : y = a.podTemplate.container.env
    OBVIOUS
  <1>3. List(x) /\ List(y)
    BY <1>1, <1>2 DEF ApplicationSpec, Container
  <1>4. ASSUME NEW c \in Containers(o) PROVE DOMAIN c.env = {}
    <2>1. ASSUME NEW i \in DOMAIN c.env PROVE FALSE
      <3>1. PICK names : names = {c.env[j].name : j \in DOMAIN c.env}
        OBVIOUS
      <3>2. c.env[i].name \in names /\ names \in {{d.env[j].name : j \in DOMAIN d.env} : d \in Containers(o)}
        BY <3>1
      <3>3. c.env[i].name \in UserNames(o)
        BY <3>2 DEF UserNames
      <3> QED BY <3>3
    <2> QED BY <2>1
  <1>5. DOMAIN x = {} /\ DOMAIN y = {}
    BY <1>1, <1>2, <1>4 DEF Containers
  <1>6. x = <<>> /\ y = <<>>
    BY <1>3, <1>5 DEF List
  <1>7. (<<>> \o <<>>) \o env = env
    <2>1. <<>> \in Seq(Elements(env)) /\ env \in Seq(Elements(env))
      BY DEF List
    <2>2. <<>> \o <<>> = <<>>
      BY <2>1
    <2>3. <<>> \o env = env
      BY <2>1
    <2> QED BY <2>2, <2>3
  <1> QED BY <1>1, <1>2, <1>6, <1>7 DEF UserEnv

\* The values that Vector gets (u) and that the Data Index gets (url).
LEMMA SameAddress ==
  ASSUME NEW pg, NEW ns, pg.service \in Services
  PROVE  Resolved(buildJdbcURL(pg).address.host, ns)
            = Resolved(BuildPostgresAddress(pg.service, Or(pg.namespace, ns), 0).host, ns)
  <1>1. CASE pg.namespace = Nil
    <2>1. buildJdbcURL(pg).address.host = <<pg.service>>
      BY <1>1 DEF buildJdbcURL, BuildPostgresAddress
    <2>2. Resolved(<<pg.service>>, ns) = <<pg.service, ns>>
      BY DEF Resolved
    <2>3. CASE ns = Nil
      BY <1>1, <2>1, <2>3 DEF BuildPostgresAddress, Or
    <2>4. CASE ns # Nil
      <3>1. BuildPostgresAddress(pg.service, Or(pg.namespace, ns), 0).host = <<pg.service, ns>>
        BY <1>1, <2>4 DEF BuildPostgresAddress, Or
      <3>2. Resolved(<<pg.service, ns>>, ns) = <<pg.service, ns>>
        BY DEF Resolved
      <3> QED BY <2>1, <2>2, <3>1, <3>2
    <2> QED BY <2>3, <2>4
  <1>2. CASE pg.namespace # Nil
    BY <1>2 DEF buildJdbcURL, BuildPostgresAddress, Or
  <1> QED BY <1>1, <1>2

LEMMA UrlParts ==
  ASSUME NEW pg
  PROVE  /\ Url(pg).address = buildJdbcURL(pg).address
         /\ Url(pg).address.port = Or(pg.port, DefaultPort)
         /\ Url(pg).database = Or(pg.database, "logicflow")
         /\ \A i \in DOMAIN Url(pg).query : Url(pg).query[i].sep = IF i = 1 THEN "?" ELSE "&"
  <1>1. PICK u : u = buildJdbcURL(pg)
    OBVIOUS
  <1>2. PICK schema : schema = [sep |-> "?", key |-> "currentSchema", value |-> pg.schema]
    OBVIOUS
  <1>3. /\ DOMAIN u = {"address", "database", "query"}
        /\ u.address.port = Or(pg.port, DefaultPort) /\ u.database = Or(pg.database, "logicflow")
        /\ u.query = IF pg.schema = Nil THEN <<>> ELSE <<schema>>
    BY <1>1, <1>2 DEF buildJdbcURL, BuildPostgresAddress
  <1>4. CASE pg.tls = Nil \/ ~pg.tls.enabled
    <2>1. Url(pg) = u
      BY <1>1, <1>4 DEF Url, WithSSLMode
    <2>2. \A i \in DOMAIN u.query : u.query[i].sep = IF i = 1 THEN "?" ELSE "&"
      BY <1>2, <1>3
    <2> QED BY <1>1, <1>3, <2>1, <2>2
  <1>5. CASE ~(pg.tls = Nil \/ ~pg.tls.enabled)
    <2>1. PICK mode : mode = [sep |-> IF u.query = <<>> THEN "?" ELSE "&", key |-> "sslmode",
                              value |-> Or(pg.tls.mode, "prefer")]
      OBVIOUS
    <2>2. PICK query : query = Append(u.query, mode)
      OBVIOUS
    <2>3. Url(pg) = [u EXCEPT !.query = query]
      BY <1>1, <1>5, <2>1, <2>2 DEF Url, WithSSLMode
    <2>4. Url(pg).address = u.address /\ Url(pg).database = u.database /\ Url(pg).query = query
      BY <1>3, <2>3
    <2>5. \A i \in DOMAIN query : query[i].sep = IF i = 1 THEN "?" ELSE "&"
      <3>1. CASE pg.schema = Nil
        <4>1. query = <<mode>> /\ mode.sep = "?"
          BY <1>3, <2>1, <2>2, <3>1
        <4> QED BY <4>1
      <3>2. CASE pg.schema # Nil
        <4>1. u.query = <<schema>> /\ mode.sep = "&"
          BY <1>3, <2>1, <3>2
        <4>2. PICK S : S = {schema, mode}
          OBVIOUS
        <4>3. <<schema>> \in Seq(S) /\ mode \in S /\ query = Append(<<schema>>, mode)
          BY <2>2, <4>1, <4>2
        <4>4. DOMAIN query = 1..2 /\ query[1] = schema /\ query[2] = mode
          BY <4>3
        <4>5. schema.sep = "?"
          BY <1>2
        <4> QED BY <4>1, <4>4, <4>5
      <3> QED BY <3>1, <3>2
    <2> QED BY <1>1, <1>3, <2>4, <2>5
  <1> QED BY <1>4, <1>5

LEMMA PlatformSelectors ==
  ASSUME NEW o, LogicPlatform(o), o.kind = "LogicPlatform", NEW rel, NEW os, NEW w \in Render(o, rel, os).workloads
  PROVE  /\ w.selector = SelectorLabels(vectorName(o)) => HasVector(o) /\ w = VectorDaemonSet(o)
         /\ w.selector = SelectorLabels(dataIndexName(o)) => o.dataIndex.enabled /\ w = DataIndexDeployment(o)
  <1>1. \A m, n : SelectorLabels(m) = SelectorLabels(n) => m = n
    <2>1. \A n : SelectorLabels(n)["name"] = n
      BY DEF SelectorLabels
    <2> QED BY <2>1
  <1>2. /\ vectorName(o) # dataIndexName(o) /\ vectorName(o) # gatewayName(o)
        /\ dataIndexName(o) # gatewayName(o)
    BY DEF vectorName, dataIndexName, gatewayName
  <1>3. CASE o.dataIndex.enabled /\ w = DataIndexDeployment(o)
    <2>1. w.selector = SelectorLabels(dataIndexName(o))
      BY <1>3, DataIndexBuilt DEF PlatformPods
    <2> QED BY <1>1, <1>2, <1>3, <2>1
  <1>4. CASE HasVector(o) /\ w = VectorDaemonSet(o)
    <2>1. w.selector = SelectorLabels(vectorName(o))
      BY <1>4, VectorBuilt DEF PlatformPods, HasVector
    <2> QED BY <1>1, <1>2, <1>4, <2>1
  <1>5. CASE o.gateway # Nil /\ w = GatewayDeployment(o)
    <2>1. w.selector = SelectorLabels(gatewayName(o))
      BY <1>5, GatewayBuilt DEF PlatformPods
    <2> QED BY <1>1, <1>2, <2>1
  <1> QED BY <1>3, <1>4, <1>5, PlatformWorkloads

LEMMA InvSameDatabase ==
  ASSUME ManifestInv
  PROVE  SameDatabase
  <1> SUFFICES ASSUME Accepted, obj.kind = "LogicPlatform", NEW v \in out.workloads, NEW d \in out.workloads,
                      v.selector = SelectorLabels(vectorName(obj)), d.selector = SelectorLabels(dataIndexName(obj)),
                      UserNames(obj) = {}, obj.dataIndex.persistence.postgresql.service \in Services,
                      NEW url, url = ValueOf(d, <<"QUARKUS_DATASOURCE_JDBC_URL">>)
               PROVE  /\ Resolved(url.address.host, obj.namespace) = Resolved(ValueOf(v, <<"POSTGRES_HOST">>).host, obj.namespace)
                      /\ url.address.port = ValueOf(v, <<"POSTGRES_PORT">>) /\ url.database = ValueOf(v, <<"POSTGRES_DB">>)
                      /\ ValueOf(d, <<"QUARKUS_DATASOURCE_USERNAME">>) = ValueOf(v, <<"POSTGRES_USER">>)
                      /\ ValueOf(d, <<"QUARKUS_DATASOURCE_PASSWORD">>) = ValueOf(v, <<"POSTGRES_PASSWORD">>)
                      /\ \A i \in DOMAIN url.query : url.query[i].sep = IF i = 1 THEN "?" ELSE "&"
    BY DEF SameDatabase
  <1>1. AppliedFrom(obj) /\ Valid(obj)
    BY AppliedCopy DEF Accepted, AppliedFrom
  <1>2. /\ LogicPlatform(obj) /\ v \in Render(obj, release, openShift).workloads
        /\ d \in Render(obj, release, openShift).workloads /\ ValidatePlatform(obj)
    BY <1>1 DEF AppliedFrom, Object, Valid
  <1>3. HasVector(obj) /\ v = VectorDaemonSet(obj) /\ d = DataIndexDeployment(obj)
    BY <1>2, PlatformSelectors
  <1>4. obj.dataIndex.enabled
    BY <1>2, PlatformSelectors
  <1>5. PICK pg : pg = obj.dataIndex.persistence.postgresql
    OBVIOUS
  <1>6. HasPersistence(obj.dataIndex.persistence) /\ pg.database # Nil
    BY <1>2, <1>4, <1>5 DEF ValidatePlatform, ValidatePersistence
  <1>7. v.template.main.env = VectorEnvVars(obj)
    <2>1. obj.dataIndex.vector.app \in Apps(obj) /\ ApplicationSpec(obj.dataIndex.vector.app)
      BY <1>2, <1>3 DEF Apps, HasVector, LogicPlatform
    <2>2. v.template.main.env = UserEnv(obj.dataIndex.vector.app) \o VectorEnvVars(obj)
      BY <1>2, <1>3, VectorBuilt DEF HasVector, PlatformPods
    <2> QED BY <1>6, <2>1, <2>2, NoUserVariables, VectorDatabase
  <1>8. d.template.main.env = DataIndexEnv(obj)
    <2>1. obj.dataIndex.app \in Apps(obj) /\ ApplicationSpec(obj.dataIndex.app)
      BY <1>2 DEF Apps, LogicPlatform
    <2>2. d.template.main.env = UserEnv(obj.dataIndex.app) \o DataIndexEnv(obj)
      BY <1>2, <1>3, DataIndexBuilt DEF PlatformPods
    <2> QED BY <1>6, <2>1, <2>2, NoUserVariables, DataIndexDatabase
  <1>9. /\ ValueOf(v, <<"POSTGRES_USER">>) = <<pg.secret, userKey(pg)>>
        /\ ValueOf(v, <<"POSTGRES_PASSWORD">>) = <<pg.secret, passwordKey(pg)>>
        /\ ValueOf(v, <<"POSTGRES_PORT">>) = Or(pg.port, DefaultPort)
        /\ ValueOf(v, <<"POSTGRES_DB">>) = pg.database
        /\ ValueOf(v, <<"POSTGRES_HOST">>) = VectorAddress(obj, pg)
    <2>1. /\ Has(v.template.main.env, <<"POSTGRES_USER">>, <<pg.secret, userKey(pg)>>)
          /\ Has(v.template.main.env, <<"POSTGRES_PASSWORD">>, <<pg.secret, passwordKey(pg)>>)
          /\ Has(v.template.main.env, <<"POSTGRES_PORT">>, Or(pg.port, DefaultPort))
          /\ Has(v.template.main.env, <<"POSTGRES_DB">>, pg.database)
          /\ Has(v.template.main.env, <<"POSTGRES_HOST">>, VectorAddress(obj, pg))
      BY <1>5, <1>6, <1>7, VectorDatabase
    <2> QED BY <2>1, ValueFound
  <1>10. /\ ValueOf(d, <<"QUARKUS_DATASOURCE_USERNAME">>) = <<pg.secret, userKey(pg)>>
         /\ ValueOf(d, <<"QUARKUS_DATASOURCE_PASSWORD">>) = <<pg.secret, passwordKey(pg)>>
         /\ url = Url(pg)
    <2>1. /\ Has(d.template.main.env, <<"QUARKUS_DATASOURCE_USERNAME">>, <<pg.secret, userKey(pg)>>)
          /\ Has(d.template.main.env, <<"QUARKUS_DATASOURCE_PASSWORD">>, <<pg.secret, passwordKey(pg)>>)
          /\ Has(d.template.main.env, <<"QUARKUS_DATASOURCE_JDBC_URL">>, Url(pg))
      BY <1>5, <1>6, <1>8, DataIndexDatabase
    <2> QED BY <2>1, ValueFound
  <1>11. url.database = pg.database
    BY <1>6, <1>10, UrlParts DEF Or
  <1>12. Resolved(url.address.host, obj.namespace) = Resolved(ValueOf(v, <<"POSTGRES_HOST">>).host, obj.namespace)
    BY <1>5, <1>9, <1>10, UrlParts, SameAddress DEF VectorAddress
  <1> QED BY <1>9, <1>10, <1>11, <1>12, UrlParts

\* Vector writes into the database, and with the credentials, that the Data Index reads.
THEOREM OneDatabase == Spec => []SameDatabase
  <1>1. ManifestInv => SameDatabase
    BY InvSameDatabase
  <1> QED BY <1>1, ManifestInvariant, PTL
=============================================================================
