----------------------------- MODULE MCManifests -----------------------------
(* Instances of Manifests for TLC: families of objects that vary what goes   *)
(* together and leave the rest as it is.                                     *)
EXTENDS Manifests, TLC

NoLabels == [k \in {} |-> Nil]
App == [NoApplication EXCEPT !.podTemplate.labels = NoLabels]

Set(names) == [i \in DOMAIN names |-> envLiteral(<<names[i]>>, "user")]

\* What users put into the two containers: nothing, variables of their own, a
\* variable the operator owns, defaults or adds, the same in both.
Envs == {<<>>} \cup {Set(<<n>>) : n \in {"MINE", "POD_NAME", "QUARKUS_FLOW_RUNNER_SOURCE_PATH",
                                         "QUARKUS_FLOW_DURABLE_KUBE_LEASE_MEMBER_ACQUIRE_TIMEOUT",
                                         "QUARKUS_DATASOURCE_JDBC_URL"}}
AppsWithEnv == {[App EXCEPT !.container.env = e, !.podTemplate.container.env = f] : e, f \in Envs}

Runner(variant) == [Image("runner", variant, 0) EXCEPT !.wellFormed = TRUE]
Custom    == Image("custom", Nil, 0)
Malformed == [Custom EXCEPT !.wellFormed = FALSE]
UserProbe == Probe("/user", 1)

AppsWithImage == {[App EXCEPT !.image = i, !.container.image = j, !.podTemplate.container.image = k] :
                    i \in {Nil, Runner("minimal"), Runner("standard"), Custom},
                    j \in {Nil, Custom}, k \in {Nil, Runner("minimal")}}
AppsWithPod == {[App EXCEPT !.podTemplate.labels = l, !.podTemplate.sidecars = s, !.podTemplate.replicas = r,
                            !.replicas = q, !.podTemplate.account = a, !.container.liveness = p] :
                    l \in {NoLabels, "team" :> <<"a">>, "name" :> <<"x">>},
                    s \in {<<>>, <<"log", "runner", "vector", "workflow-gateway", "logic-data-index">>},
                    r \in {Nil, 3}, q \in {Nil, 0}, a \in {Nil, "mine"}, p \in {Nil, UserProbe}}

\* Volumes and mounts of the user's own, and a mount that has no volume.
AppsWithVolume == {[App EXCEPT !.podTemplate.volumes = <<[name |-> "mine", configMap |-> <<"theirs">>]>>,
                               !.container.mounts = m] : m \in {<<"mine">>, <<"mine", "nowhere">>}}

Database(ns, port, tls) == [PostgreSQL EXCEPT !.namespace = ns, !.port = port, !.tls = tls,
                                              !.database = "db", !.schema = "schema"]
Persistence == {Nil, [postgresql |-> Nil], [postgresql |-> Database(Nil, Nil, Nil)],
                [postgresql |-> [PostgreSQL EXCEPT !.tls = [enabled |-> TRUE, mode |-> Nil]]]}

Key(n) == [name |-> n, secret |-> "keys", key |-> Nil, roles |-> <<"flow-admin">>]
OIDC == [server |-> "url", client |-> "id", secret |-> "oidc", key |-> Nil, rolesClaim |-> Nil]
Securities == {NoSecurity}
              \cup {[NoSecurity EXCEPT !.type = "API_KEY", !.apiKeys = k] :
                        k \in {<<>>, <<Key("a"), Key("b")>>, <<Key("a"), Key("a")>>}}
              \cup {[NoSecurity EXCEPT !.type = "OIDC", !.oidc = o] :
                        o \in {Nil, OIDC, [OIDC EXCEPT !.client = Nil], [OIDC EXCEPT !.rolesClaim = "groups"]}}
Loggings == {Nil, [NoLogging EXCEPT !.enabled = TRUE, !.taskPayloads = FALSE]}

Rt == [kind |-> "LogicFlowRuntime", name |-> "rt", labels |-> NoLabels, app |-> App, persistence |-> Nil,
       security |-> NoSecurity, logging |-> Nil, flows |-> <<"flow-a", "flow-b">>]

TheRuntimes ==
    {[Rt EXCEPT !.app = a, !.persistence = p] : a \in AppsWithEnv \cup AppsWithImage \cup AppsWithPod \cup AppsWithVolume, p \in Persistence}
    \cup {[Rt EXCEPT !.security = s, !.logging = l, !.persistence = p, !.flows = f] :
            s \in Securities, l \in Loggings, p \in Persistence, f \in {<<>>, <<"flow-a">>}}
    \cup {[Rt EXCEPT !.labels = l] : l \in {"name" :> <<"other">>, "team" :> <<"a">>}}

-----------------------------------------------------------------------------
Issuer(kind) == [name |-> "issuer", kind |-> kind]
TLSs == {[enabled |-> e, secret |-> s, issuer |-> i] :
            e \in BOOLEAN, s \in {Nil, "cert"},
            i \in {Nil, Issuer("ClusterIssuer"), Issuer("Issuer"), [Issuer("ClusterIssuer") EXCEPT !.name = Nil]}}
Ingresses == {[enabled |-> e, host |-> h, annotations |-> n, tls |-> t] :
                e \in BOOLEAN, h \in {Nil, "host"}, n \in {NoLabels, "team" :> "a"}, t \in TLSs}

Plat == [kind |-> "LogicPlatform", name |-> "p", namespace |-> "ns", labels |-> NoLabels, gateway |-> Nil,
         dataIndex |-> [enabled |-> TRUE, app |-> App, persistence |-> [postgresql |-> Database(Nil, Nil, Nil)],
                        vector |-> Nil, ingress |-> Nil]]
Vector == [enabled |-> TRUE, watchNamespaces |-> Nil, debugEvents |-> FALSE, app |-> App]
Gateway == [app |-> App, ingress |-> Nil]
Off == [Plat EXCEPT !.dataIndex.enabled = FALSE]

Databases == {Nil, [postgresql |-> Nil]} \cup
    {[postgresql |-> Database(ns, port, tls)] : ns \in {Nil, "ns", "db"}, port \in {Nil, 6432},
            tls \in {Nil, [enabled |-> FALSE, mode |-> Nil], [enabled |-> TRUE, mode |-> "require"]}}
    \cup {[postgresql |-> [Database(Nil, Nil, Nil) EXCEPT ![f] = Nil]] : f \in {"secret", "service", "schema", "database"}}
    \cup {[postgresql |-> [Database(Nil, Nil, Nil) EXCEPT !.service = "db.example.com"]]}
Vectors == {Nil, Vector, [Vector EXCEPT !.enabled = FALSE],
            [Vector EXCEPT !.watchNamespaces = <<"a", "b">>, !.debugEvents = TRUE, !.app.image = Custom]}

ThePlatforms ==
    {[Plat EXCEPT !.dataIndex.persistence = d, !.dataIndex.vector = v, !.dataIndex.enabled = e] :
        d \in Databases, v \in Vectors, e \in BOOLEAN}
    \cup {[Plat EXCEPT !.dataIndex.ingress = i] : i \in Ingresses}
    \cup {[Off EXCEPT !.gateway = [Gateway EXCEPT !.ingress = i]] : i \in Ingresses}
    \cup {[Plat EXCEPT !.dataIndex.app.image = i, !.gateway = [Gateway EXCEPT !.app.image = j]] :
            i, j \in {Nil, Custom, Malformed}}
    \cup {[Plat EXCEPT !.dataIndex.app = a, !.gateway = Gateway, !.dataIndex.vector = Vector] : a \in AppsWithPod}
    \cup {[Plat EXCEPT !.gateway = [Gateway EXCEPT !.app = a], !.dataIndex.vector = [Vector EXCEPT !.app = a]] :
            a \in AppsWithPod \cup AppsWithEnv \cup AppsWithVolume}
    \cup {[Plat EXCEPT !.labels = l, !.gateway = Gateway, !.dataIndex.vector = Vector] :
            l \in {"name" :> <<"other">>, "instance" :> <<"other">>}}

TheServices ==
    {[kind |-> "LogicFlowService", name |-> "svc", runtime |-> "rt", ingress |-> i] : i \in Ingresses}

TheObjects == TheRuntimes \cup ThePlatforms \cup TheServices

=============================================================================
