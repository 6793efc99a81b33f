------------------------------ MODULE Workloads ------------------------------
(***************************************************************************)
(* The pods that the operator builds: how a user's ApplicationSpec, in     *)
(* its three tiers, becomes a container, what each component adds to it,   *)
(* and the Deployment or DaemonSet around it.                              *)
(*                                                                         *)
(* Texts are atoms and what the code composes from them is a tuple or a    *)
(* record: an object name <<platform, "vector">>, an image, a JDBC URL.    *)
(* Resource quantities, scheduling fields and the like are copied if they  *)
(* are set and are represented by one field that behaves so.               *)
(***************************************************************************)
EXTENDS Naturals, Sequences

CONSTANT Nil    \* a field that is not set

Record(r, fields) == r = [f \in fields |-> r[f]]
Elements(s) == {s[i] : i \in DOMAIN s}
List(s) == s \in Seq(Elements(s))

\* What of s is at the positions P, in its order.  No SelectSeq, for the sake of the proofs.
Keep(s, P) ==
    LET kept[i \in 0..Len(s)] == IF i = 0 THEN <<>>
                                 ELSE IF i \in P THEN Append(kept[i - 1], s[i]) ELSE kept[i - 1]
    IN kept[Len(s)]

-----------------------------------------------------------------------------
(* What users write (api/v1)                                               *)

\* image stands for the fields a tier replaces (pull policy, working
\* directory, lifecycle), command for the lists it appends to (arguments,
\* envFrom).
NoContainer == [image |-> Nil, resources |-> Nil, command |-> <<>>, env |-> <<>>, mounts |-> <<>>,
                security |-> Nil, liveness |-> Nil, readiness |-> Nil, startup |-> Nil]

\* nodeSelector stands for the fields of a pod that are copied if set.
NoPodTemplate == [labels |-> <<>>, container |-> NoContainer, replicas |-> Nil, nodeSelector |-> Nil,
                  security |-> Nil, account |-> Nil, volumes |-> <<>>, sidecars |-> <<>>]

NoApplication == [image |-> Nil, replicas |-> Nil, resources |-> Nil, container |-> NoContainer,
                  podTemplate |-> NoPodTemplate]

\* What a value of these types is, as far as builders and webhooks rely on it.
Container(c) == Record(c, DOMAIN NoContainer) /\ List(c.env) /\ List(c.mounts)
ApplicationSpec(a) ==
    /\ Record(a, DOMAIN NoApplication) /\ Record(a.podTemplate, DOMAIN NoPodTemplate)
    /\ Container(a.container) /\ Container(a.podTemplate.container)
    /\ List(a.podTemplate.volumes) /\ List(a.podTemplate.sidecars)

PostgreSQL == [secret |-> "credentials", userKey |-> Nil, passwordKey |-> Nil, service |-> "postgres",
               namespace |-> Nil, port |-> Nil, database |-> Nil, schema |-> Nil, tls |-> Nil]
NoSecurity == [type |-> "NONE", apiKeys |-> <<>>, oidc |-> Nil]
NoLogging  == [enabled |-> Nil, workflowPayloads |-> Nil, taskPayloads |-> Nil]

PersistenceSpec(p) == p # Nil => /\ Record(p, {"postgresql"})
                                 /\ p.postgresql # Nil => Record(p.postgresql, DOMAIN PostgreSQL)

HasPersistence(p) == p # Nil /\ p.postgresql # Nil

Or(value, default) == IF value # Nil THEN value ELSE default

-----------------------------------------------------------------------------
(* Labels and environment variables (common_objects.go)                    *)

\* The last map wins a key.
MergeMaps(a, b) == [k \in DOMAIN a \cup DOMAIN b |-> IF k \in DOMAIN b THEN b[k] ELSE a[k]]

SelectorLabels(name) == [k \in {"name"} |-> name]

\* The owner's labels, overridden by the operator's own.
ChildLabels(owner, app) ==
    MergeMaps(owner.labels, [k \in {"name", "managed-by", "part-of"} |->
                                CASE k = "name" -> app
                                  [] k = "managed-by" -> <<"logic-operator">>
                                  [] k = "part-of" -> <<"logic-platform">>])

\* Mutant: the owner's labels are copied last.
ChildLabelsOwnerLast(owner, app) ==
    MergeMaps([k \in {"name", "instance"} |-> IF k = "name" THEN app ELSE <<owner.name>>], owner.labels)

ChildLabelsInstance(owner, app) ==
    MergeMaps(ChildLabels(owner, app), [k \in {"instance"} |-> <<owner.name>>])

envLiteral(name, value)         == [name |-> name, from |-> "value", value |-> value]
envFieldRef(name, path)         == [name |-> name, from |-> "field", value |-> path]
envFromSecret(name, secret, key) == [name |-> name, from |-> "secret", value |-> <<secret, key>>]

WithEnv(c, envs) == [c EXCEPT !.env = @ \o envs]
Without(c, names) == [c EXCEPT !.env = Keep(@, {i \in DOMAIN @ : @[i].name \notin names})]

-----------------------------------------------------------------------------
(* The three tiers (application_objects.go)                                *)

\* What a tier sets replaces what an earlier one did, but lists grow.
applyContainerFields(c, tier) ==
    [c EXCEPT !.image = Or(tier.image, @), !.resources = Or(tier.resources, @),
              !.security = Or(tier.security, @),
              !.liveness = Or(tier.liveness, @), !.readiness = Or(tier.readiness, @),
              !.startup = Or(tier.startup, @),
              !.command = @ \o tier.command, !.env = @ \o tier.env, !.mounts = @ \o tier.mounts]

\* Top-level shortcuts, then container, then podTemplate.container.
resolveContainer(app) ==
    LET bare == [NoContainer EXCEPT !.security = "restricted"]
        top  == [NoContainer EXCEPT !.image = app.image, !.resources = app.resources]
    IN applyContainerFields(applyContainerFields(applyContainerFields(bare, top), app.container),
                            app.podTemplate.container)

\* A sidecar does not displace the main container.
filterSidecars(names, main) == Keep(names, {i \in DOMAIN names : names[i] # main})

\* The pod template and its spec, around the main container c.
toPodTemplate(main, app, podLabels, c) ==
    LET pt == app.podTemplate
    IN [labels |-> MergeMaps(podLabels, pt.labels), main |-> c,
        containers |-> <<main>> \o filterSidecars(pt.sidecars, main),
        security |-> Or(pt.security, "restricted"), nodeSelector |-> pt.nodeSelector,
        account |-> IF pt.account = Nil THEN Nil ELSE <<pt.account>>, volumes |-> pt.volumes]

ToDeploymentSpec(main, app, podLabels, selLabels, c) ==
    [selector |-> selLabels, replicas |-> Or(app.podTemplate.replicas, app.replicas),
     template |-> toPodTemplate(main, app, podLabels, c)]

\* A DaemonSet has no replicas, and Vector's pods may run as root.
ToDaemonSetSpec(main, app, podLabels, selLabels, c) ==
    [selector |-> selLabels, replicas |-> Nil,
     template |-> [toPodTemplate(main, app, podLabels, c) EXCEPT !.security = Nil]]

-----------------------------------------------------------------------------
(* Databases                                                               *)

DefaultPort == 5432
userKey(pg)     == Or(pg.userKey, "POSTGRESQL_USER")
passwordKey(pg) == Or(pg.passwordKey, "POSTGRESQL_PASSWORD")

\* A Service's name in the cluster, or a host as it is; port 0 is left out.
BuildPostgresAddress(service, ns, port) ==
    [host |-> IF ns = Nil THEN <<service>> ELSE <<service, ns>>, port |-> port]

\* The parameters of a URL, each with the character before it.
buildJdbcURL(pg) ==
    [address |-> BuildPostgresAddress(pg.service, pg.namespace, Or(pg.port, DefaultPort)),
     database |-> Or(pg.database, "logicflow"),
     query |-> IF pg.schema = Nil THEN <<>> ELSE <<[sep |-> "?", key |-> "currentSchema", value |-> pg.schema]>>]

WithSSLMode(url, tls) ==
    IF tls = Nil \/ ~tls.enabled THEN url
    ELSE [url EXCEPT !.query = Append(@, [sep |-> IF @ = <<>> THEN "?" ELSE "&", key |-> "sslmode",
                                          value |-> Or(tls.mode, "prefer")])]

persistenceQuarkusEnvVars(p) ==
    IF ~HasPersistence(p) THEN <<>>
    ELSE LET pg == p.postgresql
         IN <<envFromSecret(<<"QUARKUS_DATASOURCE_USERNAME">>, pg.secret, userKey(pg)),
              envFromSecret(<<"QUARKUS_DATASOURCE_PASSWORD">>, pg.secret, passwordKey(pg)),
              envLiteral(<<"QUARKUS_DATASOURCE_JDBC_URL">>, WithSSLMode(buildJdbcURL(pg), pg.tls))>>
            \o IF pg.schema = Nil THEN <<>>
               ELSE <<envLiteral(<<"QUARKUS_HIBERNATE_ORM_DATABASE_DEFAULT_SCHEMA">>, pg.schema)>>

-----------------------------------------------------------------------------
(* The workflow runner (quarkus_config.go)                                 *)

Image(repo, variant, rel) == [repo |-> repo, variant |-> variant, release |-> rel, wellFormed |-> TRUE]

\* Mutant: the variants are swapped.
DefaultRunnerImageSwapped(c, p, rel) ==
    [c EXCEPT !.image = Or(@, Image("runner", IF HasPersistence(p) THEN "minimal" ELSE "standard", rel))]

\* The image of this operator's release, unless a tier names one.
DefaultRunnerImage(c, p, rel) ==
    [c EXCEPT !.image = Or(@, Image("runner", IF HasPersistence(p) THEN "standard" ELSE "minimal", rel))]

RunnerPort == 8080
Probe(path, port) == [path |-> path, port |-> port]

DefaultQuarkusProbes(c) == [c EXCEPT !.liveness  = Or(@, Probe("/q/health/live", RunnerPort)),
                                     !.readiness = Or(@, Probe("/q/health/ready", RunnerPort))]
DurableStartupProbe(c) == [c EXCEPT !.startup = Or(@, Probe("/q/health/ready", RunnerPort))]

\* Three variables for each key, in the order of the keys.
KeyVariable(key, part) == <<"QUARKUS_FLOW_RUNNER_SECURITY_API_KEYS", key, part>>
KeyEnvVars(k) == <<envFromSecret(KeyVariable(k.name, "SECRET"), k.secret, Or(k.key, "value")),
                   envLiteral(KeyVariable(k.name, "ROLES"), k.roles),
                   envLiteral(KeyVariable(k.name, "NAMESPACES"), "*")>>

apiKeyEnvVars(keys) ==
    <<envLiteral(<<"QUARKUS_FLOW_RUNNER_SECURITY_TYPE">>, "api-key")>>
    \o [i \in 1..3 * Len(keys) |-> KeyEnvVars(keys[(i + 2) \div 3])[((i - 1) % 3) + 1]]

oidcEnvVars(oidc) ==
    <<envLiteral(<<"QUARKUS_FLOW_RUNNER_SECURITY_TYPE">>, "oidc")>>
    \o IF oidc = Nil THEN <<>>
       ELSE <<envLiteral(<<"QUARKUS_OIDC_AUTH_SERVER_URL">>, oidc.server),
              envLiteral(<<"QUARKUS_OIDC_CLIENT_ID">>, oidc.client),
              envFromSecret(<<"QUARKUS_OIDC_CREDENTIALS_SECRET">>, oidc.secret, Or(oidc.key, "value"))>>
            \o IF oidc.rolesClaim \in {Nil, "roles"} THEN <<>>
               ELSE <<envLiteral(<<"QUARKUS_OIDC_ROLES_CLAIM">>, oidc.rolesClaim)>>

securityEnvVars(sec) ==
    CASE sec.type = "API_KEY" -> apiKeyEnvVars(sec.apiKeys)
      [] sec.type = "OIDC" -> oidcEnvVars(sec.oidc)
      [] OTHER -> <<envLiteral(<<"QUARKUS_FLOW_RUNNER_SECURITY_TYPE">>, "none")>>

structuredLoggingEnvVars(logging) ==
    IF logging = Nil THEN <<>>
    ELSE LET Set(name, value) == IF value = Nil THEN <<>> ELSE <<envLiteral(<<name>>, value)>>
         IN Set("QUARKUS_FLOW_STRUCTURED_LOGGING_ENABLED", logging.enabled)
            \o Set("QUARKUS_FLOW_STRUCTURED_LOGGING_INCLUDE_WORKFLOW_PAYLOADS", logging.workflowPayloads)
            \o Set("QUARKUS_FLOW_STRUCTURED_LOGGING_INCLUDE_TASK_PAYLOADS", logging.taskPayloads)

SourcePath == <<"QUARKUS_FLOW_RUNNER_SOURCE_PATH">>
WithFlowSourcePath(c) == WithEnv(Without(c, {SourcePath}), <<envLiteral(SourcePath, "/deployments/workflows")>>)

\* One read-only directory, and one volume, for each ConfigMap of a flow.
WithFlowVolumeMounts(c, flows) == [c EXCEPT !.mounts = @ \o flows]
FlowVolumes(flows) == [i \in DOMAIN flows |-> [name |-> flows[i], configMap |-> <<flows[i]>>]]

Immutable == {<<"QUARKUS_FLOW_DURABLE_KUBE_LEASE_LEADER_ENABLED">>, <<"QUARKUS_FLOW_DURABLE_KUBE_POOL_NAME">>,
              <<"POD_NAME">>, <<"POD_NAMESPACE">>}
AcquireTimeout == <<"QUARKUS_FLOW_DURABLE_KUBE_LEASE_MEMBER_ACQUIRE_TIMEOUT">>

DurableEnvs(pool) ==
    <<envLiteral(<<"QUARKUS_FLOW_DURABLE_KUBE_LEASE_LEADER_ENABLED">>, "false"),
      envLiteral(<<"QUARKUS_FLOW_DURABLE_KUBE_POOL_NAME">>, pool),
      envLiteral(<<"QUARKUS_FLOW_DURABLE_KUBE_LEASE_MEMBER_DURATION">>, 30),
      envLiteral(<<"QUARKUS_FLOW_DURABLE_KUBE_SCHEDULERS_MEMBER_INTERVAL">>, "10s"),
      envFieldRef(<<"POD_NAME">>, "metadata.name"),
      envFieldRef(<<"POD_NAMESPACE">>, "metadata.namespace")>>

\* Mutant: what the user set is left in place.
WithDurableEnvVarsUnfiltered(c, pool) ==
    WithEnv(c, DurableEnvs(pool) \o IF \E i \in DOMAIN c.env : c.env[i].name = AcquireTimeout THEN <<>>
                                    ELSE <<envLiteral(AcquireTimeout, "30S")>>)

\* The user may choose the timeout, and nothing else.
WithDurableEnvVars(c, pool) ==
    LET filtered == Without(c, Immutable)
    IN WithEnv(filtered, DurableEnvs(pool)
                         \o IF \E i \in DOMAIN filtered.env : filtered.env[i].name = AcquireTimeout THEN <<>>
                            ELSE <<envLiteral(AcquireTimeout, "30S")>>)

\* applyDeployment of the LogicFlowRuntime controller.
RunnerDeployment(rt, rel) ==
    LET defaulted == DefaultRunnerImage(resolveContainer(rt.app), rt.persistence, rel)
        configured == WithEnv(defaulted, persistenceQuarkusEnvVars(rt.persistence) \o securityEnvVars(rt.security)
                                         \o structuredLoggingEnvVars(rt.logging))
        runner == WithFlowVolumeMounts(WithFlowSourcePath(DefaultQuarkusProbes(configured)), rt.flows)
        durable == rt.persistence # Nil
        c == IF durable THEN DurableStartupProbe(WithDurableEnvVars(runner, rt.name)) ELSE runner
        spec == ToDeploymentSpec("runner", rt.app, ChildLabels(rt, <<rt.name>>), SelectorLabels(<<rt.name>>), c)
    IN [spec EXCEPT !.template.volumes = @ \o FlowVolumes(rt.flows),
                    !.template.account = IF durable THEN <<rt.name>> ELSE @]

-----------------------------------------------------------------------------
(* The platform's components (logicplatform_objects.go,                    *)
(* workflow_gateway_builders.go)                                           *)

dataIndexName(plat) == <<plat.name, "data-index">>
vectorName(plat)    == <<plat.name, "vector">>
gatewayName(plat)   == <<plat.name, "workflow-gateway">>

DataIndexDeployment(plat) ==
    LET di == plat.dataIndex
        c == WithEnv(resolveContainer(di.app),
                     persistenceQuarkusEnvVars(di.persistence)
                     \o <<envLiteral(<<"QUARKUS_FLYWAY_MIGRATE_AT_START">>, "true"),
                          envLiteral(<<"QUARKUS_FLYWAY_BASELINE_ON_MIGRATE">>, "true"),
                          envLiteral(<<"QUARKUS_FLYWAY_BASELINE_VERSION">>, "0"),
                          envLiteral(<<"QUARKUS_SMALLRYE_GRAPHQL_UI_ENABLE">>, "true")>>)
    IN ToDeploymentSpec("logic-data-index", di.app, ChildLabelsInstance(plat, dataIndexName(plat)),
                        SelectorLabels(dataIndexName(plat)), DefaultQuarkusProbes(c))

\* The configuration is a volume only with a database.
VectorVolumes(plat) ==
    LET Plain(name) == [name |-> name, configMap |-> Nil]
    IN <<Plain("data"), Plain("var-log"), Plain("var-lib-docker-containers")>>
       \o IF HasPersistence(plat.dataIndex.persistence)
          THEN <<[name |-> "config", configMap |-> vectorName(plat)]>> ELSE <<>>

WithVectorVolumeMounts(c) ==
    [c EXCEPT !.mounts = @ \o <<"config", "data", "var-log", "var-lib-docker-containers">>]

\* Mutant: the Service is always sought in the platform's namespace.
VectorAddressOwnNamespace(plat, pg) == BuildPostgresAddress(pg.service, plat.namespace, 0)

\* Without a namespace the Service is sought in the platform's.
VectorAddress(plat, pg) == BuildPostgresAddress(pg.service, Or(pg.namespace, plat.namespace), 0)

VectorEnvVars(plat) ==
    LET v == plat.dataIndex.vector
        p == plat.dataIndex.persistence
        pg == p.postgresql
    IN <<envFieldRef(<<"VECTOR_SELF_NODE_NAME">>, "spec.nodeName"),
         envFieldRef(<<"VECTOR_SELF_POD_NAME">>, "metadata.name"),
         envFieldRef(<<"VECTOR_SELF_POD_NAMESPACE">>, "metadata.namespace"),
         envFieldRef(<<"NODE_NAME">>, "spec.nodeName")>>
       \o (IF v.watchNamespaces \in {Nil, <<>>} THEN <<>>
           ELSE <<envLiteral(<<"WORKFLOW_NAMESPACE">>, Head(v.watchNamespaces))>>)
       \o (IF v.debugEvents THEN <<envLiteral(<<"DEBUG_EVENTS">>, "true")>> ELSE <<>>)
       \o (IF ~HasPersistence(p) THEN <<>>
           ELSE <<envFromSecret(<<"POSTGRES_USER">>, pg.secret, userKey(pg)),
                  envFromSecret(<<"POSTGRES_PASSWORD">>, pg.secret, passwordKey(pg)),
                  envLiteral(<<"POSTGRES_PORT">>, Or(pg.port, DefaultPort)),
                  envLiteral(<<"POSTGRES_DB">>, pg.database),
                  envLiteral(<<"POSTGRES_SCHEMA">>, pg.schema),
                  envLiteral(<<"POSTGRES_HOST">>, VectorAddress(plat, pg))>>)

VectorProbes(c) == [c EXCEPT !.readiness = Probe("/health", 8686), !.liveness = Probe("/health", 8686)]

VectorDaemonSet(plat) ==
    LET app == plat.dataIndex.vector.app
        c == VectorProbes(WithVectorVolumeMounts(WithEnv(resolveContainer(app), VectorEnvVars(plat))))
        selector == SelectorLabels(vectorName(plat))
        spec == ToDaemonSetSpec("vector", app, MergeMaps(ChildLabelsInstance(plat, vectorName(plat)), selector),
                                selector, c)
    IN [spec EXCEPT !.template.volumes = @ \o VectorVolumes(plat), !.template.account = vectorName(plat)]

GatewayProbes(c) == [c EXCEPT !.readiness = Probe("/ready", 8081), !.liveness = Probe("/health", 8081)]

\* Replicas that nobody set stay unset, for an autoscaler.
GatewayDeployment(plat) ==
    LET app == plat.gateway.app
        c == GatewayProbes(WithEnv(resolveContainer(app), <<envFieldRef(<<"POD_NAMESPACE">>, "metadata.namespace")>>))
        spec == ToDeploymentSpec("workflow-gateway", app, ChildLabelsInstance(plat, gatewayName(plat)),
                                 SelectorLabels(gatewayName(plat)), c)
    IN [spec EXCEPT !.template.account = gatewayName(plat)]

-----------------------------------------------------------------------------
(* Services                                                                *)

QuarkusService(name) ==
    [name |-> name, selector |-> SelectorLabels(name), port |-> 80, targetPort |-> RunnerPort]
VectorService(plat) ==
    [name |-> vectorName(plat), selector |-> SelectorLabels(vectorName(plat)), port |-> 8686, targetPort |-> 8686]
serviceForGateway(plat) ==
    [name |-> gatewayName(plat), selector |-> SelectorLabels(gatewayName(plat)), port |-> 80, targetPort |-> 8080]

=============================================================================
