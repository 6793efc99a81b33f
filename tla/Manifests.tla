------------------------------ MODULE Manifests ------------------------------
(***************************************************************************)
(* From what a user submits to what the operator applies: the mutating     *)
(* webhooks' defaults, the validating webhooks' checks of fields, and the  *)
(* builders of Kubernetes objects, for LogicFlowRuntimes and               *)
(* LogicPlatforms, and for the TLS settings of LogicFlowServices.          *)
(*                                                                         *)
(* An object may have been stored before the webhooks served, it is        *)
(* admitted again whenever anybody writes it, and the operator may be      *)
(* upgraded in between.  Controllers apply the defaults once more.         *)
(***************************************************************************)
EXTENDS Workloads

CONSTANTS
    Objects,      \* what users submit
    Services,     \* names of Services that exist in the platform's namespace
    MaxRelease    \* bound: releases of the operator

\* An image that a user names is of no release of the operator: release 0.
LogicFlowRuntime(o) ==
    /\ Record(o, {"kind", "name", "labels", "app", "persistence", "security", "logging", "flows"})
    /\ ApplicationSpec(o.app) /\ List(o.flows) /\ List(o.security.apiKeys)
    /\ \A i \in {o.app.image, o.app.container.image, o.app.podTemplate.container.image} : i # Nil => i.release = 0

LogicPlatform(o) ==
    LET di == o.dataIndex
        v  == di.vector
        gw == o.gateway
    IN /\ Record(o, {"kind", "name", "namespace", "labels", "gateway", "dataIndex"})
       /\ Record(di, {"enabled", "app", "persistence", "vector", "ingress"})
       /\ ApplicationSpec(di.app) /\ PersistenceSpec(di.persistence)
       /\ v # Nil => Record(v, {"enabled", "watchNamespaces", "debugEvents", "app"}) /\ ApplicationSpec(v.app)
       /\ gw # Nil => Record(gw, {"app", "ingress"}) /\ ApplicationSpec(gw.app)

Object(o) ==
    /\ o.kind \in {"LogicFlowRuntime", "LogicPlatform", "LogicFlowService"}
    /\ o.kind = "LogicFlowRuntime" => LogicFlowRuntime(o)
    /\ o.kind = "LogicPlatform" => LogicPlatform(o)

\* What the operator fills in where a field is not set, and how it names certificates.
Images  == {Image(repo, v, n) : repo \in {"runner", "data-index", "vector", "gateway"},
                                v \in {Nil, "minimal", "standard"}, n \in 0..MaxRelease}
Probes  == {Probe(path, port) : path \in {"/q/health/live", "/q/health/ready", "/health", "/ready"},
                                port \in {RunnerPort, 8081, 8686}}
Secrets == {<<o.name, "tls">> : o \in Objects} \cup {<<o.name, "workflow-gateway", "tls-cert">> : o \in Objects}

ASSUME ManifestConstants == /\ MaxRelease \in Nat \ {0}
                            /\ \A o \in Objects : Object(o)
                            /\ Nil \notin Images /\ Nil \notin Probes /\ Nil \notin Secrets
                            /\ Nil \notin {"Issuer", "ClusterIssuer"}

VARIABLES
    obj,          \* the submitted or stored object
    phase,        \* how far it is
    admitted,     \* have the webhooks accepted it?
    release,      \* the operator that runs
    openShift,    \* is the cluster OpenShift?
    out           \* what the operator applied last

vars == <<obj, phase, admitted, release, openShift, out>>

-----------------------------------------------------------------------------
(* Defaults                                                                *)

DefaultRunnerApp(app) == [app EXCEPT !.replicas = Or(@, 1)]
DefaultDataIndexApp(app, image) ==
    [app EXCEPT !.image = Or(@, image), !.replicas = Or(@, 1), !.resources = Or(@, "data-index")]
DefaultVectorApp(app, image) ==
    [app EXCEPT !.image = Or(@, image), !.resources = Or(@, "vector"), !.podTemplate.account = "vector"]
DefaultGatewayApp(app, image) == [app EXCEPT !.image = Or(@, image)]

ApplyLogicFlowRuntimeDefaults(rt) == [rt EXCEPT !.app = DefaultRunnerApp(@)]

DefaultPersistence(p) ==
    IF ~HasPersistence(p) THEN p
    ELSE [p EXCEPT !.postgresql.userKey = userKey(p.postgresql),
                   !.postgresql.passwordKey = passwordKey(p.postgresql)]

DefaultDataIndex(di, rel) ==
    IF ~di.enabled THEN di
    ELSE [di EXCEPT !.app = DefaultDataIndexApp(@, Image("data-index", Nil, rel)),
                    !.persistence = DefaultPersistence(@)]

\* Mutant: the platform's namespace is added to the watched ones.
DefaultVectorAdding(v, ns) ==
    IF v = Nil \/ ~v.enabled THEN v
    ELSE [v EXCEPT !.app.image = Or(@, Image("vector", Nil, 0)), !.app.resources = Or(@, "vector"),
                   !.watchNamespaces = <<ns>> \o Or(@, <<>>), !.app.podTemplate.account = "vector"]

\* Vector's image has a version of its own.
DefaultVector(v, ns) ==
    IF v = Nil \/ ~v.enabled THEN v
    ELSE [v EXCEPT !.app = DefaultVectorApp(@, Image("vector", Nil, 0)), !.watchNamespaces = Or(@, <<ns>>)]

\* Mutant: only a gateway that is exposed is defaulted.
DefaultGatewayExposed(gw, rel) ==
    IF gw = Nil \/ gw.ingress = Nil THEN gw ELSE [gw EXCEPT !.app.image = Or(@, Image("gateway", Nil, rel))]

DefaultGateway(gw, rel) ==
    IF gw = Nil THEN gw ELSE [gw EXCEPT !.app = DefaultGatewayApp(@, Image("gateway", Nil, rel))]

ApplyLogicPlatformDefaults(plat, rel) ==
    LET di == DefaultDataIndex(plat.dataIndex, rel)
    IN [plat EXCEPT !.dataIndex = [di EXCEPT !.vector = DefaultVector(di.vector, plat.namespace)],
                    !.gateway = DefaultGateway(@, rel)]

\* Mutant: the runner's image is filled in where it is stored.
DefaultStoringImage(o, rel) ==
    CASE o.kind = "LogicFlowRuntime" ->
            [ApplyLogicFlowRuntimeDefaults(o) EXCEPT
                !.app.image = Or(@, Image("runner", IF HasPersistence(o.persistence) THEN "standard" ELSE "minimal", rel))]
      [] o.kind = "LogicPlatform" -> ApplyLogicPlatformDefaults(o, rel)
      [] OTHER -> o

Default(o, rel) ==
    CASE o.kind = "LogicFlowRuntime" -> ApplyLogicFlowRuntimeDefaults(o)
      [] o.kind = "LogicPlatform" -> ApplyLogicPlatformDefaults(o, rel)
      [] OTHER -> o

-----------------------------------------------------------------------------
(* Validation                                                              *)

ValidateSecuritySpec(sec) ==
    CASE sec.type = "API_KEY" -> sec.apiKeys # <<>>
      [] sec.type = "OIDC" -> sec.oidc # Nil /\ sec.oidc.server # Nil /\ sec.oidc.client # Nil
      [] OTHER -> TRUE

\* Of the operator's own runner images, the variant has to suit.
ValidateRunnerImage(image, p) ==
    image.repo = "runner" => /\ ~(image.variant = "minimal" /\ HasPersistence(p))
                             /\ ~(image.variant = "standard" /\ ~HasPersistence(p))

ValidateRuntime(rt) ==
    /\ ValidateSecuritySpec(rt.security)
    /\ rt.app.image # Nil => ValidateRunnerImage(rt.app.image, rt.persistence)

\* Mutant: a secret and cert-manager may come together.
ValidateTLSLoosely(tls) == tls.enabled => (tls.issuer # Nil => tls.issuer.name # Nil)

\* Shared by the three kinds: one source of certificates, and a named issuer.
ValidateTLS(tls) ==
    tls.enabled => /\ tls.secret = Nil \/ tls.issuer = Nil
                   /\ tls.issuer # Nil => tls.issuer.name # Nil

ValidateImageFormat(image) == image.wellFormed

\* Mutant: persistence may be missing.
ValidatePersistenceIfAny(p) == HasPersistence(p) => p.postgresql.secret # Nil

ValidatePersistence(p) ==
    /\ HasPersistence(p)
    /\ \A x \in {p.postgresql.secret, p.postgresql.service, p.postgresql.schema, p.postgresql.database} : x # Nil

validateIngress(ingress) ==
    ingress # Nil => (ingress.enabled => ingress.host # Nil) /\ ValidateTLS(ingress.tls)

validateWorkflowGateway(gw) ==
    gw # Nil => /\ gw.app.image # Nil => ValidateImageFormat(gw.app.image)
                /\ gw.ingress # Nil /\ gw.ingress.enabled => gw.ingress.host # Nil /\ ValidateTLS(gw.ingress.tls)

\* The check for a second platform in the namespace is in module Platform.
ValidatePlatform(plat) ==
    LET di == plat.dataIndex
    IN /\ di.enabled => /\ ValidatePersistence(di.persistence)
                        /\ di.app.image # Nil => ValidateImageFormat(di.app.image)
                        /\ validateIngress(di.ingress)
       /\ validateWorkflowGateway(plat.gateway)

Valid(o) ==
    CASE o.kind = "LogicFlowRuntime" -> ValidateRuntime(o)
      [] o.kind = "LogicPlatform" -> ValidatePlatform(o)
      [] o.kind = "LogicFlowService" -> ValidateTLS(o.ingress.tls)

-----------------------------------------------------------------------------
(* Ingresses and Routes                                                    *)

\* cert-manager's annotation depends on the kind of issuer.
CertManagerAnnotation(issuer) ==
    [k \in {IF issuer.kind \in {Nil, "ClusterIssuer"} THEN "cert-manager.io/cluster-issuer"
            ELSE "cert-manager.io/issuer"} |-> issuer.name]

Annotations(ingress) ==
    IF ingress.tls.enabled /\ ingress.tls.issuer # Nil
    THEN MergeMaps(ingress.annotations, CertManagerAnnotation(ingress.tls.issuer)) ELSE ingress.annotations

TLSSecret(tls, generated) ==
    IF ~tls.enabled THEN Nil
    ELSE IF tls.secret # Nil THEN <<tls.secret>>
    ELSE IF tls.issuer # Nil THEN generated ELSE Nil

\* The backend is the platform's name, without the suffix of the Service.
ingressForDataIndex(plat) ==
    LET ingress == plat.dataIndex.ingress
    IN [name |-> dataIndexName(plat), front |-> "Ingress", backend |-> <<plat.name>>, port |-> 80,
        annotations |-> Annotations(ingress), secret |-> TLSSecret(ingress.tls, <<plat.name, "tls">>),
        certificate |-> Nil, spec |-> ingress]

routeForDataIndex(plat) ==
    LET ingress == plat.dataIndex.ingress
    IN [name |-> dataIndexName(plat), front |-> "Route", backend |-> dataIndexName(plat), port |-> 80,
        annotations |-> ingress.annotations, secret |-> Nil, certificate |-> Nil, spec |-> ingress]

\* The gateway names the issuer's kind in a second annotation, and cert-manager's
\* secret replaces the user's.
ingressForGateway(plat) ==
    LET ingress == plat.gateway.ingress
        issuer == IF ingress.tls.enabled /\ ingress.tls.issuer # Nil /\ ingress.tls.issuer.name # Nil
                  THEN ingress.tls.issuer ELSE Nil
        certificate == [k \in {"cert-manager.io/issuer"} \cup (IF issuer.kind = Nil THEN {} ELSE {"cert-manager.io/issuer-kind"})
                          |-> IF k = "cert-manager.io/issuer" THEN issuer.name ELSE issuer.kind]
    IN [name |-> gatewayName(plat), front |-> "Ingress", backend |-> gatewayName(plat), port |-> 80,
        annotations |-> IF issuer = Nil THEN ingress.annotations ELSE MergeMaps(ingress.annotations, certificate),
        secret |-> IF issuer # Nil THEN <<plat.name, "workflow-gateway", "tls-cert">>
                   ELSE TLSSecret(ingress.tls, Nil),
        certificate |-> Nil, spec |-> ingress]

\* Mutant: the Route leads to the platform's name.
routeForGatewayUnsuffixed(plat) ==
    [name |-> gatewayName(plat), front |-> "Route", backend |-> <<plat.name>>, port |-> 80,
     annotations |-> <<>>, secret |-> Nil, certificate |-> Nil, spec |-> plat.gateway.ingress]

\* The user's annotations are not copied.  A Route holds a certificate itself;
\* the place for its text is given the name of the Secret.
routeForGateway(plat) ==
    [name |-> gatewayName(plat), front |-> "Route", backend |-> gatewayName(plat), port |-> 80,
     annotations |-> <<>>, secret |-> Nil, spec |-> plat.gateway.ingress,
     certificate |-> LET tls == plat.gateway.ingress.tls
                     IN IF tls.enabled /\ tls.secret # Nil THEN <<"name", tls.secret>> ELSE Nil]

\* The part of a LogicFlowService's first Ingress that is about TLS; module
\* FlowService has the routing, and the other Ingresses, which share its secret.
ingressForService(svc) ==
    [name |-> <<svc.name>>, front |-> "Ingress", backend |-> <<svc.runtime>>, port |-> 80,
     annotations |-> Annotations(svc.ingress), secret |-> TLSSecret(svc.ingress.tls, <<svc.name, "tls">>),
     certificate |-> Nil, spec |-> svc.ingress]

-----------------------------------------------------------------------------
(* What a reconcile applies                                                *)

Nothing == [workloads |-> {}, services |-> {}, fronts |-> {}, accounts |-> {}, configMaps |-> {}]

Both(a, b) == [k \in DOMAIN a |-> a[k] \cup b[k]]

RuntimeObjects(rt, rel) ==
    [Nothing EXCEPT !.workloads = {RunnerDeployment(rt, rel)}, !.services = {QuarkusService(<<rt.name>>)},
                    !.accounts = IF rt.persistence # Nil THEN {<<rt.name>>} ELSE {},
                    !.configMaps = {<<rt.flows[i]>> : i \in DOMAIN rt.flows}]

DataIndexObjects(plat, onOpenShift) ==
    LET di == plat.dataIndex
    IN IF ~di.enabled THEN Nothing
       ELSE [Nothing EXCEPT !.workloads = {DataIndexDeployment(plat)},
                            !.services = {QuarkusService(dataIndexName(plat))},
                            !.fronts = IF di.ingress = Nil \/ ~di.ingress.enabled THEN {}
                                       ELSE {IF onOpenShift THEN routeForDataIndex(plat) ELSE ingressForDataIndex(plat)}]

VectorObjects(plat) ==
    IF plat.dataIndex.vector = Nil \/ ~plat.dataIndex.vector.enabled THEN Nothing
    ELSE [Nothing EXCEPT !.workloads = {VectorDaemonSet(plat)}, !.services = {VectorService(plat)},
                         !.accounts = {vectorName(plat)}, !.configMaps = {vectorName(plat)}]

GatewayObjects(plat, onOpenShift) ==
    IF plat.gateway = Nil THEN Nothing
    ELSE [Nothing EXCEPT !.workloads = {GatewayDeployment(plat)}, !.services = {serviceForGateway(plat)},
                         !.accounts = {gatewayName(plat)},
                         !.fronts = IF plat.gateway.ingress = Nil \/ ~plat.gateway.ingress.enabled THEN {}
                                    ELSE {IF onOpenShift THEN routeForGateway(plat) ELSE ingressForGateway(plat)}]

Render(o, rel, onOpenShift) ==
    CASE o.kind = "LogicFlowRuntime" -> RuntimeObjects(o, rel)
      [] o.kind = "LogicPlatform" -> Both(DataIndexObjects(o, onOpenShift), Both(VectorObjects(o), GatewayObjects(o, onOpenShift)))
      [] o.kind = "LogicFlowService" -> [Nothing EXCEPT !.fronts = {ingressForService(o)}]

-----------------------------------------------------------------------------
Init ==
    /\ obj \in Objects /\ phase = "submitted" /\ admitted = FALSE
    /\ release = 1 /\ openShift \in BOOLEAN /\ out = Nothing

\* A write goes through the mutating and then the validating webhook.
Admit ==
    /\ phase \in {"submitted", "stored", "applied"}
    /\ IF Valid(Default(obj, release))
       THEN obj' = Default(obj, release) /\ phase' = "stored" /\ admitted' = TRUE
       ELSE /\ phase' = IF phase = "submitted" THEN "refused" ELSE phase
            /\ UNCHANGED <<obj, admitted>>
    /\ UNCHANGED <<release, openShift, out>>

\* An object from before the webhooks served.
StoreUnseen ==
    /\ phase = "submitted"
    /\ phase' = "stored"
    /\ UNCHANGED <<obj, admitted, release, openShift, out>>

\* The controller defaults its copy and applies what it builds from it.
Reconcile ==
    /\ phase = "stored"
    /\ out' = Render(Default(obj, release), release, openShift)
    /\ phase' = "applied"
    /\ UNCHANGED <<obj, admitted, release, openShift>>

\* A new release reconciles everything again.
Upgrade ==
    /\ phase = "applied" /\ release < MaxRelease
    /\ release' = release + 1 /\ phase' = "stored"
    /\ UNCHANGED <<obj, admitted, openShift, out>>

Next == Admit \/ StoreUnseen \/ Reconcile \/ Upgrade

Spec == Init /\ [][Next]_vars

-----------------------------------------------------------------------------
(* Properties                                                              *)

\* Every container that is applied has an image and a liveness probe.
TypeOK ==
    /\ obj.kind \in {"LogicFlowRuntime", "LogicPlatform", "LogicFlowService"}
    /\ phase \in {"submitted", "refused", "stored", "applied"} /\ admitted \in BOOLEAN
    /\ release \in 1..MaxRelease /\ openShift \in BOOLEAN
    /\ \A w \in out.workloads : w.template.main.image # Nil /\ w.template.main.liveness # Nil

Applied == phase = "applied"
Accepted == Applied /\ admitted

\* What a user wrote about the pods of an object.
Apps(o) ==
    CASE o.kind = "LogicFlowRuntime" -> {o.app}
      [] o.kind = "LogicPlatform" -> {o.dataIndex.app} \cup (IF o.dataIndex.vector = Nil THEN {} ELSE {o.dataIndex.vector.app})
                                     \cup (IF o.gateway = Nil THEN {} ELSE {o.gateway.app})
      [] OTHER -> {}
Containers(o)  == UNION {{a.container, a.podTemplate.container} : a \in Apps(o)}
UserNames(o)   == UNION {{c.env[i].name : i \in DOMAIN c.env} : c \in Containers(o)}
UserMounts(o)  == UNION {Elements(c.mounts) : c \in Containers(o)}
UserVolumes(o) == UNION {Elements(a.podTemplate.volumes) : a \in Apps(o)}

\* Variables of API keys that were given the same name.
SameKeyVariables(o) ==
    LET keys == IF o.kind = "LogicFlowRuntime" THEN o.security.apiKeys ELSE <<>>
        repeated == {keys[i].name : i \in {k \in DOMAIN keys : \E j \in DOMAIN keys \ {k} : keys[j].name = keys[k].name}}
    IN {KeyVariable(name, part) : name \in repeated, part \in {"SECRET", "ROLES", "NAMESPACES"}}

\* Defaulting is settled after the first time: what is accepted once is not
\* refused, and not applied differently, because it is written or reconciled
\* once more, also by a later release.
AdmissionIsStable ==
    admitted => Default(obj, release) = obj /\ Valid(obj)

\* Server-side apply refuses a list with the same key twice.  The operator
\* never names the main container or a variable twice of its own accord, and
\* whatever the user says of the variables that it keeps for itself, they are
\* there once.  Nothing keeps users from giving two API keys one name.
ListsHaveNoDuplicates ==
    Applied => \A w \in out.workloads :
        LET containers == w.template.containers
            env == w.template.main.env
        IN /\ \A i \in DOMAIN containers : containers[i] = containers[1] => i = 1
           /\ \A i, j \in DOMAIN env : i # j /\ env[i].name = env[j].name =>
                /\ env[i].name \in UserNames(obj) \cup SameKeyVariables(obj)
                /\ obj.kind = "LogicFlowRuntime" =>
                     /\ env[i].name # SourcePath
                     /\ obj.persistence # Nil => env[i].name \notin Immutable

\* What the operator mounts, runs as and reads is there: each mount has a volume, each
\* ConfigMap and each account that is named is applied too, unless it is the user who
\* named it.  Vector depends on the persistence that admission asks of the Data Index.
ReferencesResolve ==
    Accepted /\ (obj.kind = "LogicPlatform" => obj.dataIndex.enabled) =>
        \A w \in out.workloads :
            LET volumes == Elements(w.template.volumes)
            IN /\ \A m \in Elements(w.template.main.mounts) :
                    m \in UserMounts(obj) \/ \E v \in volumes : v.name = m
               /\ \A v \in volumes : v \in UserVolumes(obj) \/ v.configMap \in out.configMaps \cup {Nil}
               /\ \/ w.template.account \in out.accounts \cup {Nil}
                  \/ w.template.account \in {<<a.podTemplate.account>> : a \in Apps(obj)}

\* A runner image of the operator's suits the persistence, whether the user
\* named it or not.
ImageFitsPersistence ==
    Accepted /\ obj.kind = "LogicFlowRuntime"
    /\ obj.app.container.image = Nil /\ obj.app.podTemplate.container.image = Nil =>
        \A w \in out.workloads :
            LET image == w.template.main.image
            IN image.repo = "runner" => /\ image.variant = "standard" => HasPersistence(obj.persistence)
                                        /\ image.variant = "minimal" => ~HasPersistence(obj.persistence)

\* A runner nobody chose an image for is the one of the operator that runs,
\* also after an upgrade.
RunnerFollowsRelease ==
    Applied /\ obj.kind = "LogicFlowRuntime" =>
        \A w \in out.workloads :
            w.template.main.image.repo = "runner" /\ w.template.main.image.release > 0
                => w.template.main.image.release = release

\* Selectors find the pods they are meant for, whatever labels the owner has,
\* unless the pod template relabels them.
SelectorsFindPods ==
    Applied /\ (\A a \in Apps(obj) : "name" \notin DOMAIN a.podTemplate.labels) =>
      \A w \in out.workloads :
        \E s \in out.services : /\ s.selector = w.selector
                                /\ \A k \in DOMAIN s.selector : w.template.labels[k] = s.selector[k]

\* An Ingress or a Route leads to a Service that exists, on its port.  The
\* Data Index's Ingress does not.
FrontsLeadSomewhere ==
    Applied /\ obj.kind = "LogicPlatform" => \A f \in out.fronts :
        \/ f.front = "Ingress" /\ f.name = dataIndexName(obj)
        \/ \E s \in out.services : s.name = f.backend /\ s.port = f.port

CertManagerKeys == {"cert-manager.io/cluster-issuer", "cert-manager.io/issuer", "cert-manager.io/issuer-kind"}

\* cert-manager, reading the annotations a of an Ingress, turns to this issuer:
\* one of the cluster, or one of the namespace unless a says otherwise.
Addressed(a, issuer) ==
    \/ /\ "cert-manager.io/cluster-issuer" \in DOMAIN a
       /\ a["cert-manager.io/cluster-issuer"] = issuer.name /\ issuer.kind = "ClusterIssuer"
    \/ /\ "cert-manager.io/issuer" \in DOMAIN a /\ a["cert-manager.io/issuer"] = issuer.name
       /\ issuer.kind = IF "cert-manager.io/issuer-kind" \in DOMAIN a
                        THEN a["cert-manager.io/issuer-kind"] ELSE "Issuer"

\* A user's own annotations are not cert-manager's, and the issuer's kind is one
\* of the two that the API server lets through or fills in.
IssuerFromSpec(ingress) ==
    /\ ingress.tls.issuer # Nil /\ ingress.tls.issuer.kind \in {"Issuer", "ClusterIssuer"}
    /\ DOMAIN ingress.annotations \cap CertManagerKeys = {}

\* An Ingress with TLS serves the certificate of the user's Secret, or names a
\* Secret for one that it makes cert-manager ask the right issuer for, whichever
\* of the three builders made it.  Routes are left out: theirs have the Secret's
\* name where the certificate belongs, or nothing of the user's.
IngressServesCertificateAskedFor ==
    Accepted => \A f \in out.fronts : f.front = "Ingress" /\ f.spec.tls.enabled =>
        /\ f.spec.tls.secret # Nil => f.secret = <<f.spec.tls.secret>>
        /\ IssuerFromSpec(f.spec) => f.secret # Nil /\ Addressed(f.annotations, f.spec.tls.issuer)

\* Where a host name leads from a pod of namespace ns.
Resolved(host, ns) == IF Len(host) = 1 /\ host[1] \in Services THEN <<host[1], ns>> ELSE host

ValueOf(w, n) == w.template.main.env[CHOOSE i \in DOMAIN w.template.main.env : w.template.main.env[i].name = n].value

\* Vector writes into the database, and with the credentials, that the Data
\* Index reads from.  Not so for a host outside the cluster: only the Data
\* Index takes it as it is.
SameDatabase ==
    Accepted /\ obj.kind = "LogicPlatform" =>
        \A v, d \in out.workloads :
            /\ v.selector = SelectorLabels(vectorName(obj)) /\ d.selector = SelectorLabels(dataIndexName(obj))
            /\ UserNames(obj) = {} /\ obj.dataIndex.persistence.postgresql.service \in Services
            => LET url == ValueOf(d, <<"QUARKUS_DATASOURCE_JDBC_URL">>)
               IN /\ Resolved(url.address.host, obj.namespace) = Resolved(ValueOf(v, <<"POSTGRES_HOST">>).host, obj.namespace)
                  /\ url.address.port = ValueOf(v, <<"POSTGRES_PORT">>) /\ url.database = ValueOf(v, <<"POSTGRES_DB">>)
                  /\ ValueOf(d, <<"QUARKUS_DATASOURCE_USERNAME">>) = ValueOf(v, <<"POSTGRES_USER">>)
                  /\ ValueOf(d, <<"QUARKUS_DATASOURCE_PASSWORD">>) = ValueOf(v, <<"POSTGRES_PASSWORD">>)
                  /\ \A i \in DOMAIN url.query : url.query[i].sep = IF i = 1 THEN "?" ELSE "&"

=============================================================================
