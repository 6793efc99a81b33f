------------------------------ MODULE Platform ------------------------------
(***************************************************************************)
(* The LogicPlatform controller and webhook: one worker that reconciles    *)
(* the Data Index, Vector and the workflow gateway of each platform, in    *)
(* three phases.  A component is a list of API calls; a call that fails    *)
(* ends its component, and the others go on.                               *)
(*                                                                         *)
(* Objects are named after the platform and live in its namespace, except  *)
(* the two ClusterRoleBindings, which are named by VectorName and          *)
(* BindingName.  An object is who it was made for and what its controller  *)
(* reports of it.  "Ingress" is a Route on OpenShift.                      *)
(***************************************************************************)
EXTENDS Naturals, Sequences, FiniteSets, FiniteSetsExt

CONSTANTS
    Platforms,    \* namespaced names of platforms
    NsOf,         \* [Platforms -> namespaces]
    VectorName,   \* [Platforms -> names]: the name alone, without the namespace
    BindingName,  \* [Platforms -> names]: namespace and name joined by a dash
    NoOne, User,  \* nobody, and whoever is not the operator
    Scenarios     \* what users do, and the bounds of that

PlatSpec == [dataIndex : BOOLEAN, exposed : BOOLEAN, vector : BOOLEAN,
             gateway : {"off", "on", "exposed"}, valid : BOOLEAN]

DataIndexKinds == {"diDeployment", "diService", "diIngress"}
VectorKinds    == {"vAccount", "vBinding", "vConfigMap", "vDaemonSet", "vService"}
GatewayKinds   == {"gwAccount", "gwBinding", "gwDeployment", "gwService", "gwIngress"}
Kinds     == DataIndexKinds \cup VectorKinds \cup GatewayKinds
Parts     == {DataIndexKinds, VectorKinds, GatewayKinds}
Workloads == {"diDeployment", "vDaemonSet", "gwDeployment"}
Databases == {"ok", "unreachable", "missing"}   \* missing: its Secret or its Service

\* specs[p]: the specs that users give p; stored: specs of platforms stored before the
\* webhook was there; touched: kinds of objects that users delete or put in the way;
\* edits, faults: bounds of changes by users and the cluster, and of failing calls and
\* restarts.
Scenario(sc) == /\ sc.specs \in [Platforms -> SUBSET PlatSpec] /\ sc.stored \subseteq PlatSpec
                /\ sc.touched \subseteq Kinds /\ sc.edits \in Nat /\ sc.faults \in Nat

ASSUME PlatformConstants ==
    /\ NoOne \notin Platforms /\ User \notin Platforms /\ User # NoOne
    /\ \A sc \in Scenarios : Scenario(sc)

VARIABLES
    plat, obj,    \* the API server's platforms and other objects
    db,           \* the database: read, and not watched
    cache,        \* the informers' copies of plat and obj; the webhook reads them too
    news,         \* what the informers have not heard of yet
    queue,        \* platforms in the work queue
    w,            \* the worker
    stray,        \* history: has a finalizer gone onto a platform that was not the one read?
    sc,           \* the scenario
    edits, faults \* changes and failures that are left of it

vars == <<plat, obj, db, cache, news, queue, w, stray, sc, edits, faults>>

-----------------------------------------------------------------------------
\* Where the objects of a platform are.
Key(kind, p) == CASE kind = "vBinding"  -> <<kind, VectorName[p]>>
                  [] kind = "gwBinding" -> <<kind, BindingName[p]>>
                  [] OTHER              -> <<kind, p>>
Keys == {Key(kind, p) : kind \in Kinds, p \in Platforms}
Clusterwide(k) == k[1] \in {"vBinding", "gwBinding"}

\* Informers: one of platforms, one of bindings, and those of the other objects, which are
\* taken to be equally far behind.
Streams   == {"namespaced", "bindings"}
Stream(k) == IF Clusterwide(k) THEN "bindings" ELSE "namespaced"

\* An event of an object is not mistaken for one of a platform.
ASSUME EventNames == Platforms \cap (Streams \X (Platforms \cup {NoOne})) = {}

Reports  == {"progressing", "ready", "deadline"}
Nothing  == [by |-> NoOne, uid |-> 0, st |-> "progressing"]
Object   == [by : Platforms \cup {NoOne, User}, uid : Nat, st : Reports]
There(o) == o.by # NoOne

\* A component's condition: not set, True, False, or False for a missed deadline.
Conds    == {"none", "True", "False", "deadline"}
NoStatus == [og |-> 0, di |-> "none", vec |-> "none", gw |-> "none", ref |-> FALSE,
             endpoint |-> "none", url |-> FALSE, phase |-> "none"]
Status   == [og : Nat, di : Conds, vec : Conds, gw : Conds, ref : BOOLEAN,
             endpoint : {"none", "internal", "external"}, url : BOOLEAN,
             phase : {"none", "Ready", "Pending", "Failed"}]
NoSpec   == [dataIndex |-> FALSE, exposed |-> FALSE, vector |-> FALSE,
             gateway |-> "off", valid |-> FALSE]
NoPlat   == [uid |-> 0, gen |-> 0, spec |-> NoSpec, fin |-> FALSE, del |-> FALSE,
             status |-> NoStatus]
LogicPlatform == [uid : Nat, gen : Nat, spec : PlatSpec, fin : BOOLEAN, del : BOOLEAN,
                  status : Status]
Exists(pl) == pl.uid # 0

Idle == [p |-> NoOne, obj |-> NoPlat, comp |-> 0, todo |-> <<>>, err |-> FALSE]

\* A platform may have been stored before the webhook could look at it.
Init ==
    /\ sc \in Scenarios
    /\ \E ps \in SUBSET {p \in Platforms : sc.specs[p] # {}} : \E s \in [ps -> sc.stored] :
           plat = [p \in Platforms |->
               IF p \in ps THEN [NoPlat EXCEPT !.uid = 1, !.gen = 1, !.spec = s[p]] ELSE NoPlat]
    /\ obj = [k \in Keys |-> Nothing] /\ db \in {"ok"}
    /\ cache = [plat |-> plat, obj |-> obj] /\ news = {}
    /\ queue = {p \in Platforms : Exists(plat[p])}
    /\ w = Idle /\ stray = FALSE /\ edits = sc.edits /\ faults = sc.faults

\* Mutant: an event wakes whoever is written on the object.
RequestsOfAnybody(k, o) == {o.by}

\* Mutant: the controller does not own Deployments.
RequestsButDeployments(k, o) == IF k[1] = "gwDeployment" THEN {NoOne} ELSE {o.by} \ {User}

\* Events of owned objects, and of bindings by their two labels, wake the platform
\* they name; Vector's binding has an owner and no such labels.
Requests(k, o) == IF k[1] = "vBinding" THEN {NoOne} ELSE {o.by} \ {User}

\* What this step changes on the API server is news, with whom it wakes.
Notify == news' = news \cup {p \in Platforms : plat'[p] # plat[p]}
                       \cup UNION {{Stream(k)} \X (Requests(k, obj[k]) \cup Requests(k, obj'[k])) :
                                        k \in {x \in Keys : obj'[x] # obj[x]}}

-----------------------------------------------------------------------------
(* The webhook                                                             *)

\* No other platform of the namespace is in the cache.
validateSingleton(p) ==
    \A q \in Platforms \ {p} : NsOf[q] = NsOf[p] => ~Exists(cache.plat[q])

\* Mutant: only the creation of a platform is compared with the other platforms.
validateFieldsOfUpdate(p, s) == (Exists(plat[p]) \/ validateSingleton(p)) /\ s.valid

\* Every write of a platform but that of its status is reviewed, the operator's
\* own patches included.
validate(p, s) == validateSingleton(p) /\ s.valid

-----------------------------------------------------------------------------
(* Users and the cluster                                                   *)

Edit == edits > 0 /\ edits' = edits - 1

Created(s) == [NoPlat EXCEPT !.uid = 1 + edits, !.gen = 1, !.spec = s]
Respecified(pl, s) == [pl EXCEPT !.spec = s, !.gen = @ + 1]
Marked(pl) == [pl EXCEPT !.del = TRUE, !.gen = @ + 1]

CreatePlatform(p, s) ==
    /\ ~Exists(plat[p]) /\ validate(p, s) /\ Edit
    /\ plat' = [plat EXCEPT ![p] = Created(s)]
    /\ UNCHANGED <<obj, db, cache, queue, w, faults, stray, sc>> /\ Notify

UpdatePlatform(p, s) ==
    /\ Exists(plat[p]) /\ plat[p].spec # s /\ validate(p, s) /\ Edit
    /\ plat' = [plat EXCEPT ![p] = Respecified(plat[p], s)]
    /\ UNCHANGED <<obj, db, cache, queue, w, faults, stray, sc>> /\ Notify

\* A platform with a finalizer is only marked.
DeletePlatform(p) ==
    /\ Exists(plat[p]) /\ ~plat[p].del /\ Edit
    /\ plat' = [plat EXCEPT ![p] = IF @.fin THEN Marked(plat[p]) ELSE NoPlat]
    /\ UNCHANGED <<obj, db, cache, queue, w, faults, stray, sc>> /\ Notify

\* Somebody deletes an object, or creates one of that name.
TouchObject(k) ==
    /\ k[1] \in sc.touched /\ Edit
    /\ obj' = [obj EXCEPT ![k] = IF There(@) THEN Nothing ELSE [Nothing EXCEPT !.by = User]]
    /\ UNCHANGED <<plat, db, cache, queue, w, faults, stray, sc>> /\ Notify

DatabaseChanges(d) ==
    /\ db # d /\ Edit /\ db' = d
    /\ UNCHANGED <<plat, obj, cache, news, queue, w, faults, stray, sc>>

\* The controller of a workload reports on it.
Report(k, r) ==
    /\ k[1] \in Workloads /\ There(obj[k]) /\ obj[k].st # r /\ Edit
    /\ obj' = [obj EXCEPT ![k].st = r]
    /\ UNCHANGED <<plat, db, cache, queue, w, faults, stray, sc>> /\ Notify

\* The garbage collector removes what is left of a component when its owner is gone.  It
\* never removes an object of the cluster for an owner that lives in a namespace.
Garbage(kinds) == {k \in Keys : /\ k[1] \in kinds /\ ~Clusterwide(k)
                                /\ obj[k].by \in Platforms /\ plat[obj[k].by].uid # obj[k].uid}
CollectGarbage(kinds) ==
    /\ Garbage(kinds) # {}
    /\ obj' = [k \in Keys |-> IF k \in Garbage(kinds) THEN Nothing ELSE obj[k]]
    /\ UNCHANGED <<plat, db, cache, queue, w, edits, faults, stray, sc>> /\ Notify

-----------------------------------------------------------------------------
(* Informers                                                               *)

DeliverPlatform(p) ==
    /\ p \in news
    /\ cache' = [cache EXCEPT !.plat[p] = plat[p]]
    /\ news' = news \ {p} /\ queue' = queue \cup {p}
    /\ UNCHANGED <<plat, obj, db, w, edits, faults, stray, sc>>

DeliverObjects(i) ==
    LET heard == {e \in news : e \notin Platforms /\ e[1] = i}
    IN  /\ heard # {}
        /\ cache' = [cache EXCEPT !.obj = [k \in Keys |-> IF Stream(k) = i THEN obj[k] ELSE @[k]]]
        /\ queue' = queue \cup ({e[2] : e \in heard} \ {NoOne})
        /\ news' = news \ heard
        /\ UNCHANGED <<plat, obj, db, w, edits, faults, stray, sc>>

-----------------------------------------------------------------------------
(* The components, as lists of calls                                       *)

Do(op, kind) == [op |-> op, kind |-> kind]
Finalizer(op) == [op |-> op, kind |-> "finalizer"]

applyDataIndexDeployment == Do("apply", "diDeployment")
applyDataIndexService == Do("apply", "diService")
applyDataIndexIngress(pl) == Do(IF pl.spec.exposed THEN "apply" ELSE "delete", "diIngress")

\* A Data Index that is disabled is left as it is.
reconcileDataIndex(pl) ==
    IF ~pl.spec.dataIndex THEN <<>>
    ELSE <<applyDataIndexDeployment, applyDataIndexService, applyDataIndexIngress(pl)>>

deleteVectorResources ==
    <<Do("delete", "vDaemonSet"), Do("delete", "vService"), Do("delete", "vConfigMap"),
      Do("delete", "vAccount"), Do("delete", "vBinding")>>

applyVectorConfigMap == Do("apply", "vConfigMap")
applyVectorWorkload == <<Do("apply", "vDaemonSet"), Do("apply", "vService")>>

reconcileVectorRBAC == <<Do("create", "vAccount"), Do("create", "vBinding")>>

reconcileVector(pl) ==
    IF ~pl.spec.vector THEN deleteVectorResources
    ELSE reconcileVectorRBAC \o <<applyVectorConfigMap>> \o applyVectorWorkload

\* Mutant: the finalizer is forgotten.
deleteWorkflowGatewayObjects(pl) ==
    <<Do("deleteOwned", "gwIngress"), Do("deleteChecked", "gwService"),
      Do("deleteChecked", "gwDeployment"), Do("deleteChecked", "gwBinding"),
      Do("deleteChecked", "gwAccount")>>

deleteWorkflowGatewayResources(pl) ==
    <<Do("deleteOwned", "gwIngress"), Do("deleteChecked", "gwService"),
      Do("deleteChecked", "gwDeployment"), Do("deleteChecked", "gwBinding"),
      Do("deleteChecked", "gwAccount")>>
    \o IF pl.fin THEN <<Finalizer("remove")>> ELSE <<>>

applyGatewayAccess == <<Do("applyChecked", "gwAccount"), Do("apply", "gwBinding")>>
applyGatewayWorkload == <<Do("applyChecked", "gwDeployment"), Do("applyChecked", "gwService")>>
applyGatewayIngress(pl) ==
    Do(IF pl.spec.gateway = "exposed" THEN "apply" ELSE "deleteOwned", "gwIngress")

applyGateway(pl) == applyGatewayAccess \o applyGatewayWorkload \o <<applyGatewayIngress(pl)>>

\* Mutant: the finalizer is added with the first objects only.
reconcileWorkflowGatewayOnce(pl) ==
    IF pl.del THEN IF pl.fin THEN deleteWorkflowGatewayResources(pl) ELSE <<>>
    ELSE IF pl.spec.gateway = "off" THEN deleteWorkflowGatewayResources(pl)
    ELSE IF pl.fin \/ pl.status.gw # "none" THEN applyGateway(pl) ELSE <<Finalizer("add")>>

reconcileWorkflowGateway(pl) ==
    IF pl.del THEN IF pl.fin THEN deleteWorkflowGatewayResources(pl) ELSE <<>>
    ELSE IF pl.spec.gateway = "off" THEN deleteWorkflowGatewayResources(pl)
    ELSE IF pl.fin THEN applyGateway(pl) ELSE <<Finalizer("add")>>

components == <<reconcileDataIndex(w.obj), reconcileVector(w.obj), reconcileWorkflowGateway(w.obj)>>
UpdatePhase == 4
WritePhase  == 5

-----------------------------------------------------------------------------
(* Reconcile                                                               *)

\* Goes on to the next component that has calls to make, or to phase 2.
Proceed(wk, comps) ==
    LET rest == {c \in (wk.comp + 1)..3 : comps[c] # <<>>}
    IN  IF wk.todo # <<>> THEN wk
        ELSE IF rest = {} THEN [wk EXCEPT !.comp = UpdatePhase]
        ELSE [wk EXCEPT !.comp = Min(rest), !.todo = comps[Min(rest)]]

\* Mutant: the error of a component is logged and not joined.
AbandonAndForget == w' = Proceed([w EXCEPT !.todo = <<>>], components)

Continue == w' = Proceed([w EXCEPT !.todo = Tail(@)], components)
Abandon  == w' = Proceed([w EXCEPT !.todo = <<>>, !.err = TRUE], components)
Fault    == faults > 0 /\ faults' = faults - 1

\* Get of the platform, from the cache.
Begin(p) ==
    /\ w = Idle /\ p \in queue
    /\ queue' = queue \ {p}
    /\ LET pl == cache.plat[p]
           start == [Idle EXCEPT !.p = p, !.obj = pl]
       IN  w' = IF Exists(pl)
                THEN Proceed(start, <<reconcileDataIndex(pl), reconcileVector(pl),
                                      reconcileWorkflowGateway(pl)>>)
                ELSE Idle
    /\ UNCHANGED <<plat, obj, db, cache, news, edits, faults, stray, sc>>

Calling(ops) == w.todo # <<>> /\ Head(w.todo).op \in ops
CallKey == Key(Head(w.todo).kind, w.p)

\* Is the object, as the cache has it, the platform's own?  A binding of the gateway
\* has no owner and is recognised by its labels.
hasOwner(o) == /\ o.by = w.p
               /\ CallKey[1] # "gwBinding" => o.uid = w.obj.uid
Foreign == There(cache.obj[CallKey]) /\ ~hasOwner(cache.obj[CallKey])

\* Server-side apply with forced ownership; the object keeps what is reported of it.
Applied(o, k) == [o EXCEPT !.by = w.p, !.uid = IF k[1] = "gwBinding" THEN 0 ELSE w.obj.uid]

\* What a call that asks no cache does to an object: Create ignores an object that exists,
\* and Delete goes by name alone.
Effect(op, o, k) == CASE op = "apply" -> Applied(o, k)
                      [] op = "create" -> IF There(o) THEN o ELSE Applied(o, k)
                      [] op = "delete" -> Nothing

Noted(pl) == [pl EXCEPT !.status.ref = pl.spec.exposed]

\* The calls of the Data Index or of Vector, up to the end or to the one that fails.  Only
\* the worker writes these objects, and none of the calls looks at a cache, so that they
\* are one step.  The reference to the ingress is set before the call that makes it.
BlindCalls(n) ==
    /\ w.comp \in {1, 2} /\ w.todo # <<>> /\ n \in 0..Len(w.todo)
    /\ LET done(k) == {i \in 1..n : Key(w.todo[i].kind, w.p) = k}
           failed == n < Len(w.todo)
           noted  == w.comp = 1 /\ n >= Len(w.todo) - 1
       IN  /\ obj' = [k \in Keys |-> IF done(k) = {} THEN obj[k]
                                     ELSE Effect(w.todo[Min(done(k))].op, obj[k], k)]
           /\ IF failed THEN Fault ELSE UNCHANGED faults
           /\ w' = Proceed([w EXCEPT !.todo = <<>>, !.err = @ \/ failed,
                                     !.obj = IF noted THEN Noted(w.obj) ELSE w.obj],
                           components)
    /\ UNCHANGED <<plat, db, cache, queue, edits, stray, sc>> /\ Notify

\* Of the gateway's objects, some are looked up in the cache before they are applied.
ApplyObject ==
    /\ w.comp = 3 /\ Calling({"apply", "applyChecked"})
    /\ IF Head(w.todo).op = "applyChecked" /\ Foreign
       THEN Abandon /\ UNCHANGED obj
       ELSE Continue /\ obj' = [obj EXCEPT ![CallKey] = Applied(@, CallKey)]
    /\ UNCHANGED <<plat, db, cache, queue, edits, faults, stray, sc>> /\ Notify

\* Deletes what the cache has and the platform owns; something else that the cache has
\* is passed over, or is an error.
DeleteObject ==
    /\ Calling({"deleteOwned", "deleteChecked"})
    /\ obj' = [obj EXCEPT ![CallKey] = IF hasOwner(cache.obj[CallKey]) THEN Nothing ELSE @]
    /\ IF Head(w.todo).op = "deleteChecked" /\ Foreign THEN Abandon ELSE Continue
    /\ UNCHANGED <<plat, db, cache, queue, edits, faults, stray, sc>> /\ Notify

\* The response to a patch is decoded into the platform in memory, and what the response
\* leaves out stays as it was: a gateway that was disabled meanwhile, the deletion mark,
\* references and URLs of the status.  Exposure and Vector are off by an omission or by a
\* flag that is written out.
DecodedSpecs(old, new) ==
    {s \in PlatSpec :
        /\ s.dataIndex = new.dataIndex /\ s.valid = new.valid
        /\ s.exposed \in {new.exposed, new.exposed \/ old.exposed}
        /\ s.vector \in {new.vector, new.vector \/ old.vector}
        /\ new.gateway = "off" => s.gateway = old.gateway
        /\ new.gateway = "on" => s.gateway \in {"on", old.gateway} \ {"off"}
        /\ new.gateway = "exposed" => s.gateway = "exposed"}
DecodedStatus(old, new) ==
    IF new = NoStatus THEN old
    ELSE [new EXCEPT !.ref = @ \/ old.ref, !.url = @ \/ old.url,
                     !.endpoint = IF @ = "none" THEN old.endpoint ELSE @]
Decoded(old, new) ==
    {[new EXCEPT !.spec = s, !.del = @ \/ old.del, !.status = DecodedStatus(old.status, @)] :
        s \in DecodedSpecs(old.spec, new.spec)}

\* A merge patch of the object that has the name now, through the webhook.  The code goes
\* on with the gateway it read, whether the platform still asks for one or not.
AddFinalizer ==
    /\ Calling({"add"})
    /\ LET now == plat[w.p]
           new == [now EXCEPT !.fin = TRUE]
       IN  IF Exists(now) /\ (now.del => now.fin) /\ validate(w.p, now.spec)
           THEN /\ plat' = [plat EXCEPT ![w.p] = new]
                /\ \E pl \in Decoded(w.obj, new) : w' = [w EXCEPT !.todo = applyGateway(pl), !.obj = pl]
                /\ stray' = (stray \/ now.uid # w.obj.uid)
           ELSE Abandon /\ UNCHANGED <<plat, stray>>
    /\ UNCHANGED <<obj, db, cache, queue, edits, faults, sc>> /\ Notify

\* The last finalizer to go takes a platform that is being deleted with it.
RemoveFinalizer ==
    /\ Calling({"remove"})
    /\ LET now == plat[w.p]
           new == [now EXCEPT !.fin = FALSE]
       IN  IF Exists(now) /\ validate(w.p, now.spec)
           THEN /\ plat' = [plat EXCEPT ![w.p] = IF now.del THEN NoPlat ELSE new]
                /\ \E pl \in Decoded(w.obj, new) :
                       w' = Proceed([w EXCEPT !.todo = Tail(@), !.obj = pl], components)
           ELSE Abandon /\ UNCHANGED plat
    /\ UNCHANGED <<obj, db, cache, queue, edits, faults, stray, sc>> /\ Notify

CallFails ==
    /\ w.comp = 3 /\ w.todo # <<>> /\ Fault /\ Abandon
    /\ UNCHANGED <<plat, obj, db, cache, news, queue, edits, stray, sc>>

\* The operator starts anew, with caches that are filled and every platform queued.
Restart ==
    /\ w # Idle /\ Fault
    /\ w' = Idle /\ news' = {} /\ cache' = [plat |-> plat, obj |-> obj]
    /\ queue' = {p \in Platforms : Exists(plat[p])}
    /\ UNCHANGED <<plat, obj, db, edits, stray, sc>>

-----------------------------------------------------------------------------
(* Status: os are the objects that are found, st is the status so far      *)

\* An Ingress has the host of its first rule; a Route gets one when it is admitted.
ResolveIngressURL(ingress) == There(ingress)

checkPostgresDatabaseHealth == db = "ok"

\* A Data Index that is ready has the database, and one that is not there yet is not asked.
checkPersistenceConnectivity(dep) == ~There(dep) \/ dep.st = "ready" \/ checkPostgresDatabaseHealth

updateStatusPersistence(dep) == db # "missing" /\ checkPersistenceConnectivity(dep)

updateDataIndexStatusDeployment(dep) ==
    CASE ~There(dep) -> "False"
      [] dep.st = "deadline" -> "deadline"
      [] OTHER -> IF dep.st = "ready" THEN "True" ELSE "False"

\* The URL of the ingress if it has one, else that of the service.
updateDeploymentStatusService(s, svc, ingress) ==
    CASE ~There(svc) -> "none"
      [] s.exposed /\ ResolveIngressURL(ingress) -> "external"
      [] OTHER -> "internal"

\* The first condition that is not True is the component's.
platformComponentReadiness(conds) ==
    LET bad == {i \in DOMAIN conds : conds[i] # "True"}
    IN  IF bad = {} THEN "True" ELSE conds[Min(bad)]

Truth(b) == IF b THEN "True" ELSE "False"

updateDataIndexStatus(st, p, s, os) ==
    LET dep == os[Key("diDeployment", p)]
        svc == os[Key("diService", p)]
    IN  IF ~s.dataIndex THEN [st EXCEPT !.di = "none", !.endpoint = "none"]
        ELSE [st EXCEPT
            !.di = platformComponentReadiness(<<updateDataIndexStatusDeployment(dep),
                       Truth(There(svc)), Truth(updateStatusPersistence(dep))>>),
            !.endpoint = updateDeploymentStatusService(s, svc, os[Key("diIngress", p)])]

updateVectorStatus(st, p, s, os) ==
    LET ds == os[Key("vDaemonSet", p)]
    IN  [st EXCEPT !.vec = CASE ~s.vector -> "none"
                             [] There(ds) /\ ds.st = "ready" -> "True"
                             [] OTHER -> "False"]

updateWorkflowGatewayStatus(st, p, s, os) ==
    LET dep == os[Key("gwDeployment", p)]
        up  == There(dep) /\ dep.st = "ready"
    IN  [st EXCEPT
            !.gw = CASE s.gateway = "off" -> "none"
                     [] up /\ There(os[Key("gwService", p)]) -> "True"
                     [] There(dep) /\ dep.st = "deadline" -> "deadline"
                     [] OTHER -> "False",
            !.url = s.gateway = "exposed" /\ ResolveIngressURL(os[Key("gwIngress", p)])]

Enabled(s) == {c \in {"di", "vec", "gw"} : \/ c = "di"  /\ s.dataIndex
                                           \/ c = "vec" /\ s.vector
                                           \/ c = "gw"  /\ s.gateway # "off"}

updateLogicPlatformReadiness(st, s) ==
    [st EXCEPT !.phase = CASE \A c \in Enabled(s) : st[c] = "True" -> "Ready"
                           [] \E c \in {"di", "vec", "gw"} : st[c] = "deadline" -> "Failed"
                           [] OTHER -> "Pending"]

\* Phase 2, on what the caches hold.
UpdateStatus ==
    /\ w.comp = UpdatePhase
    /\ LET s == w.obj.spec
           os == cache.obj
           st == updateWorkflowGatewayStatus(updateVectorStatus(updateDataIndexStatus(
                     w.obj.status, w.p, s, os), w.p, s, os), w.p, s, os)
       IN  w' = [w EXCEPT !.obj.status = st, !.comp = WritePhase]
    /\ UNCHANGED <<plat, obj, db, cache, news, queue, edits, faults, stray, sc>>

\* Phase 3.  A retry reads the cache again, so that the update is accepted only if the
\* cache has caught up; the status goes to whatever platform has the name.
writeStatus ==
    /\ w.comp = WritePhase
    /\ LET st == updateLogicPlatformReadiness([w.obj.status EXCEPT !.og = w.obj.gen], w.obj.spec)
           ok == Exists(plat[w.p]) /\ cache.plat[w.p] = plat[w.p]
       IN  /\ plat' = IF ok THEN [plat EXCEPT ![w.p].status = st] ELSE plat
           /\ queue' = IF ok /\ ~w.err THEN queue ELSE queue \cup {w.p}
    /\ w' = Idle
    /\ UNCHANGED <<obj, db, cache, edits, faults, stray, sc>> /\ Notify

-----------------------------------------------------------------------------
Worker == (\E n \in 0..5 : BlindCalls(n)) \/ ApplyObject \/ DeleteObject \/ AddFinalizer \/ RemoveFinalizer
          \/ UpdateStatus \/ writeStatus

Users == \/ \E k \in Keys : TouchObject(k) \/ \E r \in Reports : Report(k, r)
         \/ \E p \in Platforms : DeletePlatform(p)
         \/ \E p \in Platforms : \E s \in sc.specs[p] : CreatePlatform(p, s) \/ UpdatePlatform(p, s)
         \/ \E d \in Databases : DatabaseChanges(d)

DeliverAny(i) == \/ i = "objects" /\ \E st \in Streams : DeliverObjects(st)
                 \/ i = "platforms" /\ \E p \in Platforms : DeliverPlatform(p)
Collect == \E kinds \in Parts : CollectGarbage(kinds)
Work    == (\E p \in Platforms : Begin(p)) \/ Worker

Next == Users \/ (\E i \in {"objects", "platforms"} : DeliverAny(i)) \/ Collect \/ Work \/ CallFails \/ Restart

\* The worker goes on as long as there is something to do, informers deliver as long as
\* there is news, and the garbage collector as long as there is garbage.
Fairness == WF_vars(Work) /\ WF_vars(DeliverAny("objects")) /\ WF_vars(DeliverAny("platforms")) /\ WF_vars(Collect)

Spec == Init /\ [][Next]_vars /\ Fairness

-----------------------------------------------------------------------------
(* Properties                                                              *)

BlindCall   == [op : {"apply", "create", "delete"}, kind : Kinds]
GatewayCall == [op : {"apply", "applyChecked", "deleteOwned", "deleteChecked"}, kind : GatewayKinds]
               \cup [op : {"add", "remove"}, kind : {"finalizer"}]
WorkerType  == [p : Platforms \cup {NoOne}, obj : LogicPlatform, comp : 0..WritePhase,
                todo : Seq(BlindCall \cup GatewayCall), err : BOOLEAN]

TypeOK ==
    /\ plat \in [Platforms -> LogicPlatform] /\ obj \in [Keys -> Object] /\ db \in Databases
    /\ cache \in [plat : [Platforms -> LogicPlatform], obj : [Keys -> Object]]
    /\ news \subseteq Platforms \cup (Streams \X (Platforms \cup {NoOne}))
    /\ queue \subseteq Platforms /\ stray \in BOOLEAN
    /\ w \in WorkerType
    /\ sc \in Scenarios /\ edits \in Nat /\ faults \in Nat

Quiet == news = {} /\ queue = {} /\ w = Idle

\* Of the platforms of one namespace at most one ever carries the gateway's finalizer,
\* although the webhook's look into the cache lets two be stored: the patch that adds it
\* is reviewed too, by a webhook that sees every platform the controller has seen.  Only a
\* patch that meets a platform recreated under the name gets past it.
OneGatewayPerNamespace ==
    ~stray => \A p, q \in Platforms : NsOf[p] = NsOf[q] /\ plat[p].fin /\ plat[q].fin => p = q

\* When all is quiet the status is that of the objects there are (of the database, which
\* is not watched, it may be an old one).
QuietStatusIsCurrent ==
    Quiet => \A p \in Platforms : Exists(plat[p]) =>
        LET pl == plat[p]
            seen == updateLogicPlatformReadiness(updateWorkflowGatewayStatus(updateVectorStatus(
                        updateDataIndexStatus(pl.status, p, pl.spec, obj),
                            p, pl.spec, obj), p, pl.spec, obj), pl.spec)
        IN  /\ pl.status.og = pl.gen
            /\ pl.status.gw = seen.gw /\ pl.status.vec = seen.vec
            /\ pl.status.endpoint = seen.endpoint /\ pl.status.url = seen.url
            /\ pl.status.phase = "Ready" => \A k \in Workloads :
                   (k = "diDeployment" => pl.spec.dataIndex) /\ (k = "vDaemonSet" => pl.spec.vector)
                   /\ (k = "gwDeployment" => pl.spec.gateway # "off") => obj[Key(k, p)].st = "ready"

\* When all is quiet, a binding that a platform has for its gateway is covered by the
\* finalizer that removes it, however enabling, disabling and deleting raced with patches
\* that carry no resource version.
QuietBindingIsGuarded ==
    Quiet => \A p \in Platforms :
        Exists(plat[p]) /\ obj[Key("gwBinding", p)].by = p => plat[p].fin

\* No platform of its namespace and no object of somebody else is in its way.
Unhindered(p) ==
    /\ plat[p].spec.valid
    /\ \A q \in Platforms \ {p} : NsOf[q] = NsOf[p] => ~Exists(plat[q])
    /\ \A kind \in Kinds : obj[Key(kind, p)].by # User

Has(p, kind)   == obj[Key(kind, p)].by = p
Wanted(p, kind) ==
    LET s == plat[p].spec
    IN  CASE kind = "diIngress" -> s.exposed
          [] kind \in VectorKinds -> s.vector
          [] kind = "gwIngress" -> s.gateway = "exposed"
          [] kind \in GatewayKinds -> s.gateway # "off"
          [] OTHER -> TRUE

\* A platform that stays and that nobody hinders gets every object its spec asks for, loses
\* those it does not ask for (only a disabled Data Index keeps its own), and its
\* finalizer and status say so, whatever failed on the way.
PlatformSettles ==
    <>[](\A p \in Platforms : Exists(plat[p]) /\ ~plat[p].del /\ Unhindered(p) =>
        /\ \A kind \in Kinds : (kind \in DataIndexKinds => plat[p].spec.dataIndex)
                               => (Has(p, kind) <=> Wanted(p, kind))
        /\ plat[p].fin <=> plat[p].spec.gateway # "off"
        /\ plat[p].status.og = plat[p].gen)

\* A platform that is deleted goes away unless somebody hinders it, and what is left of
\* it in its namespace goes with it.
DeletionCompletes ==
    <>[](\A p \in Platforms :
            /\ plat[p].del => ~Unhindered(p)
            /\ ~Exists(plat[p]) => \A k \in Keys : ~Clusterwide(k) => obj[k].by # p)

\* When all is quiet a platform that is gone has left no ClusterRoleBinding for its gateway.
BindingGoesFirst ==
    Quiet => \A p \in Platforms : Exists(plat[p]) \/ obj[Key("gwBinding", p)].by # p
=============================================================================
