---------------------------- MODULE FlowRuntime ----------------------------
(***************************************************************************)
(* The LogicFlowRuntime controller: the reconciliation of one runtime into *)
(* a Deployment that mounts the runtime's ConfigMaps, a Service and, when  *)
(* the runtime is durable (spec.persistence), a ServiceAccount, a          *)
(* RoleBinding and one Lease per replica.                                  *)
(*                                                                         *)
(* One runtime is modelled: a reconciliation touches only objects named    *)
(* after its runtime or labelled with it.  Other runtimes show up as the   *)
(* label that takes a ConfigMap away.  Owners are uids, and an object that *)
(* is owned by 0 does not exist.  There are many runtimes and Deployments  *)
(* of this name over time: a runtime's uid is its number; the Deployment   *)
(* that exists has uid 1, and what refers to an earlier one refers to 2.   *)
(***************************************************************************)
EXTENDS Conditions, Sequences, FiniteSets

CONSTANTS
    CMs,          \* names of ConfigMaps
    Slots,        \* 0..n for the largest number of replicas
    Nil,          \* a number of replicas that is not given
    Scenarios     \* what users and the cluster do, and the bounds of that

RtSpec == [durable : BOOLEAN, replicas : Nat \cup {Nil}, template : Nat \cup {Nil}]
Decisive == {"Available", "Unavailable", "DeadlineExceeded"}
DepStatus == [conds : Seq(Decisive), ready : Nat]
NoDepStatus == [conds |-> <<>>, ready |-> 0]

\* podTemplate.replicas hides spec.replicas; ApplyLogicFlowRuntimeDefaults makes it 1.
effectiveReplicas(s) == IF s.template # Nil THEN s.template
                        ELSE IF s.replicas # Nil THEN s.replicas ELSE 1

\* What a ConfigMap can be: labelled with this runtime, with another one, without the
\* label, or not there.
Labellings == {"mine", "other", "none", "gone"}

\* labels: what becomes of ConfigMaps; specs: what users give the runtime; reports: what the
\* Deployment's controller says; edits, faults: bounds of changes by users and the cluster,
\* and of failing API calls and restarts of the operator.
Scenario(x) ==
    /\ x.labels \subseteq Labellings /\ x.specs \subseteq RtSpec /\ x.reports \subseteq DepStatus
    /\ \A s \in x.specs : 0..(effectiveReplicas(s) - 1) \subseteq Slots
    /\ x.edits \in Nat /\ x.faults \in Nat

ASSUME RuntimeConstants ==
    /\ Nil \notin Nat /\ Slots \subseteq Nat /\ \A x \in Scenarios : Scenario(x)
    /\ CMs \cap {"rt", "dep", "svc", "leases"} = {}

VARIABLES
    rt, dep, svc, sa, rb, leases, cms,   \* the API server's objects; svc, sa, rb and
                                         \* leases[i] are only their owners
    news,         \* objects with changes that the watches have not delivered yet
    cache,        \* the informers' copies of rt, dep, svc, leases and cms
    queue,        \* is the runtime in the work queue?
    pc, obj, seen,       \* the worker: its next step, its runtime, its ConfigMaps,
    todo, leaseOwner,    \* the leases it has to create and their owner
    edits, faults, sc    \* changes so far, failures left, and the scenario

apiVars    == <<rt, dep, svc, sa, rb, leases, cms>>
workerVars == <<pc, obj, seen, todo, leaseOwner>>
vars == <<apiVars, news, cache, queue, workerVars, edits, faults, sc>>

-----------------------------------------------------------------------------
RtConds == {"DeploymentAvailable", "ServiceReady", "LeaseReady"}
NoStatus == [og |-> 0, conds |-> [t \in RtConds |-> NoCond], ready |-> 0,
             leases |-> 0, cms |-> {}, phase |-> "None"]
NoSpec == [durable |-> FALSE, replicas |-> Nil, template |-> Nil]
NoRuntime == [uid |-> 0, gen |-> 0, spec |-> NoSpec, status |-> NoStatus]
NewRuntime(u, s) == [NoRuntime EXCEPT !.uid = u, !.gen = 1, !.spec = s]
NoDeployment == [uid |-> 0, owner |-> 0, mounts |-> {}, replicas |-> 0, durable |-> FALSE,
                 st |-> NoDepStatus]
NoLeases == [i \in Slots |-> 0]

Exists(o) == o.uid # 0

\* The ConfigMaps that carry this runtime's label.
Mine(labels) == {c \in CMs : labels[c] = "mine"}

\* The leases that there are.
Held(ls) == {i \in Slots : ls[i] # 0}

\* What informers that have seen everything hold.
Current == [rt |-> rt, dep |-> dep, svc |-> svc, leases |-> Held(leases), cms |-> cms]

Init ==
    /\ sc \in Scenarios
    /\ \E s \in sc.specs : rt = NewRuntime(1, s)
    /\ dep = NoDeployment /\ svc = 0 /\ sa = 0 /\ rb = 0 /\ leases = NoLeases
    /\ cms \in [CMs -> sc.labels]
    /\ cache = [Current EXCEPT !.rt = NoRuntime]
    /\ news = {"rt"} /\ queue = FALSE
    /\ pc = "idle" /\ obj = NoRuntime /\ seen = {} /\ todo = {} /\ leaseOwner = 0
    /\ edits = 0 /\ faults = sc.faults

\* What this step changes on the API server is news to the watches.
Notify == news' = news \cup {k \in {"rt"} : rt' # rt} \cup {k \in {"dep"} : dep' # dep}
                       \cup {k \in {"svc"} : svc' # svc} \cup {k \in {"leases"} : Held(leases)' # Held(leases)}
                       \cup {c \in CMs : cms'[c] # cms[c]}

-----------------------------------------------------------------------------
(* Users and the cluster                                                   *)

Edit == edits < sc.edits /\ edits' = edits + 1

\* A runtime is created anew; every deletion has been counted, so its uid is new.
CreateRuntime(s) ==
    /\ ~Exists(rt)
    /\ rt' = NewRuntime(edits + 1, s)
    /\ UNCHANGED <<dep, svc, sa, rb, leases, cms, cache, queue, workerVars, edits, faults, sc>>

UpdateRuntime(s) ==
    /\ Exists(rt) /\ rt.spec # s /\ Edit
    /\ rt' = [rt EXCEPT !.spec = s, !.gen = @ + 1]
    /\ UNCHANGED <<dep, svc, sa, rb, leases, cms, cache, queue, workerVars, faults, sc>>

DeleteRuntime ==
    /\ Exists(rt) /\ Edit
    /\ rt' = NoRuntime
    /\ UNCHANGED <<dep, svc, sa, rb, leases, cms, cache, queue, workerVars, faults, sc>>

\* The definition controller, or somebody else, changes a ConfigMap.
ChangeConfigMap(c, l) ==
    /\ cms[c] # l /\ Edit
    /\ cms' = [cms EXCEPT ![c] = l]
    /\ UNCHANGED <<rt, dep, svc, sa, rb, leases, cache, queue, workerVars, faults, sc>>

\* The Deployment goes; what refers to it refers to an earlier one from now on.
Earlier(u) == IF u = 1 THEN 2 ELSE u
RemoveDeployment ==
    /\ dep' = NoDeployment
    /\ leases' = [i \in Slots |-> Earlier(leases[i])] /\ leaseOwner' = Earlier(leaseOwner)
    /\ cache' = [cache EXCEPT !.dep.uid = Earlier(@)]

\* Somebody deletes what the operator has made.
DeleteDeployment ==
    /\ Exists(dep) /\ Edit
    /\ RemoveDeployment
    /\ UNCHANGED <<rt, svc, sa, rb, cms, queue, pc, obj, seen, todo, faults, sc>>

DeleteLease(i) ==
    /\ leases[i] # 0 /\ Edit
    /\ leases' = [leases EXCEPT ![i] = 0]
    /\ UNCHANGED <<rt, dep, svc, sa, rb, cms, cache, queue, workerVars, faults, sc>>

\* Garbage collection of objects whose owner is gone.
CollectGarbage ==
    /\ \/ /\ Exists(dep) /\ dep.owner # rt.uid
          /\ RemoveDeployment /\ UNCHANGED <<svc, sa, rb>>
       \/ /\ svc \notin {0, rt.uid} /\ svc' = 0 /\ UNCHANGED <<dep, sa, rb, leases, leaseOwner, cache>>
       \/ /\ sa \notin {0, rt.uid} /\ sa' = 0 /\ UNCHANGED <<dep, svc, rb, leases, leaseOwner, cache>>
       \/ /\ rb \notin {0, rt.uid} /\ rb' = 0 /\ UNCHANGED <<dep, svc, sa, leases, leaseOwner, cache>>
       \/ \E i \in Slots : /\ leases[i] = 2
                           /\ leases' = [leases EXCEPT ![i] = 0] /\ UNCHANGED <<dep, svc, sa, rb, leaseOwner, cache>>
    /\ UNCHANGED <<rt, cms, queue, pc, obj, seen, todo, edits, faults, sc>>
    /\ Notify

\* The Deployment's controller reports on its rollout.
ReportStatus(st) ==
    /\ Exists(dep) /\ dep.st # st /\ Edit
    /\ dep' = [dep EXCEPT !.st = st]
    /\ UNCHANGED <<rt, svc, sa, rb, leases, cms, cache, queue, workerVars, faults, sc>>

-----------------------------------------------------------------------------
(* Informers and triggers (SetupWithManager)                               *)

\* The latest state of k reaches its informer.
Seen(k) == /\ k \in news /\ news' = news \ {k}
           /\ UNCHANGED <<apiVars, workerVars, edits, faults, sc>>

DeliverRuntime ==
    /\ Seen("rt") /\ cache' = [cache EXCEPT !.rt = rt] /\ queue' = TRUE

\* Mutant: the Deployment is applied but not owned in SetupWithManager.
DeliverDeploymentUnowned ==
    /\ Seen("dep") /\ cache' = [cache EXCEPT !.dep = dep] /\ UNCHANGED queue

DeliverDeployment ==
    /\ Seen("dep") /\ cache' = [cache EXCEPT !.dep = dep] /\ queue' = TRUE

DeliverService ==
    /\ Seen("svc") /\ cache' = [cache EXCEPT !.svc = svc] /\ queue' = TRUE

\* Leases are cached because they are listed, but nobody watches them.
DeliverLeases ==
    /\ Seen("leases") /\ cache' = [cache EXCEPT !.leases = Held(leases)] /\ UNCHANGED queue

\* Mutant: an update is mapped by the new object's label only.
DeliverConfigMapByNewLabel(c) ==
    /\ Seen(c) /\ cache' = [cache EXCEPT !.cms[c] = cms[c]]
    /\ queue' = (queue \/ cms[c] = "mine" \/ (cms[c] = "gone" /\ cache.cms[c] = "mine"))

\* runtimeRefLabelPredicate looks at the new object of an update, and at the
\* last one of a deletion; mapConfigMapToRuntime is asked about both.
DeliverConfigMap(c) ==
    /\ Seen(c) /\ cache' = [cache EXCEPT !.cms[c] = cms[c]]
    /\ queue' = (queue \/ (cms[c] # "none" /\ "mine" \in {cache.cms[c], cms[c]}))

\* A pod of the runtime comes, goes or changes: Watches(Pod) with mapPodToRuntime.
PodEvent ==
    /\ ~queue /\ queue' = TRUE
    /\ UNCHANGED <<apiVars, news, cache, workerVars, edits, faults, sc>>

\* The informer's periodic resync repeats an update of what is cached.
Resync == Exists(cache.rt) /\ PodEvent

-----------------------------------------------------------------------------
(* Reconcile: one step per API call                                        *)

Fault == faults > 0 /\ faults' = faults - 1 /\ UNCHANGED sc

Finish == pc' = "idle" /\ obj' = NoRuntime /\ seen' = {} /\ todo' = {} /\ leaseOwner' = 0

\* The API call that is due fails: Reconcile returns the error and is retried.
CallFails ==
    /\ pc \notin {"idle", "leases", "status"} /\ Fault
    /\ Finish /\ queue' = TRUE
    /\ UNCHANGED <<apiVars, news, cache, edits>>

\* The operator restarts: its caches are filled anew and every object is an event.
Restart ==
    /\ Fault
    /\ Finish /\ queue' = TRUE /\ cache' = Current /\ news' = {}
    /\ UNCHANGED <<apiVars, edits>>

\* Get and listConfigMaps.
Begin ==
    /\ pc = "idle" /\ queue
    /\ queue' = FALSE
    /\ IF Exists(cache.rt)
       THEN pc' = "deploy" /\ obj' = cache.rt /\ seen' = Mine(cache.cms)
       ELSE UNCHANGED <<pc, obj, seen>>
    /\ UNCHANGED <<apiVars, cache, todo, leaseOwner, edits, faults, sc>>

\* applyDeployment, server-side with force: owner and spec become the wanted
\* ones whoever wrote them.
ApplyDeployment ==
    /\ pc = "deploy"
    /\ LET base == IF Exists(dep) THEN dep ELSE [NoDeployment EXCEPT !.uid = 1]
       IN dep' = [base EXCEPT !.owner = obj.uid, !.mounts = seen, !.durable = obj.spec.durable,
                              !.replicas = effectiveReplicas(obj.spec)]
    /\ pc' = IF obj.spec.durable THEN "account" ELSE "service"
    /\ UNCHANGED <<rt, svc, sa, rb, leases, cms, cache, queue, obj, seen, todo, leaseOwner, edits, faults, sc>>

\* reconcilePodRBAC: what exists already is left alone, its owner included.
CreateServiceAccount ==
    /\ pc = "account"
    /\ sa' = IF sa = 0 THEN obj.uid ELSE sa
    /\ pc' = "binding"
    /\ UNCHANGED <<rt, dep, svc, rb, leases, cms, cache, queue, obj, seen, todo, leaseOwner, edits, faults, sc>>

CreateRoleBinding ==
    /\ pc = "binding"
    /\ rb' = IF rb = 0 THEN obj.uid ELSE rb
    /\ pc' = "leases"
    /\ UNCHANGED <<rt, dep, svc, sa, leases, cms, cache, queue, obj, seen, todo, leaseOwner, edits, faults, sc>>

\* Mutant: members are counted from 1.
ListLeasesFromOne ==
    /\ pc = "leases"
    /\ todo' = {i \in 1..(effectiveReplicas(obj.spec) - 1) : Exists(cache.dep) /\ i \notin cache.leases}
    /\ leaseOwner' = cache.dep.uid
    /\ pc' = IF todo' = {} THEN "service" ELSE "create"
    /\ UNCHANGED <<apiVars, cache, queue, obj, seen, edits, faults, sc>>

\* reconcileLeases reads Deployment and leases from the cache.  Without a
\* cached Deployment there is no owner, and nothing is created.
ListLeases ==
    /\ pc = "leases"
    /\ todo' = {i \in 0..(effectiveReplicas(obj.spec) - 1) : Exists(cache.dep) /\ i \notin cache.leases}
    /\ leaseOwner' = cache.dep.uid
    /\ pc' = IF todo' = {} THEN "service" ELSE "create"
    /\ UNCHANGED <<apiVars, cache, queue, obj, seen, edits, faults, sc>>

\* The missing leases are created in the order of their index; AlreadyExists is fine.
CreateLease(i) ==
    /\ pc = "create" /\ i \in todo /\ \A j \in todo : i <= j
    /\ leases' = [leases EXCEPT ![i] = IF @ = 0 THEN leaseOwner ELSE @]
    /\ todo' = todo \ {i}
    /\ pc' = IF todo' = {} THEN "service" ELSE "create"
    /\ UNCHANGED <<rt, dep, svc, sa, rb, cms, cache, queue, obj, seen, leaseOwner, edits, faults, sc>>

ApplyService ==
    /\ pc = "service"
    /\ svc' = obj.uid
    /\ pc' = "status"
    /\ UNCHANGED <<rt, dep, sa, rb, leases, cms, cache, queue, obj, seen, todo, leaseOwner, edits, faults, sc>>

\* Mutant: the Deployment's condition is copied as it is.
DeploymentConditionCopied(d) ==
    IF ~Exists(d) \/ d.st.conds = <<>> THEN "False" ELSE d.st.conds[Len(d.st.conds)]

\* updateStatusDeployment: the Deployment's conditions are looked at in the
\* order of the list, and the last one that decides something wins.
DeploymentCondition(d) ==
    IF ~Exists(d) \/ d.st.conds = <<>> THEN "False"
    ELSE CASE d.st.conds[Len(d.st.conds)] = "Available"        -> "True"
           [] d.st.conds[Len(d.st.conds)] = "Unavailable"      -> "False"
           [] d.st.conds[Len(d.st.conds)] = "DeadlineExceeded" -> "DeadlineExceeded"

\* updateStatusLeases counts; it leaves the condition of a runtime that is
\* not durable as it is.
LeaseCondition(o, ls) ==
    IF ~o.spec.durable THEN o.status.conds["LeaseReady"]
    ELSE [st |-> IF Cardinality(ls) >= effectiveReplicas(o.spec) THEN "True" ELSE "False",
          gen |-> o.gen]

\* The status that updateStatus accumulates from the cached objects.
Status(o, ready, c) ==
    LET conds == [SetCondition(SetCondition(o.status.conds,
                        "DeploymentAvailable", DeploymentCondition(c.dep), o.gen),
                        "ServiceReady", IF c.svc = 0 THEN "False" ELSE "True", o.gen)
                  EXCEPT !["LeaseReady"] = LeaseCondition(o, c.leases)]
    IN [og |-> o.gen, conds |-> conds, ready |-> c.dep.st.ready,
        leases |-> IF o.spec.durable THEN effectiveReplicas(o.spec) ELSE o.status.leases,
        cms |-> ready, phase |-> DerivePhase(conds, c.dep.st.ready)]

UpdateStatus ==
    /\ pc = "status"
    /\ obj' = [obj EXCEPT !.status = Status(obj, seen, cache)]
    /\ pc' = "write"
    /\ UNCHANGED <<apiVars, cache, queue, seen, todo, leaseOwner, edits, faults, sc>>

\* RetryOnConflict: the accumulated status is put onto the object as cached
\* now, and the update succeeds if that is the server's.
WriteStatus ==
    /\ pc = "write" /\ cache.rt = rt /\ Exists(rt)
    /\ rt' = [rt EXCEPT !.status = obj.status]
    /\ Finish
    /\ UNCHANGED <<dep, svc, sa, rb, leases, cms, cache, queue, edits, faults, sc>>

\* NotFound, or the cache does not catch up within the retries.
WriteStatusFails ==
    /\ pc = "write" /\ (cache.rt # rt \/ ~Exists(rt))
    /\ Finish /\ queue' = TRUE
    /\ UNCHANGED <<apiVars, cache, edits, faults, sc>>

-----------------------------------------------------------------------------
Environment ==
    /\ \/ \E s \in sc.specs : CreateRuntime(s) \/ UpdateRuntime(s)
       \/ DeleteRuntime \/ DeleteDeployment
       \/ \E c \in CMs, l \in sc.labels : ChangeConfigMap(c, l)
       \/ \E i \in Slots : DeleteLease(i)
       \/ \E st \in sc.reports : ReportStatus(st)
    /\ Notify

Deliver ==
    \/ DeliverRuntime \/ DeliverDeployment \/ DeliverService \/ DeliverLeases
    \/ \E c \in CMs : DeliverConfigMap(c)

Reconcile ==
    /\ \/ Begin \/ ApplyDeployment \/ CreateServiceAccount \/ CreateRoleBinding \/ ListLeases
       \/ \E i \in Slots : CreateLease(i)
       \/ ApplyService \/ UpdateStatus \/ WriteStatus \/ WriteStatusFails
    /\ Notify

Next == Environment \/ CollectGarbage \/ Deliver \/ PodEvent \/ Resync \/ Reconcile \/ CallFails \/ Restart

Spec == Init /\ [][Next]_vars

\* Informers deliver and resync, the worker works, garbage is collected.
Fairness ==
    /\ WF_vars(DeliverRuntime) /\ WF_vars(DeliverDeployment) /\ WF_vars(DeliverService)
    /\ WF_vars(DeliverLeases) /\ \A c \in CMs : WF_vars(DeliverConfigMap(c))
    /\ WF_vars(Resync) /\ WF_vars(Reconcile) /\ WF_vars(CollectGarbage)

FairSpec == Spec /\ Fairness

-----------------------------------------------------------------------------
(* Properties                                                              *)

StatusType == [og : Nat, conds : [RtConds -> Cond], ready : Nat, leases : Nat, cms : SUBSET CMs,
               phase : {"None", "Pending", "Ready", "Failed"}]
RuntimeType == [uid : Nat, gen : Nat, spec : RtSpec, status : StatusType]
DeploymentType == [uid : 0..2, owner : Nat, mounts : SUBSET CMs, replicas : Nat, durable : BOOLEAN, st : DepStatus]
CacheType == [rt : RuntimeType, dep : DeploymentType, svc : Nat, leases : SUBSET Slots, cms : [CMs -> Labellings]]

TypeOK ==
    /\ rt \in RuntimeType /\ dep \in DeploymentType /\ svc \in Nat /\ sa \in Nat /\ rb \in Nat
    /\ leases \in [Slots -> 0..2] /\ cms \in [CMs -> Labellings]
    /\ cache \in CacheType
    /\ news \subseteq {"rt", "dep", "svc", "leases"} \cup CMs /\ queue \in BOOLEAN
    /\ pc \in {"idle", "deploy", "account", "binding", "leases", "create", "service", "status", "write"}
    /\ obj \in RuntimeType /\ seen \subseteq CMs /\ todo \subseteq Slots /\ leaseOwner \in 0..2
    /\ edits \in Nat /\ faults \in Nat /\ sc \in Scenarios

\* Nothing is left to do until the next change.
Quiet == pc = "idle" /\ ~queue /\ news = {}

\* The Deployment is what the runtime and its ConfigMaps ask for.
DeploymentIsCurrent ==
    /\ dep.owner = rt.uid /\ dep.mounts = Mine(cms)
    /\ dep.durable = rt.spec.durable /\ dep.replicas = effectiveReplicas(rt.spec)

\* No change of the runtime, its Deployment or its ConfigMaps gets lost between
\* caches, events and reconciliations, be the objects recreated under their
\* names: when everything is quiet, the Deployment mounts what is labelled.
QuietDeploymentIsCurrent == Quiet /\ Exists(rt) => DeploymentIsCurrent /\ svc = rt.uid

\* updateStatus: when everything is quiet the status tells of the spec's last
\* generation, of the ConfigMaps mounted and of the Deployment as it is, even
\* if a status computed for an older object was written over a newer one.
QuietStatusIsCurrent ==
    Quiet /\ Exists(rt) =>
        /\ rt.status.og = rt.gen /\ rt.status.cms = dep.mounts /\ rt.status.ready = dep.st.ready
        /\ rt.status.conds["DeploymentAvailable"] = [st |-> DeploymentCondition(dep), gen |-> rt.gen]
        /\ rt.status.phase = DerivePhase(rt.status.conds, dep.st.ready)

\* Everything a durable runtime needs, and what the status says of it.
DurableIsServed ==
    rt.spec.durable =>
        /\ sa = rt.uid /\ rb = rt.uid
        /\ \A i \in 0..(effectiveReplicas(rt.spec) - 1) : leases[i] = 1
        /\ rt.status.conds["LeaseReady"] = [st |-> "True", gen |-> rt.gen]

\* Whatever was deleted, recreated, relabelled or failed, in the end a runtime
\* has all its objects, and nothing is left of one that is gone.
RuntimeConverges ==
    <>[](IF Exists(rt) THEN DeploymentIsCurrent /\ svc = rt.uid /\ DurableIsServed
         ELSE ~Exists(dep) /\ svc = 0 /\ sa = 0 /\ rb = 0 /\ leases = NoLeases)

=============================================================================
