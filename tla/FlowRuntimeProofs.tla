-------------------------- MODULE FlowRuntimeProofs --------------------------
(***************************************************************************)
(* The LogicFlowRuntime controller is well typed, and when it rests, the   *)
(* Deployment, the Service and the status of its runtime are what they     *)
(* should be.                                                              *)
(***************************************************************************)
EXTENDS FlowRuntime, TLAPS

\* Every specification in use is one of the scenario's, whose leases have slots.
SpecInv ==
    /\ Exists(rt) => rt.spec \in sc.specs
    /\ Exists(cache.rt) => cache.rt.spec \in sc.specs
    /\ pc # "idle" => obj.spec \in sc.specs

-----------------------------------------------------------------------------
(* Types of what the actions compute                                       *)

LEMMA ReplicasType == ASSUME NEW s \in RtSpec PROVE effectiveReplicas(s) \in Nat
  BY RuntimeConstants DEF RtSpec, effectiveReplicas

LEMMA ScenarioType ==
  ASSUME TypeOK
  PROVE  /\ sc.specs \subseteq RtSpec /\ sc.labels \subseteq Labellings /\ sc.reports \subseteq DepStatus
         /\ sc.faults \in Nat
         /\ \A s \in sc.specs : 0..(effectiveReplicas(s) - 1) \subseteq Slots
  BY RuntimeConstants DEF TypeOK, Scenario

LEMMA ZeroTypes ==
  /\ NoRuntime \in RuntimeType /\ NoDeployment \in DeploymentType
  /\ \A s \in RtSpec, u \in Nat : /\ NewRuntime(u, s) \in RuntimeType
                                /\ NewRuntime(u, s).spec = s
  /\ [NoDeployment EXCEPT !.uid = 1] \in DeploymentType
  <1>1. NoDepStatus \in DepStatus
    <2>1. <<>> \in Seq(Decisive)
      OBVIOUS
    <2> QED BY <2>1 DEF NoDepStatus, DepStatus
  <1>2. NoStatus \in StatusType
    BY DEF NoStatus, StatusType, RtConds, Cond, NoCond, CondStatus
  <1>3. NoSpec \in RtSpec
    BY DEF NoSpec, RtSpec
  <1>4. NoRuntime \in RuntimeType
    BY <1>2, <1>3 DEF NoRuntime, RuntimeType
  <1>5. NoDeployment \in DeploymentType
    BY <1>1 DEF NoDeployment, DeploymentType
  <1>6. \A s \in RtSpec, u \in Nat : /\ NewRuntime(u, s) \in RuntimeType
                                    /\ NewRuntime(u, s).spec = s
    BY <1>4 DEF RuntimeType, NewRuntime
  <1>7. [NoDeployment EXCEPT !.uid = 1] \in DeploymentType
    BY <1>5 DEF DeploymentType
  <1> QED BY <1>4, <1>5, <1>6, <1>7

LEMMA DeploymentConditionType ==
  ASSUME NEW d \in DeploymentType
  PROVE  DeploymentCondition(d) \in {"True", "False", "DeadlineExceeded"}
  <1>1. CASE ~Exists(d) \/ d.st.conds = <<>>
    BY <1>1 DEF DeploymentCondition
  <1>2. CASE ~(~Exists(d) \/ d.st.conds = <<>>)
    <2>1. d.st.conds \in Seq(Decisive)
      BY DEF DeploymentType, DepStatus
    <2>2. d.st.conds[Len(d.st.conds)] \in Decisive
      BY <1>2, <2>1
    <2> QED BY <1>2, <2>2 DEF DeploymentCondition, Decisive
  <1> QED BY <1>1, <1>2

LEMMA StatusHasType ==
  ASSUME NEW o \in RuntimeType, NEW S \in SUBSET CMs, NEW c \in CacheType
  PROVE  /\ Status(o, S, c) \in StatusType
         /\ Status(o, S, c).og = o.gen /\ Status(o, S, c).cms = S
         /\ Status(o, S, c).ready = c.dep.st.ready
         /\ Status(o, S, c).conds["DeploymentAvailable"] = [st |-> DeploymentCondition(c.dep), gen |-> o.gen]
         /\ Status(o, S, c).phase = DerivePhase(Status(o, S, c).conds, c.dep.st.ready)
  <1> DEFINE a == [st |-> DeploymentCondition(c.dep), gen |-> o.gen]
             b == [st |-> IF c.svc = 0 THEN "False" ELSE "True", gen |-> o.gen]
             l == LeaseCondition(o, c.leases)
             k == [[[o.status.conds EXCEPT !["DeploymentAvailable"] = a]
                       EXCEPT !["ServiceReady"] = b] EXCEPT !["LeaseReady"] = l]
             s == [og |-> o.gen, conds |-> k, ready |-> c.dep.st.ready,
                   leases |-> IF o.spec.durable THEN effectiveReplicas(o.spec) ELSE o.status.leases,
                   cms |-> S, phase |-> DerivePhase(k, c.dep.st.ready)]
  <1>1. Status(o, S, c) = s
    BY DEF Status, SetCondition
  <1>2. o.gen \in Nat /\ o.spec \in RtSpec /\ o.status \in StatusType
    BY DEF RuntimeType
  <1>3. o.status.conds \in [RtConds -> Cond] /\ o.status.leases \in Nat
    BY <1>2 DEF StatusType
  <1>4. a \in Cond /\ b \in Cond
    <2>1. c.dep \in DeploymentType
      BY DEF CacheType
    <2> QED BY <1>2, <2>1, DeploymentConditionType DEF Cond, CondStatus
  <1>5. l \in Cond
    BY <1>2, <1>3 DEF LeaseCondition, Cond, CondStatus, RtConds
  <1>6. k \in [RtConds -> Cond] /\ k["DeploymentAvailable"] = a
    <2> HIDE DEF a, b, l
    <2> QED BY <1>3, <1>4, <1>5 DEF RtConds
  <1>7. c.dep.st.ready \in Nat
    BY DEF CacheType, DeploymentType, DepStatus
  <1>8. effectiveReplicas(o.spec) \in Nat
    BY <1>2, ReplicasType
  <1>9. DerivePhase(k, c.dep.st.ready) \in {"Pending", "Ready", "Failed"}
    BY DEF DerivePhase
  <1> HIDE DEF k
  <1>10. s \in StatusType
    BY <1>2, <1>3, <1>6, <1>7, <1>8, <1>9 DEF StatusType
  <1> QED BY <1>1, <1>6, <1>10 DEF a

-----------------------------------------------------------------------------
(* Type correctness                                                        *)

\* The types of the API server's objects and of the rest, for steps that
\* change only one of them.
ApiTypes ==
    /\ rt \in RuntimeType /\ dep \in DeploymentType /\ svc \in Nat /\ sa \in Nat /\ rb \in Nat
    /\ leases \in [Slots -> 0..2] /\ cms \in [CMs -> Labellings]

WorkerTypes ==
    /\ pc \in {"idle", "deploy", "account", "binding", "leases", "create", "service", "status", "write"}
    /\ obj \in RuntimeType /\ seen \subseteq CMs /\ todo \subseteq Slots /\ leaseOwner \in 0..2

LEMMA TypeParts ==
  TypeOK <=> /\ ApiTypes /\ WorkerTypes /\ cache \in CacheType
             /\ news \subseteq {"rt", "dep", "svc", "leases"} \cup CMs /\ queue \in BOOLEAN
             /\ edits \in Nat /\ faults \in Nat /\ sc \in Scenarios
  BY DEF TypeOK, ApiTypes, WorkerTypes

LEMMA NotifyType ==
  ASSUME TypeOK, Notify PROVE news' \subseteq {"rt", "dep", "svc", "leases"} \cup CMs
  BY DEF TypeOK, Notify

LEMMA CurrentType == ASSUME ApiTypes PROVE Current \in CacheType
  BY DEF ApiTypes, Current, CacheType, Held

LEMMA RemoveDeploymentType ==
  ASSUME TypeOK, RemoveDeployment
  PROVE  /\ dep' \in DeploymentType /\ leases' \in [Slots -> 0..2] /\ leaseOwner' \in 0..2
         /\ cache' \in CacheType /\ cache'.rt = cache.rt
  <1>1. \A u \in 0..2 : Earlier(u) \in 0..2
    BY DEF Earlier
  <1>2. leases' \in [Slots -> 0..2] /\ leaseOwner' \in 0..2
    BY <1>1 DEF TypeOK, RemoveDeployment
  <1>3. cache.dep \in DeploymentType /\ cache.dep.uid \in 0..2
    BY DEF TypeOK, CacheType, DeploymentType
  <1>4. [cache.dep EXCEPT !.uid = Earlier(@)] \in DeploymentType
    BY <1>1, <1>3 DEF DeploymentType
  <1>5. cache' = [cache EXCEPT !.dep = [cache.dep EXCEPT !.uid = Earlier(@)]]
    BY DEF RemoveDeployment, TypeOK, CacheType
  <1>6. cache' \in CacheType /\ cache'.rt = cache.rt
    BY <1>4, <1>5 DEF TypeOK, CacheType
  <1> QED BY <1>2, <1>6, ZeroTypes DEF RemoveDeployment

LEMMA EnvironmentType ==
  ASSUME TypeOK, SpecInv, Environment PROVE TypeOK' /\ SpecInv'
  <1>0. news' \subseteq {"rt", "dep", "svc", "leases"} \cup CMs
    BY NotifyType DEF Environment
  <1>1. ASSUME NEW s \in sc.specs, CreateRuntime(s) PROVE TypeOK' /\ SpecInv'
    <2>1. rt' \in RuntimeType /\ rt'.spec = s
      <3>1. edits + 1 \in Nat /\ s \in RtSpec
        BY ScenarioType DEF TypeOK
      <3> QED BY <1>1, <3>1, ZeroTypes DEF CreateRuntime
    <2>2. UNCHANGED <<dep, svc, sa, rb, leases, cms, cache, queue, workerVars, edits, faults, sc>>
      BY <1>1 DEF CreateRuntime
    <2> QED BY <1>0, <2>1, <2>2 DEF TypeOK, SpecInv, workerVars
  <1>2. ASSUME NEW s \in sc.specs, UpdateRuntime(s) PROVE TypeOK' /\ SpecInv'
    <2>1. rt' \in RuntimeType /\ rt'.spec = s
      <3>1. s \in RtSpec
        BY ScenarioType
      <3>2. rt \in RuntimeType /\ rt' = [rt EXCEPT !.spec = s, !.gen = @ + 1]
        BY <1>2 DEF UpdateRuntime, TypeOK
      <3>3. rt.gen + 1 \in Nat /\ rt' = [[rt EXCEPT !.spec = s] EXCEPT !.gen = rt.gen + 1]
        BY <3>2 DEF RuntimeType
      <3>4. [rt EXCEPT !.spec = s] \in RuntimeType /\ [rt EXCEPT !.spec = s].spec = s
        BY <3>1, <3>2 DEF RuntimeType
      <3> QED BY <3>3, <3>4 DEF RuntimeType
    <2>2. UNCHANGED <<dep, svc, sa, rb, leases, cms, cache, queue, workerVars, faults, sc>> /\ edits' \in Nat
      BY <1>2 DEF UpdateRuntime, Edit, TypeOK
    <2> QED BY <1>0, <2>1, <2>2 DEF TypeOK, SpecInv, workerVars
  <1>3. ASSUME DeleteRuntime PROVE TypeOK' /\ SpecInv'
    <2>1. rt' \in RuntimeType /\ ~Exists(rt')
      BY <1>3, ZeroTypes DEF DeleteRuntime, NoRuntime, Exists
    <2>2. UNCHANGED <<dep, svc, sa, rb, leases, cms, cache, queue, workerVars, faults, sc>> /\ edits' \in Nat
      BY <1>3 DEF DeleteRuntime, Edit, TypeOK
    <2> QED BY <1>0, <2>1, <2>2 DEF TypeOK, SpecInv, workerVars, Exists
  <1>4. ASSUME DeleteDeployment PROVE TypeOK' /\ SpecInv'
    <2>1. UNCHANGED <<rt, svc, sa, rb, cms, queue, pc, obj, seen, todo, faults, sc>> /\ edits' \in Nat
      BY <1>4 DEF DeleteDeployment, Edit, TypeOK
    <2>2. RemoveDeployment
      BY <1>4 DEF DeleteDeployment
    <2> QED BY <1>0, <2>1, <2>2, RemoveDeploymentType DEF TypeOK, SpecInv
  <1>5. ASSUME NEW c \in CMs, NEW l \in sc.labels, ChangeConfigMap(c, l) PROVE TypeOK' /\ SpecInv'
    <2>1. cms' \in [CMs -> Labellings]
      BY <1>5, ScenarioType DEF ChangeConfigMap, TypeOK
    <2>2. UNCHANGED <<rt, dep, svc, sa, rb, leases, cache, queue, workerVars, faults, sc>> /\ edits' \in Nat
      BY <1>5 DEF ChangeConfigMap, Edit, TypeOK
    <2> QED BY <1>0, <2>1, <2>2 DEF TypeOK, SpecInv, workerVars
  <1>6. ASSUME NEW i \in Slots, DeleteLease(i) PROVE TypeOK' /\ SpecInv'
    <2>1. leases' \in [Slots -> 0..2]
      BY <1>6 DEF DeleteLease, TypeOK
    <2>2. UNCHANGED <<rt, dep, svc, sa, rb, cms, cache, queue, workerVars, faults, sc>> /\ edits' \in Nat
      BY <1>6 DEF DeleteLease, Edit, TypeOK
    <2> QED BY <1>0, <2>1, <2>2 DEF TypeOK, SpecInv, workerVars
  <1>7. ASSUME NEW st \in sc.reports, ReportStatus(st) PROVE TypeOK' /\ SpecInv'
    <2>1. dep' \in DeploymentType
      <3>1. st \in DepStatus
        BY ScenarioType
      <3> QED BY <1>7, <3>1 DEF ReportStatus, TypeOK, DeploymentType
    <2>2. UNCHANGED <<rt, svc, sa, rb, leases, cms, cache, queue, workerVars, faults, sc>> /\ edits' \in Nat
      BY <1>7 DEF ReportStatus, Edit, TypeOK
    <2> QED BY <1>0, <2>1, <2>2 DEF TypeOK, SpecInv, workerVars
  <1> QED BY <1>1, <1>2, <1>3, <1>4, <1>5, <1>6, <1>7 DEF Environment

LEMMA CollectGarbageType ==
  ASSUME TypeOK, SpecInv, CollectGarbage PROVE TypeOK' /\ SpecInv'
  <1>0. /\ news' \subseteq {"rt", "dep", "svc", "leases"} \cup CMs
        /\ UNCHANGED <<rt, cms, queue, pc, obj, seen, todo, edits, faults, sc>>
    BY NotifyType DEF CollectGarbage
  <1>1. CASE RemoveDeployment /\ UNCHANGED <<svc, sa, rb>>
    BY <1>0, <1>1, RemoveDeploymentType DEF TypeOK, SpecInv
  <1>2. CASE /\ UNCHANGED <<dep, leases, leaseOwner, cache>>
             /\ svc' \in Nat /\ sa' \in Nat /\ rb' \in Nat
    BY <1>0, <1>2 DEF TypeOK, SpecInv
  <1>3. ASSUME NEW i \in Slots, leases' = [leases EXCEPT ![i] = 0], UNCHANGED <<dep, svc, sa, rb, leaseOwner, cache>>
        PROVE  TypeOK' /\ SpecInv'
    <2>1. leases' \in [Slots -> 0..2]
      BY <1>3 DEF TypeOK
    <2> QED BY <1>0, <1>3, <2>1 DEF TypeOK, SpecInv
  <1> QED BY <1>1, <1>2, <1>3 DEF CollectGarbage, TypeOK

LEMMA DeliverType ==
  ASSUME TypeOK, SpecInv, Deliver PROVE TypeOK' /\ SpecInv'
  <1>1. /\ UNCHANGED <<apiVars, workerVars, edits, faults, sc>> /\ queue' \in BOOLEAN
        /\ news' \subseteq {"rt", "dep", "svc", "leases"} \cup CMs
    BY DEF Deliver, DeliverRuntime, DeliverDeployment, DeliverService, DeliverLeases, DeliverConfigMap, Seen, TypeOK
  <1>2. cache' \in CacheType /\ (cache'.rt = cache.rt \/ cache'.rt = rt)
    <2>1. CASE DeliverRuntime
      BY <2>1 DEF DeliverRuntime, TypeOK, CacheType
    <2>2. CASE DeliverDeployment
      BY <2>2 DEF DeliverDeployment, TypeOK, CacheType
    <2>3. CASE DeliverService
      BY <2>3 DEF DeliverService, TypeOK, CacheType
    <2>4. CASE DeliverLeases
      BY <2>4 DEF DeliverLeases, TypeOK, CacheType, Held
    <2>5. ASSUME NEW c \in CMs, DeliverConfigMap(c) PROVE cache' \in CacheType /\ cache'.rt = cache.rt
      <3>1. cache' = [cache EXCEPT !.cms = [cache.cms EXCEPT ![c] = cms[c]]]
        BY <2>5 DEF DeliverConfigMap, TypeOK, CacheType
      <3>2. [cache.cms EXCEPT ![c] = cms[c]] \in [CMs -> Labellings]
        BY DEF TypeOK, CacheType
      <3> QED BY <3>1, <3>2 DEF TypeOK, CacheType
    <2> QED BY <2>1, <2>2, <2>3, <2>4, <2>5 DEF Deliver
  <1> QED BY <1>1, <1>2 DEF TypeOK, SpecInv, apiVars, workerVars

LEMMA FinishType == ASSUME Finish PROVE WorkerTypes' /\ pc' = "idle"
  BY ZeroTypes DEF Finish, WorkerTypes

LEMMA ReconcileType ==
  ASSUME TypeOK, SpecInv, Reconcile PROVE TypeOK' /\ SpecInv'
  <1>0. news' \subseteq {"rt", "dep", "svc", "leases"} \cup CMs
    BY NotifyType DEF Reconcile
  <1>a. obj.uid \in Nat /\ obj.spec \in RtSpec
    BY DEF TypeOK, RuntimeType
  <1>1. ASSUME Begin PROVE TypeOK' /\ SpecInv'
    <2>1. UNCHANGED <<rt, dep, svc, sa, rb, leases, cms, cache, todo, leaseOwner, edits, faults, sc>> /\ queue' = FALSE
      BY <1>1 DEF Begin, apiVars
    <2>2. cache.rt \in RuntimeType /\ Mine(cache.cms) \subseteq CMs
      BY DEF TypeOK, CacheType, Mine
    <2>3. CASE Exists(cache.rt)
      <3>1. pc' = "deploy" /\ obj' = cache.rt /\ seen' = Mine(cache.cms)
        BY <1>1, <2>3 DEF Begin
      <3> QED BY <1>0, <2>1, <2>2, <2>3, <3>1 DEF TypeOK, SpecInv
    <2>4. CASE ~Exists(cache.rt)
      BY <1>0, <1>1, <2>1, <2>4 DEF TypeOK, SpecInv, Begin
    <2> QED BY <2>3, <2>4
  <1>2. ASSUME ApplyDeployment PROVE TypeOK' /\ SpecInv'
    <2> DEFINE base == IF Exists(dep) THEN dep ELSE [NoDeployment EXCEPT !.uid = 1]
    <2>1. base \in DeploymentType
      BY ZeroTypes DEF TypeOK
    <2>2. dep' = [base EXCEPT !.owner = obj.uid, !.mounts = seen, !.durable = obj.spec.durable,
                              !.replicas = effectiveReplicas(obj.spec)]
      BY <1>2 DEF ApplyDeployment
    <2> HIDE DEF base
    <2>3. effectiveReplicas(obj.spec) \in Nat /\ obj.spec.durable \in BOOLEAN /\ seen \subseteq CMs
      BY <1>a, ReplicasType DEF TypeOK, RtSpec
    <2>4. dep' \in DeploymentType
      BY <1>a, <2>1, <2>2, <2>3 DEF DeploymentType
    <2>5. /\ UNCHANGED <<rt, svc, sa, rb, leases, cms, cache, queue, obj, seen, todo, leaseOwner, edits, faults, sc>>
          /\ pc' \in {"account", "service"} /\ pc = "deploy"
      BY <1>2 DEF ApplyDeployment
    <2> QED BY <1>0, <2>4, <2>5 DEF TypeOK, SpecInv
  <1>3. ASSUME CreateServiceAccount PROVE TypeOK' /\ SpecInv'
    <2>1. sa' \in Nat
      BY <1>3, <1>a DEF TypeOK, CreateServiceAccount
    <2> QED BY <1>0, <1>3, <2>1 DEF TypeOK, SpecInv, CreateServiceAccount
  <1>4. ASSUME CreateRoleBinding PROVE TypeOK' /\ SpecInv'
    <2>1. rb' \in Nat
      BY <1>4, <1>a DEF TypeOK, CreateRoleBinding
    <2> QED BY <1>0, <1>4, <2>1 DEF TypeOK, SpecInv, CreateRoleBinding
  <1>5. ASSUME ListLeases PROVE TypeOK' /\ SpecInv'
    <2>1. 0..(effectiveReplicas(obj.spec) - 1) \subseteq Slots
      BY <1>5, ScenarioType DEF ListLeases, SpecInv
    <2>2. todo' \subseteq Slots /\ leaseOwner' \in 0..2
      BY <1>5, <2>1 DEF ListLeases, TypeOK, CacheType, DeploymentType
    <2>3. pc = "leases" /\ pc' \in {"service", "create"} /\ UNCHANGED <<apiVars, cache, queue, obj, seen, edits, faults, sc>>
      BY <1>5 DEF ListLeases
    <2> QED BY <1>0, <2>2, <2>3 DEF TypeOK, SpecInv, apiVars
  <1>6. ASSUME NEW i \in Slots, CreateLease(i) PROVE TypeOK' /\ SpecInv'
    <2>1. leases' \in [Slots -> 0..2] /\ todo' \subseteq Slots
      BY <1>6 DEF CreateLease, TypeOK
    <2>2. /\ pc = "create" /\ pc' \in {"service", "create"}
          /\ UNCHANGED <<rt, dep, svc, sa, rb, cms, cache, queue, obj, seen, leaseOwner, edits, faults, sc>>
      BY <1>6 DEF CreateLease
    <2> QED BY <1>0, <2>1, <2>2 DEF TypeOK, SpecInv
  <1>7. ASSUME ApplyService PROVE TypeOK' /\ SpecInv'
    BY <1>0, <1>7, <1>a DEF TypeOK, SpecInv, ApplyService
  <1>8. ASSUME UpdateStatus PROVE TypeOK' /\ SpecInv'
    <2>1. Status(obj, seen, cache) \in StatusType
      BY StatusHasType DEF TypeOK
    <2>2. obj' \in RuntimeType /\ obj'.spec = obj.spec
      BY <1>8, <2>1 DEF UpdateStatus, TypeOK, RuntimeType
    <2>3. /\ pc = "status" /\ pc' = "write"
          /\ UNCHANGED <<apiVars, cache, queue, seen, todo, leaseOwner, edits, faults, sc>>
      BY <1>8 DEF UpdateStatus
    <2> QED BY <1>0, <2>2, <2>3 DEF TypeOK, SpecInv, apiVars
  <1>9. ASSUME WriteStatus PROVE TypeOK' /\ SpecInv'
    <2>1. rt' \in RuntimeType /\ rt'.spec = rt.spec /\ Exists(rt)
      BY <1>9 DEF WriteStatus, TypeOK, RuntimeType
    <2>2. WorkerTypes' /\ pc' = "idle"
      BY <1>9, FinishType DEF WriteStatus
    <2>3. UNCHANGED <<dep, svc, sa, rb, leases, cms, cache, queue, edits, faults, sc>>
      BY <1>9 DEF WriteStatus
    <2> QED BY <1>0, <2>1, <2>2, <2>3 DEF TypeOK, SpecInv, WorkerTypes
  <1>10. ASSUME WriteStatusFails PROVE TypeOK' /\ SpecInv'
    <2>1. WorkerTypes' /\ pc' = "idle"
      BY <1>10, FinishType DEF WriteStatusFails
    <2>2. UNCHANGED <<apiVars, cache, edits, faults, sc>> /\ queue' = TRUE
      BY <1>10 DEF WriteStatusFails
    <2> QED BY <1>0, <2>1, <2>2 DEF TypeOK, SpecInv, WorkerTypes, apiVars
  <1> QED BY <1>1, <1>2, <1>3, <1>4, <1>5, <1>6, <1>7, <1>8, <1>9, <1>10 DEF Reconcile

LEMMA TypeStep == ASSUME TypeOK, SpecInv, [Next]_vars PROVE TypeOK' /\ SpecInv'
  <1>1. CASE CallFails \/ Restart
    <2>1. WorkerTypes' /\ pc' = "idle"
      BY <1>1, FinishType DEF CallFails, Restart
    <2>2. UNCHANGED <<apiVars, edits, sc>> /\ queue' = TRUE /\ faults' \in Nat
      BY <1>1 DEF CallFails, Restart, Fault, TypeOK
    <2>3. news' \subseteq news /\ (cache' = cache \/ cache' = Current)
      BY <1>1 DEF CallFails, Restart
    <2>4. cache' \in CacheType /\ cache'.rt \in {cache.rt, rt}
      BY <2>3, CurrentType DEF TypeOK, ApiTypes, Current
    <2> QED BY <2>1, <2>2, <2>3, <2>4 DEF TypeOK, SpecInv, WorkerTypes, apiVars
  <1>2. CASE PodEvent \/ Resync \/ UNCHANGED vars
    <2>1. UNCHANGED <<apiVars, news, cache, workerVars, edits, faults, sc>> /\ queue' \in BOOLEAN
      BY <1>2 DEF PodEvent, Resync, vars, TypeOK
    <2> QED BY <2>1 DEF TypeOK, SpecInv, apiVars, workerVars
  <1> QED BY <1>1, <1>2, EnvironmentType, CollectGarbageType, DeliverType, ReconcileType DEF Next

LEMMA TypeInit == ASSUME Init PROVE TypeOK /\ SpecInv
  <1>1. PICK s \in sc.specs : rt = NewRuntime(1, s)
    BY DEF Init
  <1>2. sc \in Scenarios /\ sc.specs \subseteq RtSpec /\ sc.labels \subseteq Labellings /\ sc.faults \in Nat
    BY RuntimeConstants DEF Init, Scenario
  <1>3. rt \in RuntimeType /\ rt.spec \in sc.specs
    BY <1>1, <1>2, ZeroTypes
  <1>4. ApiTypes
    <2>1. leases \in [Slots -> 0..2] /\ cms \in [CMs -> Labellings]
      BY <1>2 DEF Init, NoLeases
    <2> QED BY <1>3, <2>1, ZeroTypes DEF ApiTypes, Init
  <1>5. cache \in CacheType /\ ~Exists(cache.rt)
    <2>1. Current \in CacheType
      BY <1>4, CurrentType
    <2> QED BY <2>1, ZeroTypes DEF Init, CacheType, Exists, NoRuntime
  <1>6. WorkerTypes
    BY ZeroTypes DEF Init, WorkerTypes
  <1> QED BY <1>2, <1>3, <1>4, <1>5, <1>6, TypeParts DEF Init, SpecInv

\* Whatever users, faults and restarts do, every reachable state is well typed;
\* in particular reconcileLeases asks only for leases of members that a
\* specification gives the runtime.
THEOREM RuntimeTypeCorrect == Spec => []TypeOK
  <1>1. Spec => [](TypeOK /\ SpecInv)
    BY TypeInit, TypeStep, PTL DEF Spec
  <1> QED BY <1>1, PTL

-----------------------------------------------------------------------------
(* What holds when the controller rests.  Every change on the API server is *)
(* news; what is delivered queues the runtime unless it makes no            *)
(* difference; and a reconciliation that nothing was queued behind has read *)
(* what is cached.                                                          *)

\* Nobody takes the label off a ConfigMap that stays: of such an update
\* runtimeRefLabelPredicate sees only the new object, and nothing is queued.
KeepsLabels == \A x \in Scenarios : "none" \notin x.labels

\* An informer that has nothing to deliver holds what the API server holds.
Synced ==
    /\ "rt" \notin news => cache.rt = rt
    /\ "dep" \notin news => cache.dep = dep
    /\ \A c \in CMs : c \notin news => cache.cms[c] = cms[c]
    /\ \A c \in CMs : cms[c] # "none"

\* d is the Deployment that applyDeployment makes of runtime o with ConfigMaps S.
Wanted(o, S, d) ==
    /\ d.owner = o.uid /\ d.mounts = S
    /\ d.durable = o.spec.durable /\ d.replicas = effectiveReplicas(o.spec)

\* The worker has what is cached, unless another reconciliation is due.
WorkerInv ==
    ~queue /\ pc # "idle" =>
        /\ Exists(cache.rt) /\ seen = Mine(cache.cms)
        /\ obj.uid = cache.rt.uid /\ obj.gen = cache.rt.gen /\ obj.spec = cache.rt.spec

\* So what it has applied is what the cache asks for.
AppliedInv ==
    ~queue /\ Exists(cache.rt) =>
        /\ "dep" \notin news /\ pc # "deploy" => Wanted(cache.rt, Mine(cache.cms), dep)
        /\ "svc" \notin news /\ pc \in {"idle", "status", "write"} => svc = cache.rt.uid

\* st is a true report on generation g with Deployment d and ConfigMaps S.
Reports(st, g, d, S) ==
    /\ st.og = g /\ st.cms = S /\ st.ready = d.st.ready
    /\ st.conds["DeploymentAvailable"] = [st |-> DeploymentCondition(d), gen |-> g]
    /\ st.phase = DerivePhase(st.conds, d.st.ready)

\* And what it has computed or written as the status is true.
ReportedInv ==
    ~queue /\ Exists(rt) /\ "rt" \notin news /\ "dep" \notin news =>
        /\ pc = "idle"  => Reports(rt.status, rt.gen, dep, Mine(cache.cms))
        /\ pc = "write" => Reports(obj.status, rt.gen, dep, Mine(cache.cms))

RuntimeInv == Synced /\ WorkerInv /\ AppliedInv /\ ReportedInv

LEMMA NewsOfChanges ==
  ASSUME Notify
  PROVE  /\ news \subseteq news'
         /\ "rt" \notin news' => rt' = rt
         /\ "dep" \notin news' => dep' = dep
         /\ "svc" \notin news' => svc' = svc
         /\ \A c \in CMs : c \notin news' => cms'[c] = cms[c]
  BY DEF Notify

\* With the runtime queued, only the informers matter.
LEMMA QueuedInv == ASSUME queue' = TRUE, Synced' PROVE RuntimeInv'
  BY DEF RuntimeInv, WorkerInv, AppliedInv, ReportedInv

\* What others do on the API server shows up as news.
LEMMA OutsideInv ==
  ASSUME RuntimeInv, Notify, UNCHANGED <<queue, pc, obj, seen>>,
         cache'.rt = cache.rt, cache'.cms = cache.cms, cache'.dep = cache.dep \/ dep' # dep,
         \A c \in CMs : cms'[c] # "none"
  PROVE  RuntimeInv'
  <1>1. Synced'
    BY NewsOfChanges DEF RuntimeInv, Synced
  <1>2. WorkerInv'
    BY DEF RuntimeInv, WorkerInv
  <1>3. AppliedInv'
    BY NewsOfChanges DEF RuntimeInv, AppliedInv
  <1>4. ReportedInv'
    BY NewsOfChanges DEF RuntimeInv, ReportedInv
  <1> QED BY <1>1, <1>2, <1>3, <1>4 DEF RuntimeInv

LEMMA RemovedIsNews ==
  ASSUME TypeOK, Exists(dep), RemoveDeployment
  PROVE  cache'.rt = cache.rt /\ cache'.cms = cache.cms /\ dep' # dep
  <1>1. dep' # dep
    BY DEF RemoveDeployment, NoDeployment, Exists
  <1>2. cache'.rt = cache.rt /\ cache'.cms = cache.cms
    BY DEF RemoveDeployment, TypeOK, CacheType
  <1> QED BY <1>1, <1>2

LEMMA EnvironmentInv ==
  ASSUME KeepsLabels, TypeOK, RuntimeInv, Environment PROVE RuntimeInv'
  <1>1. UNCHANGED <<queue, pc, obj, seen>> /\ Notify
    BY DEF Environment, CreateRuntime, UpdateRuntime, DeleteRuntime, DeleteDeployment, ChangeConfigMap,
           DeleteLease, ReportStatus, workerVars
  <1>2. \A c \in CMs : cms'[c] # "none"
    <2>1. ASSUME NEW c \in CMs, NEW l \in sc.labels, ChangeConfigMap(c, l) PROVE \A k \in CMs : cms'[k] # "none"
      <3>1. l # "none"
        BY DEF KeepsLabels, TypeOK
      <3> QED BY <2>1, <3>1 DEF ChangeConfigMap, RuntimeInv, Synced, TypeOK
    <2>2. CASE cms' = cms
      BY <2>2 DEF RuntimeInv, Synced
    <2> QED BY <2>1, <2>2 DEF Environment, CreateRuntime, UpdateRuntime, DeleteRuntime, DeleteDeployment,
                              DeleteLease, ReportStatus
  <1>3. /\ cache'.rt = cache.rt /\ cache'.cms = cache.cms
        /\ cache'.dep = cache.dep \/ dep' # dep
    <2>1. CASE DeleteDeployment
      BY <2>1, RemovedIsNews DEF DeleteDeployment
    <2>2. CASE cache' = cache
      BY <2>2
    <2> QED BY <2>1, <2>2 DEF Environment, CreateRuntime, UpdateRuntime, DeleteRuntime, ChangeConfigMap,
                              DeleteLease, ReportStatus
  <1> QED BY <1>1, <1>2, <1>3, OutsideInv

LEMMA CollectGarbageInv ==
  ASSUME TypeOK, RuntimeInv, CollectGarbage PROVE RuntimeInv'
  <1>1. UNCHANGED <<queue, pc, obj, seen, cms>> /\ Notify
    BY DEF CollectGarbage
  <1>2. /\ cache'.rt = cache.rt /\ cache'.cms = cache.cms
        /\ cache'.dep = cache.dep \/ dep' # dep
    BY RemovedIsNews DEF CollectGarbage
  <1>3. \A c \in CMs : cms'[c] # "none"
    BY <1>1 DEF RuntimeInv, Synced
  <1> QED BY <1>1, <1>2, <1>3, OutsideInv

LEMMA DeliverInv ==
  ASSUME TypeOK, RuntimeInv, Deliver PROVE RuntimeInv'
  <1>0. /\ \A c \in CMs : c \notin {"rt", "dep", "svc", "leases"}
        /\ cache.rt \in RuntimeType /\ cache.dep \in DeploymentType /\ cache.cms \in [CMs -> Labellings]
    BY RuntimeConstants DEF TypeOK, CacheType
  <1>1. CASE DeliverRuntime
    <2>1. /\ news' = news \ {"rt"} /\ UNCHANGED <<rt, dep, cms>> /\ queue' = TRUE
          /\ cache'.rt = rt /\ cache'.dep = cache.dep /\ cache'.cms = cache.cms
      BY <1>1 DEF DeliverRuntime, Seen, apiVars, TypeOK, CacheType
    <2>2. Synced'
      BY <1>0, <2>1 DEF RuntimeInv, Synced
    <2> QED BY <2>1, <2>2, QueuedInv
  <1>2. CASE DeliverDeployment
    <2>1. /\ news' = news \ {"dep"} /\ UNCHANGED <<rt, dep, cms>> /\ queue' = TRUE
          /\ cache'.rt = cache.rt /\ cache'.dep = dep /\ cache'.cms = cache.cms
      BY <1>2 DEF DeliverDeployment, Seen, apiVars, TypeOK, CacheType
    <2>2. Synced'
      BY <1>0, <2>1 DEF RuntimeInv, Synced
    <2> QED BY <2>1, <2>2, QueuedInv
  <1>3. CASE DeliverService
    <2>1. /\ news' = news \ {"svc"} /\ UNCHANGED <<rt, dep, cms>> /\ queue' = TRUE
          /\ cache'.rt = cache.rt /\ cache'.dep = cache.dep /\ cache'.cms = cache.cms
      BY <1>3 DEF DeliverService, Seen, apiVars, TypeOK, CacheType
    <2>2. Synced'
      BY <1>0, <2>1 DEF RuntimeInv, Synced
    <2> QED BY <2>1, <2>2, QueuedInv
  <1>4. CASE DeliverLeases
    <2>1. /\ news' = news \ {"leases"} /\ UNCHANGED <<rt, dep, svc, cms, queue, pc, obj, seen>>
          /\ cache'.rt = cache.rt /\ cache'.dep = cache.dep /\ cache'.cms = cache.cms
      BY <1>4 DEF DeliverLeases, Seen, apiVars, workerVars, TypeOK, CacheType
    <2>2. Synced' /\ WorkerInv'
      BY <1>0, <2>1 DEF RuntimeInv, Synced, WorkerInv
    <2>3. AppliedInv' /\ ReportedInv'
      BY <2>1 DEF RuntimeInv, AppliedInv, ReportedInv
    <2> QED BY <2>2, <2>3 DEF RuntimeInv
  <1>5. ASSUME NEW c \in CMs, DeliverConfigMap(c) PROVE RuntimeInv'
    <2>1. /\ news' = news \ {c} /\ UNCHANGED <<rt, dep, svc, cms, pc, obj, seen>>
          /\ cache'.rt = cache.rt /\ cache'.dep = cache.dep
          /\ cache'.cms = [cache.cms EXCEPT ![c] = cms[c]]
          /\ queue' = (queue \/ (cms[c] # "none" /\ "mine" \in {cache.cms[c], cms[c]}))
      BY <1>5 DEF DeliverConfigMap, Seen, apiVars, workerVars, TypeOK, CacheType
    <2>2. Synced'
      BY <1>0, <2>1 DEF RuntimeInv, Synced
    <2>3. CASE queue'
      <3>1. queue' = TRUE
        BY <2>1, <2>3 DEF TypeOK
      <3> QED BY <2>2, <3>1, QueuedInv
    <2>4. CASE ~queue'
      <3>1. ~queue /\ cache.cms[c] # "mine" /\ cms[c] # "mine"
        BY <2>1, <2>4 DEF RuntimeInv, Synced
      <3>2. Mine(cache'.cms) = Mine(cache.cms)
        BY <1>0, <2>1, <3>1 DEF Mine
      <3>3. WorkerInv'
        BY <2>1, <3>1, <3>2 DEF RuntimeInv, WorkerInv
      <3>4. "rt" \notin news' => "rt" \notin news
        BY <1>0, <2>1
      <3>5. "dep" \notin news' => "dep" \notin news
        BY <1>0, <2>1
      <3>6. "svc" \notin news' => "svc" \notin news
        BY <1>0, <2>1
      <3>7. AppliedInv' /\ ReportedInv'
        BY <2>1, <3>1, <3>2, <3>4, <3>5, <3>6 DEF RuntimeInv, AppliedInv, ReportedInv
      <3> QED BY <2>2, <3>3, <3>7 DEF RuntimeInv
    <2> QED BY <2>3, <2>4
  <1> QED BY <1>1, <1>2, <1>3, <1>4, <1>5 DEF Deliver

\* A step of the worker leaves the informers alone.
LEMMA WorkerSynced ==
  ASSUME RuntimeInv, Notify, UNCHANGED <<cache, cms>> PROVE Synced'
  BY NewsOfChanges DEF RuntimeInv, Synced

\* RBAC and leases are nothing that the invariant speaks of.
LEMMA AsideInv ==
  ASSUME RuntimeInv, Notify, UNCHANGED <<rt, dep, svc, cms, cache, queue, obj, seen>>,
         pc \in {"account", "binding", "leases", "create"},
         pc' \in {"binding", "leases", "create", "service"}
  PROVE  RuntimeInv'
  <1>1. Synced'
    BY WorkerSynced
  <1>2. WorkerInv' /\ AppliedInv' /\ ReportedInv'
    BY NewsOfChanges DEF RuntimeInv, WorkerInv, AppliedInv, ReportedInv
  <1> QED BY <1>1, <1>2 DEF RuntimeInv

LEMMA BeginInv == ASSUME TypeOK, RuntimeInv, Begin, Notify PROVE RuntimeInv'
  <1>0. pc = "idle" /\ queue' = FALSE /\ UNCHANGED <<rt, dep, svc, cms, cache>> /\ news \subseteq news'
    BY NewsOfChanges DEF Begin, apiVars
  <1>1. Synced'
    BY <1>0, WorkerSynced
  <1>2. CASE Exists(cache.rt)
    <2>1. pc' = "deploy" /\ obj' = cache.rt /\ seen' = Mine(cache.cms)
      BY <1>2 DEF Begin
    <2>2. WorkerInv'
      BY <1>0, <1>2, <2>1 DEF WorkerInv
    <2>3. AppliedInv' /\ ReportedInv'
      BY <2>1 DEF AppliedInv, ReportedInv
    <2> QED BY <1>1, <2>2, <2>3 DEF RuntimeInv
  <1>3. CASE ~Exists(cache.rt)
    <2>1. pc' = "idle"
      BY <1>0, <1>3 DEF Begin
    <2>2. WorkerInv' /\ AppliedInv'
      BY <1>0, <1>3, <2>1 DEF WorkerInv, AppliedInv
    <2>3. "rt" \notin news' => ~Exists(rt)
      BY <1>0, <1>3 DEF RuntimeInv, Synced
    <2>4. ReportedInv'
      BY <1>0, <2>1, <2>3 DEF ReportedInv
    <2> QED BY <1>1, <2>2, <2>4 DEF RuntimeInv
  <1> QED BY <1>2, <1>3

LEMMA ApplyDeploymentInv ==
  ASSUME TypeOK, RuntimeInv, ApplyDeployment, Notify PROVE RuntimeInv'
  <1>0. /\ pc = "deploy" /\ pc' \in {"account", "service"}
        /\ UNCHANGED <<rt, svc, cms, cache, queue, obj, seen>>
    BY DEF ApplyDeployment
  <1>1. Synced'
    BY <1>0, WorkerSynced
  <1>2. WorkerInv'
    BY <1>0 DEF RuntimeInv, WorkerInv
  <1>3. Wanted(obj, seen, dep')
    <2> DEFINE base == IF Exists(dep) THEN dep ELSE [NoDeployment EXCEPT !.uid = 1]
    <2>1. base \in DeploymentType
      BY ZeroTypes DEF TypeOK
    <2>2. dep' = [base EXCEPT !.owner = obj.uid, !.mounts = seen, !.durable = obj.spec.durable,
                              !.replicas = effectiveReplicas(obj.spec)]
      BY DEF ApplyDeployment
    <2> HIDE DEF base
    <2> QED BY <2>1, <2>2 DEF DeploymentType, Wanted
  <1>4. ASSUME ~queue PROVE Wanted(cache.rt, Mine(cache.cms), dep')
    BY <1>0, <1>3, <1>4 DEF RuntimeInv, WorkerInv, Wanted
  <1>5. AppliedInv' /\ ReportedInv'
    BY <1>0, <1>4 DEF AppliedInv, ReportedInv
  <1> QED BY <1>1, <1>2, <1>5 DEF RuntimeInv

LEMMA ApplyServiceInv ==
  ASSUME TypeOK, RuntimeInv, ApplyService, Notify PROVE RuntimeInv'
  <1>0. /\ pc = "service" /\ pc' = "status" /\ svc' = obj.uid
        /\ UNCHANGED <<rt, dep, cms, cache, queue, obj, seen>>
    BY DEF ApplyService
  <1>1. Synced'
    BY <1>0, WorkerSynced
  <1>2. WorkerInv'
    BY <1>0 DEF RuntimeInv, WorkerInv
  <1>3. AppliedInv' /\ ReportedInv'
    BY <1>0, NewsOfChanges DEF RuntimeInv, WorkerInv, AppliedInv, ReportedInv
  <1> QED BY <1>1, <1>2, <1>3 DEF RuntimeInv

LEMMA UpdateStatusInv ==
  ASSUME TypeOK, RuntimeInv, UpdateStatus, Notify PROVE RuntimeInv'
  <1>0. /\ pc = "status" /\ pc' = "write" /\ obj' = [obj EXCEPT !.status = Status(obj, seen, cache)]
        /\ UNCHANGED <<rt, dep, svc, cms, cache, queue, seen>>
    BY DEF UpdateStatus, apiVars
  <1>1. Synced'
    BY <1>0, WorkerSynced
  <1>2. /\ obj'.uid = obj.uid /\ obj'.gen = obj.gen /\ obj'.spec = obj.spec
        /\ obj'.status = Status(obj, seen, cache)
    BY <1>0 DEF TypeOK, RuntimeType
  <1>3. WorkerInv'
    BY <1>0, <1>2 DEF RuntimeInv, WorkerInv
  <1>4. AppliedInv'
    BY <1>0, NewsOfChanges DEF RuntimeInv, AppliedInv
  <1>5. Reports(obj'.status, obj.gen, cache.dep, seen)
    BY <1>2, StatusHasType DEF TypeOK, Reports
  <1>6. ASSUME ~queue, "rt" \notin news, "dep" \notin news
        PROVE  Reports(obj'.status, rt.gen, dep, Mine(cache.cms))
    <2>1. obj.gen = rt.gen /\ cache.dep = dep /\ seen = Mine(cache.cms)
      BY <1>0, <1>6 DEF RuntimeInv, WorkerInv, Synced
    <2> QED BY <1>5, <2>1
  <1>7. ReportedInv'
    BY <1>0, <1>6, NewsOfChanges DEF ReportedInv
  <1> QED BY <1>1, <1>3, <1>4, <1>7 DEF RuntimeInv

LEMMA WriteStatusInv ==
  ASSUME TypeOK, RuntimeInv, WriteStatus, Notify PROVE RuntimeInv'
  <1>0. /\ pc = "write" /\ pc' = "idle" /\ Exists(rt) /\ rt' = [rt EXCEPT !.status = obj.status]
        /\ UNCHANGED <<dep, svc, cms, cache, queue>>
    BY DEF WriteStatus, Finish
  <1>1. Synced'
    BY <1>0, WorkerSynced
  <1>2. WorkerInv' /\ AppliedInv'
    BY <1>0, NewsOfChanges DEF RuntimeInv, WorkerInv, AppliedInv
  <1>3. rt'.status = obj.status /\ rt'.gen = rt.gen
    BY <1>0 DEF TypeOK, RuntimeType
  <1>4. ReportedInv'
    BY <1>0, <1>3, NewsOfChanges DEF RuntimeInv, ReportedInv
  <1> QED BY <1>1, <1>2, <1>4 DEF RuntimeInv

LEMMA ReconcileInv == ASSUME TypeOK, RuntimeInv, Reconcile PROVE RuntimeInv'
  <1>0. Notify
    BY DEF Reconcile
  <1>1. CASE CreateServiceAccount \/ CreateRoleBinding \/ ListLeases \/ \E i \in Slots : CreateLease(i)
    <2>1. /\ UNCHANGED <<rt, dep, svc, cms, cache, queue, obj, seen>>
          /\ pc \in {"account", "binding", "leases", "create"}
          /\ pc' \in {"binding", "leases", "create", "service"}
      BY <1>1 DEF CreateServiceAccount, CreateRoleBinding, ListLeases, CreateLease, apiVars
    <2> QED BY <1>0, <2>1, AsideInv
  <1>2. CASE WriteStatusFails
    <2>1. UNCHANGED <<cache, cms>> /\ queue' = TRUE
      BY <1>2 DEF WriteStatusFails, apiVars
    <2> QED BY <1>0, <2>1, WorkerSynced, QueuedInv
  <1> QED BY <1>0, <1>1, <1>2, BeginInv, ApplyDeploymentInv, ApplyServiceInv, UpdateStatusInv, WriteStatusInv
          DEF Reconcile

LEMMA RuntimeInvStep ==
  ASSUME KeepsLabels, TypeOK, RuntimeInv, [Next]_vars PROVE RuntimeInv'
  <1>1. CASE CallFails \/ PodEvent \/ Resync
    <2>1. UNCHANGED <<apiVars, news, cache>> /\ queue' = TRUE
      BY <1>1 DEF CallFails, PodEvent, Resync
    <2>2. Synced'
      BY <2>1 DEF RuntimeInv, Synced, apiVars
    <2> QED BY <2>1, <2>2, QueuedInv
  <1>2. CASE Restart
    <2>1. UNCHANGED apiVars /\ queue' = TRUE /\ cache' = Current
      BY <1>2 DEF Restart
    <2>2. Synced'
      BY <2>1 DEF RuntimeInv, Synced, apiVars, Current
    <2> QED BY <2>1, <2>2, QueuedInv
  <1>3. CASE UNCHANGED vars
    BY <1>3 DEF vars, apiVars, workerVars, RuntimeInv, Synced, WorkerInv, AppliedInv, ReportedInv
  <1> QED BY <1>1, <1>2, <1>3, EnvironmentInv, CollectGarbageInv, DeliverInv, ReconcileInv DEF Next

LEMMA RuntimeInvInit == ASSUME KeepsLabels, Init PROVE RuntimeInv
  <1>1. \A c \in CMs : cms[c] # "none"
    BY DEF Init, KeepsLabels
  <1>2. /\ cache = [Current EXCEPT !.rt = NoRuntime] /\ news = {"rt"} /\ pc = "idle"
    BY DEF Init
  <1>3. cache.rt = NoRuntime /\ cache.dep = dep /\ cache.cms = cms
    BY <1>2 DEF Current
  <1>4. ~Exists(cache.rt)
    BY <1>3 DEF NoRuntime, Exists
  <1> QED BY <1>1, <1>2, <1>3, <1>4 DEF RuntimeInv, Synced, WorkerInv, AppliedInv, ReportedInv

LEMMA RuntimeInvAlways == KeepsLabels => (Spec => [](TypeOK /\ RuntimeInv))
  <1> SUFFICES ASSUME KeepsLabels PROVE Spec => [](TypeOK /\ RuntimeInv)
    OBVIOUS
  <1>1. Init => RuntimeInv
    BY RuntimeInvInit
  <1>2. TypeOK /\ RuntimeInv /\ [Next]_vars => RuntimeInv'
    BY RuntimeInvStep
  <1> QED BY <1>1, <1>2, RuntimeTypeCorrect, PTL DEF Spec

LEMMA QuietRuntime ==
  ASSUME TypeOK, RuntimeInv PROVE QuietDeploymentIsCurrent /\ QuietStatusIsCurrent
  <1> SUFFICES ASSUME Quiet, Exists(rt)
               PROVE  DeploymentIsCurrent /\ svc = rt.uid /\ Reports(rt.status, rt.gen, dep, dep.mounts)
    BY DEF QuietDeploymentIsCurrent, QuietStatusIsCurrent, Reports
  <1>1. cache.rt = rt /\ Mine(cache.cms) = Mine(cms)
    BY DEF Quiet, RuntimeInv, Synced, Mine
  <1>2. Wanted(rt, Mine(cms), dep) /\ svc = rt.uid
    BY <1>1 DEF Quiet, RuntimeInv, AppliedInv
  <1>3. Reports(rt.status, rt.gen, dep, Mine(cms))
    BY <1>1 DEF Quiet, RuntimeInv, ReportedInv
  <1> QED BY <1>2, <1>3 DEF Wanted, DeploymentIsCurrent

\* No change of the runtime, of its Deployment and Service or of its ConfigMaps
\* gets lost between caches, events, failing calls and restarts, as long as no
\* ConfigMap loses its label and stays: when the controller rests, Deployment
\* and Service are what the runtime asks for.
THEOREM DeploymentFollows == KeepsLabels => (Spec => []QuietDeploymentIsCurrent)
  BY RuntimeInvAlways, QuietRuntime, PTL

\* Nor does updateStatus lose a change: under the same assumption the status is
\* true of the last generation, the mounted ConfigMaps and the rollout.
THEOREM StatusFollows == KeepsLabels => (Spec => []QuietStatusIsCurrent)
  BY RuntimeInvAlways, QuietRuntime, PTL

=============================================================================
