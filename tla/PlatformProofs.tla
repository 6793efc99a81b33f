--------------------------- MODULE PlatformProofs ---------------------------
(***************************************************************************)
(* The LogicPlatform controller is well typed, and the webhook's check for *)
(* a single platform, which reads a cache that lags behind, nevertheless   *)
(* lets at most one platform of a namespace have a gateway.                *)
(***************************************************************************)
EXTENDS Platform, SequenceTheorems, TLAPS

CacheType == [plat : [Platforms -> LogicPlatform], obj : [Keys -> Object]]

\* The calls that component c may have to make: a finalizer is added by a
\* reconciliation that has nothing else to do for the gateway yet.
AddList == <<Finalizer("add")>>
ListOK(c, l) ==
    /\ c \in {1, 2} => l \in Seq(BlindCall)
    /\ c = 3 => l = AddList \/ (l \in Seq(GatewayCall) /\ \A i \in 1..Len(l) : l[i].op # "add")
    /\ c \notin 1..3 => l = <<>>

WorkerOK == /\ w.comp > 0 => w.p \in Platforms
            /\ ListOK(w.comp, w.todo)

-----------------------------------------------------------------------------
(* The lists of calls                                                      *)

\* The gateway's calls other than the one that adds the finalizer.
Routine == {c \in GatewayCall : c.op # "add"}

LEMMA RoutineList ==
  ASSUME NEW l \in Seq(Routine)
  PROVE  l \in Seq(GatewayCall) /\ \A i \in 1..Len(l) : l[i].op # "add"
  <1>1. \A i \in 1..Len(l) : l[i] \in Routine
    OBVIOUS
  <1>2. l \in Seq(GatewayCall)
    BY <1>1 DEF Routine
  <1> QED BY <1>1, <1>2 DEF Routine

LEMMA GatewayCalls ==
  /\ \A op \in {"apply", "applyChecked", "deleteOwned", "deleteChecked"}, kind \in GatewayKinds :
        Do(op, kind) \in Routine
  /\ Finalizer("remove") \in Routine
  BY DEF Do, Finalizer, Routine, GatewayCall, GatewayKinds

LEMMA BlindCallsAre ==
  \A op \in {"apply", "create", "delete"}, kind \in Kinds : Do(op, kind) \in BlindCall
  BY DEF Do, BlindCall

LEMMA DataIndexList == ASSUME NEW pl PROVE reconcileDataIndex(pl) \in Seq(BlindCall)
  <1>1. /\ applyDataIndexDeployment \in BlindCall /\ applyDataIndexService \in BlindCall
        /\ applyDataIndexIngress(pl) \in BlindCall
    BY BlindCallsAre
       DEF applyDataIndexDeployment, applyDataIndexService, applyDataIndexIngress, Kinds, DataIndexKinds
  <1>2. <<>> \in Seq(BlindCall)
    OBVIOUS
  <1> QED BY <1>1, <1>2 DEF reconcileDataIndex

LEMMA VectorList == ASSUME NEW pl PROVE reconcileVector(pl) \in Seq(BlindCall)
  <1>1. \A op \in {"apply", "create", "delete"}, kind \in VectorKinds : Do(op, kind) \in BlindCall
    BY BlindCallsAre DEF Kinds
  <1>2. deleteVectorResources \in Seq(BlindCall)
    BY <1>1 DEF deleteVectorResources, VectorKinds
  <1>3. /\ reconcileVectorRBAC \in Seq(BlindCall) /\ <<applyVectorConfigMap>> \in Seq(BlindCall)
        /\ applyVectorWorkload \in Seq(BlindCall)
    BY <1>1 DEF reconcileVectorRBAC, applyVectorConfigMap, applyVectorWorkload, VectorKinds
  <1>4. reconcileVectorRBAC \o <<applyVectorConfigMap>> \in Seq(BlindCall)
    BY <1>3, ConcatProperties
  <1>5. reconcileVectorRBAC \o <<applyVectorConfigMap>> \o applyVectorWorkload \in Seq(BlindCall)
    BY <1>3, <1>4, ConcatProperties
  <1> QED BY <1>2, <1>5 DEF reconcileVector

LEMMA DeleteList == ASSUME NEW pl PROVE deleteWorkflowGatewayResources(pl) \in Seq(Routine)
  <1> DEFINE l == <<Do("deleteOwned", "gwIngress"), Do("deleteChecked", "gwService"),
                    Do("deleteChecked", "gwDeployment"), Do("deleteChecked", "gwBinding"),
                    Do("deleteChecked", "gwAccount")>>
             f == IF pl.fin THEN <<Finalizer("remove")>> ELSE <<>>
  <1>1. l \in Seq(Routine)
    BY GatewayCalls DEF GatewayKinds
  <1>2. <<>> \in Seq(Routine)
    OBVIOUS
  <1>3. f \in Seq(Routine)
    BY <1>2, GatewayCalls
  <1> HIDE DEF l, f
  <1>4. l \o f \in Seq(Routine)
    BY <1>1, <1>3, ConcatProperties
  <1> QED BY <1>4 DEF deleteWorkflowGatewayResources, l, f

LEMMA ApplyList == ASSUME NEW pl PROVE applyGateway(pl) \in Seq(Routine)
  <1>1. applyGatewayAccess \in Seq(Routine) /\ applyGatewayWorkload \in Seq(Routine)
    BY GatewayCalls DEF applyGatewayAccess, applyGatewayWorkload, GatewayKinds
  <1>2. <<applyGatewayIngress(pl)>> \in Seq(Routine)
    BY GatewayCalls DEF applyGatewayIngress, GatewayKinds
  <1>3. applyGatewayAccess \o applyGatewayWorkload \in Seq(Routine)
    BY <1>1, ConcatProperties
  <1>4. applyGatewayAccess \o applyGatewayWorkload \o <<applyGatewayIngress(pl)>> \in Seq(Routine)
    BY <1>2, <1>3, ConcatProperties
  <1> QED BY <1>4 DEF applyGateway

LEMMA GatewayList ==
  ASSUME NEW pl PROVE ListOK(3, reconcileWorkflowGateway(pl))
  <1>1. <<>> \in Seq(Routine)
    OBVIOUS
  <1>2. reconcileWorkflowGateway(pl) \in Seq(Routine) \/ reconcileWorkflowGateway(pl) = AddList
    BY <1>1, DeleteList, ApplyList DEF reconcileWorkflowGateway, AddList
  <1> QED BY <1>2, RoutineList DEF ListOK

Calls == Seq(BlindCall \cup GatewayCall)

LEMMA ListType == ASSUME NEW c \in 0..5, NEW l, ListOK(c, l) PROVE l \in Calls
  <1>1. AddList \in Seq(GatewayCall)
    BY DEF AddList, Finalizer, GatewayCall
  <1>2. <<>> \in Seq(GatewayCall)
    OBVIOUS
  <1>3. l \in Seq(BlindCall) \/ l \in Seq(GatewayCall)
    <2>1. CASE c \in {1, 2}
      BY <2>1 DEF ListOK
    <2>2. CASE c = 3
      BY <1>1, <2>2 DEF ListOK
    <2>3. CASE c \notin 1..3
      BY <1>2, <2>3 DEF ListOK
    <2> QED BY <2>1, <2>2, <2>3
  <1> QED BY <1>3, SeqMonotonic DEF Calls

\* Changes of one field of the worker.
LEMMA SetComp ==
  ASSUME NEW wk \in WorkerType, NEW c \in 0..5, NEW x, x = [wk EXCEPT !.comp = c]
  PROVE  x \in WorkerType /\ x.comp = c /\ x.p = wk.p /\ x.obj = wk.obj /\ x.todo = wk.todo /\ x.err = wk.err
  BY DEF WorkerType, WritePhase

LEMMA SetTodo ==
  ASSUME NEW wk \in WorkerType, NEW l \in Calls, NEW x, x = [wk EXCEPT !.todo = l]
  PROVE  x \in WorkerType /\ x.comp = wk.comp /\ x.p = wk.p /\ x.obj = wk.obj /\ x.todo = l /\ x.err = wk.err
  BY DEF WorkerType, WritePhase, Calls

LEMMA SetErr ==
  ASSUME NEW wk \in WorkerType, NEW e \in BOOLEAN, NEW x, x = [wk EXCEPT !.err = e]
  PROVE  x \in WorkerType /\ x.comp = wk.comp /\ x.p = wk.p /\ x.obj = wk.obj /\ x.todo = wk.todo /\ x.err = e
  BY DEF WorkerType, WritePhase

LEMMA SetObj ==
  ASSUME NEW wk \in WorkerType, NEW pl \in LogicPlatform, NEW x, x = [wk EXCEPT !.obj = pl]
  PROVE  x \in WorkerType /\ x.comp = wk.comp /\ x.p = wk.p /\ x.obj = pl /\ x.todo = wk.todo /\ x.err = wk.err
  BY DEF WorkerType, WritePhase

\* Proceed goes forward, from one component to a later one or to the statuses.
LEMMA Proceeds ==
  ASSUME NEW wk \in WorkerType, wk.p \in Platforms, wk.comp \in 0..3, ListOK(wk.comp, wk.todo),
         NEW pl
  PROVE  LET comps == <<reconcileDataIndex(pl), reconcileVector(pl), reconcileWorkflowGateway(pl)>>
             next == Proceed(wk, comps)
         IN  /\ next \in WorkerType /\ next.p = wk.p /\ next.obj = wk.obj /\ next.err = wk.err
             /\ ListOK(next.comp, next.todo) /\ next.comp > 0
             /\ wk.todo # <<>> => next = wk
             /\ wk.todo = <<>> => next.comp > wk.comp
  <1> DEFINE comps == <<reconcileDataIndex(pl), reconcileVector(pl), reconcileWorkflowGateway(pl)>>
             rest == {c \in (wk.comp + 1)..3 : comps[c] # <<>>}
             next == Proceed(wk, comps)
  <1>1. CASE wk.todo # <<>>
    <2>1. next = wk
      BY <1>1 DEF Proceed
    <2>2. wk.comp # 0
      BY <1>1 DEF ListOK
    <2> QED BY <1>1, <2>1, <2>2
  <1>2. CASE wk.todo = <<>> /\ rest = {}
    <2>1. next = [wk EXCEPT !.comp = UpdatePhase]
      BY <1>2 DEF Proceed
    <2> QED BY <1>2, <2>1 DEF WorkerType, UpdatePhase, WritePhase, ListOK
  <1>3. CASE wk.todo = <<>> /\ rest # {}
    <2> DEFINE m == Min(rest)
    <2>1. m \in rest
      <3>1. PICK c \in rest : TRUE
        BY <1>3
      <3>2. rest \subseteq 1..3
        OBVIOUS
      <3> HIDE DEF rest
      <3>3. \E x \in rest : \A y \in rest : x =< y
        BY <3>1, <3>2
      <3> QED BY <3>3 DEF Min
    <2>2. m \in 1..3 /\ m > wk.comp
      BY <2>1 DEF WorkerType
    <2>3. next = [wk EXCEPT !.comp = m, !.todo = comps[m]]
      BY <1>3 DEF Proceed
    <2> HIDE DEF m, next
    <2>4. ListOK(m, comps[m])
      <3>1. CASE m = 3
        BY <3>1, GatewayList
      <3>2. CASE m \in {1, 2}
        BY <3>2, DataIndexList, VectorList DEF ListOK
      <3> QED BY <2>2, <3>1, <3>2
    <2> HIDE DEF comps
    <2>5. comps[m] \in Calls
      BY <2>2, <2>4, ListType
    <2>6. next \in WorkerType /\ next.comp = m /\ next.todo = comps[m]
          /\ next.p = wk.p /\ next.obj = wk.obj /\ next.err = wk.err
      <3> DEFINE x == [wk EXCEPT !.comp = m]
      <3>1. next = [x EXCEPT !.todo = comps[m]]
        BY <2>3
      <3>2. x \in WorkerType /\ x.comp = m /\ x.p = wk.p /\ x.obj = wk.obj /\ x.err = wk.err
        BY <2>2, SetComp
      <3> HIDE DEF x
      <3> QED BY <2>5, <3>1, <3>2, SetTodo
    <2> QED BY <1>3, <2>2, <2>4, <2>6 DEF comps, next
  <1> QED BY <1>1, <1>2, <1>3

\* What a step of the worker leaves, wherever its object is.
WorkerNext == w' \in WorkerType /\ WorkerOK'

LEMMA TwoLists ==
  /\ AddList \in Seq(GatewayCall) /\ Len(AddList) = 1 /\ AddList[1].op = "add"
  /\ <<>> \in Seq(BlindCall) /\ <<>> \in Seq(GatewayCall) /\ Len(<<>>) = 0 /\ <<>> # AddList
  <1>1. AddList \in Seq(GatewayCall) /\ Len(AddList) = 1 /\ AddList[1].op = "add"
    BY DEF AddList, Finalizer, GatewayCall
  <1>2. <<>> \in Seq(BlindCall) /\ <<>> \in Seq(GatewayCall) /\ Len(<<>>) = 0
    OBVIOUS
  <1> QED BY <1>1, <1>2

LEMMA EmptyList == \A c \in 0..5 : ListOK(c, <<>>)
  BY TwoLists DEF ListOK

LEMMA NoAdd == ASSUME NEW t, \A i \in 1..Len(t) : t[i].op # "add" PROVE t # AddList
  <1>1. ~ \A i \in 1..Len(AddList) : AddList[i].op # "add"
    BY TwoLists
  <1> QED BY <1>1

LEMMA ListTail ==
  ASSUME NEW l, ListOK(3, l), l # <<>>, NEW t, t = Tail(l)
  PROVE  ListOK(3, t) /\ t # AddList
  <1>1. CASE l = AddList
    <2>1. t = <<>>
      BY <1>1 DEF AddList
    <2>2. ListOK(3, <<>>)
      BY EmptyList
    <2> QED BY <2>1, <2>2, TwoLists
  <1>2. CASE l \in Seq(GatewayCall) /\ \A i \in 1..Len(l) : l[i].op # "add"
    <2>1. /\ t \in Seq(GatewayCall) /\ Len(t) = Len(l) - 1
          /\ \A i \in 1..Len(t) : t[i] = l[i+1]
      BY <1>2
    <2>2. \A i \in 1..Len(t) : t[i].op # "add"
      BY <1>2, <2>1
    <2>3. t # AddList
      BY <2>2, NoAdd
    <2> QED BY <2>1, <2>2, <2>3 DEF ListOK
  <1> QED BY <1>1, <1>2 DEF ListOK

\* The worker goes on with wk, whose gateway list is not the one that adds the finalizer.
LEMMA ProceedOK ==
  ASSUME NEW wk \in WorkerType, wk.comp = 3, wk.p \in Platforms, ListOK(3, wk.todo), wk.todo # AddList, NEW pl,
         w' = Proceed(wk, <<reconcileDataIndex(pl), reconcileVector(pl), reconcileWorkflowGateway(pl)>>)
  PROVE  /\ WorkerNext /\ w'.p = wk.p /\ w'.obj = wk.obj
         /\ w'.comp > 3 \/ (w'.comp = 3 /\ w'.todo # AddList)
  <1>1. wk.comp \in 0..3 /\ ListOK(wk.comp, wk.todo)
    OBVIOUS
  <1>2. /\ w' \in WorkerType /\ w'.p = wk.p /\ w'.obj = wk.obj /\ w'.err = wk.err
        /\ ListOK(w'.comp, w'.todo) /\ w'.comp > 0
        /\ wk.todo # <<>> => w' = wk
        /\ wk.todo = <<>> => w'.comp > wk.comp
    BY <1>1, Proceeds
  <1>3. WorkerNext
    BY <1>2 DEF WorkerNext, WorkerOK
  <1> QED BY <1>2, <1>3

LEMMA TodoSet ==
  ASSUME TypeOK, WorkerOK, w.comp = 3,
         NEW t, ListOK(3, t), t # AddList, NEW x, x = [w EXCEPT !.todo = t]
  PROVE  /\ x \in WorkerType /\ x.comp = 3 /\ x.p = w.p /\ x.p \in Platforms /\ x.obj = w.obj
         /\ ListOK(3, x.todo) /\ x.todo # AddList
  <1>1. w \in WorkerType /\ w.p \in Platforms /\ ListOK(3, w.todo)
    BY DEF TypeOK, WorkerOK
  <1>2. t \in Calls
    BY ListType
  <1>3. x \in WorkerType /\ x.comp = w.comp /\ x.p = w.p /\ x.obj = w.obj /\ x.todo = t
    BY <1>1, <1>2, SetTodo
  <1> QED BY <1>1, <1>3

LEMMA ContinueOK ==
  ASSUME TypeOK, WorkerOK, w.comp = 3, w.todo # <<>>, Continue
  PROVE  /\ WorkerNext /\ w'.p = w.p /\ w'.obj = w.obj
         /\ w'.comp > 3 \/ (w'.comp = 3 /\ w'.todo # AddList)
  <1>0. PICK t : t = Tail(w.todo)
    OBVIOUS
  <1>1. PICK x : x = [w EXCEPT !.todo = t]
    OBVIOUS
  <1>2. /\ x \in WorkerType /\ x.comp = 3 /\ x.p = w.p /\ x.p \in Platforms /\ x.obj = w.obj
        /\ ListOK(3, x.todo) /\ x.todo # AddList
    <2>1. ListOK(3, t) /\ t # AddList
      BY <1>0, ListTail DEF WorkerOK
    <2> QED BY <1>1, <2>1, TodoSet
  <1>3. w' = Proceed(x, <<reconcileDataIndex(w.obj), reconcileVector(w.obj), reconcileWorkflowGateway(w.obj)>>)
    BY <1>0, <1>1 DEF Continue, components
  <1> QED BY <1>2, <1>3, ProceedOK

LEMMA AbandonOK ==
  ASSUME TypeOK, WorkerOK, w.comp = 3, Abandon
  PROVE  WorkerNext /\ w'.p = w.p /\ w'.obj = w.obj /\ w'.comp > 3
  <1>1. w \in WorkerType /\ w.p \in Platforms
    BY DEF TypeOK, WorkerOK
  <1>2. ListOK(3, <<>>) /\ <<>> \in Calls
    BY EmptyList, ListType
  <1>3. PICK x : x = [w EXCEPT !.todo = <<>>]
    OBVIOUS
  <1>4. x \in WorkerType /\ x.comp = 3 /\ x.p = w.p /\ x.todo = <<>> /\ x.obj = w.obj
    BY <1>1, <1>2, <1>3, SetTodo
  <1>5. PICK wk : wk = [x EXCEPT !.err = TRUE]
    OBVIOUS
  <1>6. wk \in WorkerType /\ wk.comp = 3 /\ wk.p = w.p /\ wk.todo = <<>> /\ wk.obj = w.obj
    BY <1>4, <1>5, SetErr
  <1>7. w' = Proceed(wk, <<reconcileDataIndex(w.obj), reconcileVector(w.obj), reconcileWorkflowGateway(w.obj)>>)
    BY <1>3, <1>5 DEF Abandon, components
  <1>8. wk.comp \in 0..3 /\ ListOK(wk.comp, wk.todo) /\ wk.p \in Platforms
    BY <1>1, <1>2, <1>6
  <1>9. /\ w' \in WorkerType /\ w'.p = wk.p /\ w'.obj = wk.obj
        /\ ListOK(w'.comp, w'.todo) /\ w'.comp > 0
        /\ wk.todo = <<>> => w'.comp > wk.comp
    BY <1>6, <1>7, <1>8, Proceeds
  <1> QED BY <1>1, <1>6, <1>9 DEF WorkerNext, WorkerOK

-----------------------------------------------------------------------------
(* Types of what the actions compute                                       *)

NewsType == Platforms \cup (Streams \X (Platforms \cup {NoOne}))

LEMMA ZeroTypes ==
  /\ NoPlat \in LogicPlatform /\ Nothing \in Object /\ Idle \in WorkerType
  /\ [Nothing EXCEPT !.by = User] \in Object
  /\ \A s \in PlatSpec, u \in Nat : [NoPlat EXCEPT !.uid = u, !.gen = 1, !.spec = s] \in LogicPlatform
  <1>1. NoStatus \in Status
    BY DEF NoStatus, Status, Conds
  <1>2. NoSpec \in PlatSpec
    BY DEF NoSpec, PlatSpec
  <1>3. NoPlat \in LogicPlatform
    BY <1>1, <1>2 DEF NoPlat, LogicPlatform
  <1>4. Nothing \in Object /\ [Nothing EXCEPT !.by = User] \in Object
    BY DEF Nothing, Object, Reports
  <1>5. <<>> \in Calls
    BY DEF Calls
  <1>6. Idle \in WorkerType
    BY <1>3, <1>5 DEF Idle, WorkerType, Calls, WritePhase
  <1>7. \A s \in PlatSpec, u \in Nat : [NoPlat EXCEPT !.uid = u, !.gen = 1, !.spec = s] \in LogicPlatform
    BY <1>3 DEF LogicPlatform
  <1> QED BY <1>3, <1>4, <1>6, <1>7

LEMMA KeyIn == ASSUME NEW kind \in Kinds, NEW p \in Platforms PROVE Key(kind, p) \in Keys
  BY DEF Keys

LEMMA ScenarioType ==
  ASSUME sc \in Scenarios
  PROVE  /\ \A p \in Platforms : sc.specs[p] \subseteq PlatSpec
         /\ sc.stored \subseteq PlatSpec /\ sc.edits \in Nat /\ sc.faults \in Nat
  BY PlatformConstants DEF Scenario

LEMMA RequestsType ==
  ASSUME NEW k, NEW o \in Object PROVE Requests(k, o) \subseteq Platforms \cup {NoOne}
  BY DEF Requests, Object

LEMMA NotifyType ==
  ASSUME TypeOK, Notify, obj' \in [Keys -> Object] PROVE news' \subseteq NewsType
  <1>1. ASSUME NEW e \in news' PROVE e \in NewsType
    <2>1. CASE e \in news \/ e \in Platforms
      BY <2>1 DEF TypeOK, NewsType
    <2>2. ASSUME NEW k \in Keys, e \in {Stream(k)} \X (Requests(k, obj[k]) \cup Requests(k, obj'[k]))
          PROVE  e \in NewsType
      <3>1. Requests(k, obj[k]) \cup Requests(k, obj'[k]) \subseteq Platforms \cup {NoOne}
        BY RequestsType DEF TypeOK
      <3>2. Stream(k) \in Streams
        BY DEF Stream, Streams
      <3> QED BY <2>2, <3>1, <3>2 DEF NewsType
    <2> QED BY <1>1, <2>1, <2>2 DEF Notify
  <1> QED BY <1>1

LEMMA AppliedType ==
  ASSUME w.p \in Platforms, w.obj \in LogicPlatform, NEW o \in Object, NEW k
  PROVE  Applied(o, k) \in Object
  BY DEF Applied, Object, LogicPlatform

LEMMA EffectType ==
  ASSUME w.p \in Platforms, w.obj \in LogicPlatform, NEW op \in {"apply", "create", "delete"},
         NEW o \in Object, NEW k
  PROVE  Effect(op, o, k) \in Object
  BY AppliedType, ZeroTypes DEF Effect

LEMMA ReadinessType ==
  ASSUME NEW a \in Conds, NEW b \in Conds, NEW c \in Conds
  PROVE  platformComponentReadiness(<<a, b, c>>) \in Conds
  <1> DEFINE l == <<a, b, c>>
             bad == {i \in DOMAIN l : l[i] # "True"}
  <1>1. DOMAIN l = 1..3 /\ \A i \in 1..3 : l[i] \in Conds
    OBVIOUS
  <1> HIDE DEF l
  <1>2. CASE bad = {}
    BY <1>2 DEF platformComponentReadiness, Conds, l
  <1>3. CASE bad # {}
    <2>1. Min(bad) \in bad
      <3>1. bad \subseteq 1..3
        BY <1>1
      <3>2. PICK c0 \in bad : TRUE
        BY <1>3
      <3> HIDE DEF bad
      <3>3. \E x \in bad : \A y \in bad : x =< y
        BY <3>1, <3>2
      <3> QED BY <3>3 DEF Min
    <2>2. l[Min(bad)] \in Conds
      BY <1>1, <2>1
    <2> QED BY <1>3, <2>2 DEF platformComponentReadiness, l
  <1> QED BY <1>2, <1>3

LEMMA StatusTypes ==
  ASSUME NEW st \in Status, NEW p \in Platforms, NEW s \in PlatSpec, NEW os \in [Keys -> Object]
  PROVE  /\ updateDataIndexStatus(st, p, s, os) \in Status
         /\ updateVectorStatus(st, p, s, os) \in Status
         /\ updateWorkflowGatewayStatus(st, p, s, os) \in Status
         /\ updateLogicPlatformReadiness(st, s) \in Status
  <1>1. updateDataIndexStatus(st, p, s, os) \in Status
    <2> DEFINE dep == os[Key("diDeployment", p)]
               svc == os[Key("diService", p)]
               ing == os[Key("diIngress", p)]
               di == platformComponentReadiness(<<updateDataIndexStatusDeployment(dep),
                         Truth(There(svc)), Truth(updateStatusPersistence(dep))>>)
               ep == updateDeploymentStatusService(s, svc, ing)
    <2>1. /\ updateDataIndexStatusDeployment(dep) \in Conds /\ Truth(There(svc)) \in Conds
          /\ Truth(updateStatusPersistence(dep)) \in Conds
      BY DEF updateDataIndexStatusDeployment, Truth, Conds
    <2>2. di \in Conds
      BY <2>1, ReadinessType
    <2>3. ep \in {"none", "internal", "external"}
      BY DEF updateDeploymentStatusService
    <2>4. updateDataIndexStatus(st, p, s, os) =
             IF ~s.dataIndex THEN [st EXCEPT !.di = "none", !.endpoint = "none"]
             ELSE [st EXCEPT !.di = di, !.endpoint = ep]
      BY DEF updateDataIndexStatus
    <2> HIDE DEF di, ep
    <2>5. [st EXCEPT !.di = di, !.endpoint = ep] \in Status
      BY <2>2, <2>3 DEF Status
    <2>6. [st EXCEPT !.di = "none", !.endpoint = "none"] \in Status
      BY DEF Status, Conds
    <2> QED BY <2>4, <2>5, <2>6
  <1>2. updateVectorStatus(st, p, s, os) \in Status
    BY DEF updateVectorStatus, Status, Conds
  <1>3. updateWorkflowGatewayStatus(st, p, s, os) \in Status
    <2> DEFINE dep == os[Key("gwDeployment", p)]
               up  == There(dep) /\ dep.st = "ready"
               gw == CASE s.gateway = "off" -> "none"
                       [] up /\ There(os[Key("gwService", p)]) -> "True"
                       [] There(dep) /\ dep.st = "deadline" -> "deadline"
                       [] OTHER -> "False"
               url == s.gateway = "exposed" /\ ResolveIngressURL(os[Key("gwIngress", p)])
    <2>1. gw \in Conds
      BY DEF Conds
    <2>2. url \in BOOLEAN
      BY DEF ResolveIngressURL, There
    <2>3. updateWorkflowGatewayStatus(st, p, s, os) = [st EXCEPT !.gw = gw, !.url = url]
      BY DEF updateWorkflowGatewayStatus
    <2> HIDE DEF gw, url
    <2>4. [st EXCEPT !.gw = gw, !.url = url] \in Status
      BY <2>1, <2>2 DEF Status
    <2> QED BY <2>3, <2>4
  <1>4. updateLogicPlatformReadiness(st, s) \in Status
    BY DEF updateLogicPlatformReadiness, Status
  <1> QED BY <1>1, <1>2, <1>3, <1>4

-----------------------------------------------------------------------------
(* Type correctness                                                        *)

TypeInv == TypeOK /\ WorkerOK

\* A platform that exists takes another form.
LEMMA PlatEdits ==
  ASSUME NEW pl \in LogicPlatform
  PROVE  /\ \A s \in PlatSpec : /\ Respecified(pl, s) \in LogicPlatform
                               /\ Respecified(pl, s).uid = pl.uid /\ Respecified(pl, s).fin = pl.fin
         /\ Marked(pl) \in LogicPlatform /\ Marked(pl).uid = pl.uid /\ Marked(pl).fin = pl.fin
         /\ Noted(pl) \in LogicPlatform /\ Noted(pl).uid = pl.uid
         /\ \A f \in BOOLEAN : /\ [pl EXCEPT !.fin = f] \in LogicPlatform
                               /\ [pl EXCEPT !.fin = f].uid = pl.uid
                               /\ [pl EXCEPT !.fin = f].fin = f
         /\ \A st \in Status : /\ [pl EXCEPT !.status = st] \in LogicPlatform
                               /\ [pl EXCEPT !.status = st].uid = pl.uid
                               /\ [pl EXCEPT !.status = st].fin = pl.fin
  <1>0. ASSUME NEW y \in LogicPlatform, NEW x, x = [y EXCEPT !.gen = y.gen + 1]
        PROVE  x \in LogicPlatform /\ x.uid = y.uid /\ x.fin = y.fin
    BY <1>0 DEF LogicPlatform
  <1>1. ASSUME NEW s \in PlatSpec
        PROVE  /\ Respecified(pl, s) \in LogicPlatform
               /\ Respecified(pl, s).uid = pl.uid /\ Respecified(pl, s).fin = pl.fin
    <2>1. PICK y : y = [pl EXCEPT !.spec = s]
      OBVIOUS
    <2>2. y \in LogicPlatform /\ y.gen = pl.gen /\ y.uid = pl.uid /\ y.fin = pl.fin
      BY <2>1 DEF LogicPlatform
    <2>3. Respecified(pl, s) = [y EXCEPT !.gen = y.gen + 1]
      BY <2>1, <2>2 DEF Respecified
    <2> QED BY <1>0, <2>2, <2>3
  <1>2. Marked(pl) \in LogicPlatform /\ Marked(pl).uid = pl.uid /\ Marked(pl).fin = pl.fin
    <2>1. PICK y : y = [pl EXCEPT !.del = TRUE]
      OBVIOUS
    <2>2. y \in LogicPlatform /\ y.gen = pl.gen /\ y.uid = pl.uid /\ y.fin = pl.fin
      BY <2>1 DEF LogicPlatform
    <2>3. Marked(pl) = [y EXCEPT !.gen = y.gen + 1]
      BY <2>1, <2>2 DEF Marked
    <2> QED BY <1>0, <2>2, <2>3
  <1>3. \A f \in BOOLEAN : /\ [pl EXCEPT !.fin = f] \in LogicPlatform
                           /\ [pl EXCEPT !.fin = f].uid = pl.uid
                           /\ [pl EXCEPT !.fin = f].fin = f
    BY DEF LogicPlatform
  <1>4. \A st \in Status : /\ [pl EXCEPT !.status = st] \in LogicPlatform
                           /\ [pl EXCEPT !.status = st].uid = pl.uid
                           /\ [pl EXCEPT !.status = st].fin = pl.fin
    BY DEF LogicPlatform
  <1>5. Noted(pl) \in LogicPlatform /\ Noted(pl).uid = pl.uid
    <2>1. pl.status \in Status /\ pl.spec.exposed \in BOOLEAN
      BY DEF LogicPlatform, PlatSpec
    <2>2. [pl.status EXCEPT !.ref = pl.spec.exposed] \in Status
      BY <2>1 DEF Status
    <2>3. Noted(pl) = [pl EXCEPT !.status = [pl.status EXCEPT !.ref = pl.spec.exposed]]
      BY DEF Noted, LogicPlatform
    <2> QED BY <1>4, <2>2, <2>3
  <1> QED BY <1>1, <1>2, <1>3, <1>4, <1>5

LEMMA UsersType == ASSUME TypeInv, Users PROVE TypeInv'
  <1>0. TypeOK /\ sc \in Scenarios
    BY DEF TypeInv, TypeOK
  <1>1. ASSUME NEW k \in Keys, TouchObject(k) \/ \E r \in Reports : Report(k, r) PROVE TypeInv'
    <2>1. UNCHANGED <<plat, db, cache, queue, w, stray, faults, sc>> /\ edits' \in Nat /\ Notify
      BY <1>0, <1>1 DEF TouchObject, Report, Edit, TypeOK
    <2>2. obj' \in [Keys -> Object]
      <3>1. CASE TouchObject(k)
        BY <1>0, <3>1, ZeroTypes DEF TouchObject, TypeOK
      <3>2. ASSUME NEW r \in Reports, Report(k, r) PROVE obj' \in [Keys -> Object]
        BY <1>0, <3>2 DEF Report, TypeOK, Object
      <3> QED BY <1>1, <3>1, <3>2
    <2>3. news' \subseteq NewsType
      BY <1>0, <2>1, <2>2, NotifyType
    <2> QED BY <2>1, <2>2, <2>3 DEF TypeInv, TypeOK, WorkerOK, NewsType
  <1>2. ASSUME NEW p \in Platforms,
               DeletePlatform(p) \/ \E s \in sc.specs[p] : CreatePlatform(p, s) \/ UpdatePlatform(p, s)
        PROVE  TypeInv'
    <2>1. UNCHANGED <<obj, db, cache, queue, w, stray, faults, sc>> /\ edits' \in Nat /\ Notify
      BY <1>0, <1>2 DEF CreatePlatform, UpdatePlatform, DeletePlatform, Edit, TypeOK
    <2>2. plat' \in [Platforms -> LogicPlatform]
      <3>1. CASE DeletePlatform(p)
        BY <1>0, <3>1, ZeroTypes, PlatEdits DEF DeletePlatform, TypeOK
      <3>2. ASSUME NEW s \in sc.specs[p], CreatePlatform(p, s) PROVE plat' \in [Platforms -> LogicPlatform]
        <4>1. s \in PlatSpec /\ 1 + edits \in Nat
          BY <1>0, ScenarioType DEF TypeOK
        <4>2. Created(s) \in LogicPlatform
          BY <4>1, ZeroTypes DEF Created
        <4> QED BY <1>0, <3>2, <4>2 DEF CreatePlatform, TypeOK
      <3>3. ASSUME NEW s \in sc.specs[p], UpdatePlatform(p, s) PROVE plat' \in [Platforms -> LogicPlatform]
        <4>1. s \in PlatSpec /\ plat[p] \in LogicPlatform
          BY <1>0, ScenarioType DEF TypeOK
        <4>2. Respecified(plat[p], s) \in LogicPlatform
          BY <4>1, PlatEdits
        <4> QED BY <1>0, <3>3, <4>2 DEF UpdatePlatform, TypeOK
      <3> QED BY <1>2, <3>1, <3>2, <3>3
    <2>3. news' \subseteq NewsType
      BY <1>0, <2>1, NotifyType DEF TypeOK
    <2> QED BY <2>1, <2>2, <2>3 DEF TypeInv, TypeOK, WorkerOK, NewsType
  <1>3. ASSUME NEW d \in Databases, DatabaseChanges(d) PROVE TypeInv'
    BY <1>3 DEF DatabaseChanges, Edit, TypeInv, TypeOK, WorkerOK
  <1> QED BY <1>1, <1>2, <1>3 DEF Users

LEMMA DeliverType ==
  ASSUME TypeInv, NEW i \in {"objects", "platforms"}, DeliverAny(i) PROVE TypeInv'
  <1>0. TypeOK /\ cache \in CacheType
    BY DEF TypeInv, TypeOK, CacheType
  <1>1. ASSUME NEW st \in Streams, DeliverObjects(st) PROVE TypeInv'
    <2>1. UNCHANGED <<plat, obj, db, w, stray, edits, faults, sc>> /\ news' \subseteq news
      BY <1>1 DEF DeliverObjects
    <2>2. cache' \in CacheType
      <3>1. [k \in Keys |-> IF Stream(k) = st THEN obj[k] ELSE cache.obj[k]] \in [Keys -> Object]
        BY <1>0 DEF TypeOK, CacheType
      <3> QED BY <1>0, <1>1, <3>1 DEF DeliverObjects, CacheType
    <2>3. queue' \subseteq Platforms
      <3> DEFINE heard == {e \in news : e \notin Platforms /\ e[1] = st}
      <3>1. \A e \in heard : e[2] \in Platforms \cup {NoOne}
        BY <1>0 DEF TypeOK
      <3>2. queue' = queue \cup ({e[2] : e \in heard} \ {NoOne})
        BY <1>1 DEF DeliverObjects
      <3> HIDE DEF heard
      <3> QED BY <1>0, <3>1, <3>2 DEF TypeOK
    <2> QED BY <2>1, <2>2, <2>3 DEF TypeInv, TypeOK, WorkerOK, CacheType
  <1>2. ASSUME NEW p \in Platforms, DeliverPlatform(p) PROVE TypeInv'
    <2>1. UNCHANGED <<plat, obj, db, w, stray, edits, faults, sc>> /\ news' \subseteq news /\ queue' \subseteq Platforms
      BY <1>0, <1>2 DEF DeliverPlatform, TypeOK
    <2>2. cache' \in CacheType
      <3>1. [cache.plat EXCEPT ![p] = plat[p]] \in [Platforms -> LogicPlatform]
        BY <1>0 DEF TypeOK, CacheType
      <3>2. cache' = [cache EXCEPT !.plat = [cache.plat EXCEPT ![p] = plat[p]]]
        BY <1>0, <1>2 DEF DeliverPlatform, CacheType
      <3> QED BY <1>0, <3>1, <3>2 DEF CacheType
    <2> QED BY <2>1, <2>2 DEF TypeInv, TypeOK, WorkerOK, CacheType
  <1> QED BY <1>1, <1>2 DEF DeliverAny

LEMMA CollectType == ASSUME TypeInv, Collect PROVE TypeInv'
  <1>0. TypeOK
    BY DEF TypeInv
  <1>1. PICK kinds \in Parts : CollectGarbage(kinds)
    BY DEF Collect
  <1>2. UNCHANGED <<plat, db, cache, queue, w, stray, edits, faults, sc>> /\ Notify
    BY <1>1 DEF CollectGarbage
  <1>3. obj' \in [Keys -> Object]
    BY <1>0, <1>1, ZeroTypes DEF CollectGarbage, TypeOK
  <1>4. news' \subseteq NewsType
    BY <1>0, <1>2, <1>3, NotifyType
  <1> QED BY <1>2, <1>3, <1>4 DEF TypeInv, TypeOK, WorkerOK, NewsType

LEMMA IdleOK == ASSUME w' = Idle PROVE WorkerNext
  <1>1. Idle \in WorkerType /\ Idle.comp = 0 /\ Idle.todo = <<>>
    BY ZeroTypes DEF Idle
  <1>2. ListOK(0, <<>>)
    BY EmptyList
  <1> QED BY <1>1, <1>2 DEF WorkerNext, WorkerOK

LEMMA BeginOK ==
  ASSUME TypeInv, NEW p \in Platforms, Begin(p)
  PROVE  /\ TypeInv'
         /\ \/ w' = Idle
            \/ w'.p = p /\ w'.obj = cache.plat[p] /\ Exists(cache.plat[p])
  <1>1. UNCHANGED <<plat, obj, db, cache, news, stray, edits, faults, sc>> /\ queue' \subseteq queue
    BY DEF Begin
  <1>2. cache.plat[p] \in LogicPlatform
    BY DEF TypeInv, TypeOK
  <1>3. CASE ~Exists(cache.plat[p])
    <2>1. w' = Idle
      BY <1>3 DEF Begin
    <2> QED BY <1>1, <2>1, IdleOK DEF TypeInv, TypeOK, WorkerNext, Idle
  <1>4. CASE Exists(cache.plat[p])
    <2>1. PICK x : x = [Idle EXCEPT !.p = p]
      OBVIOUS
    <2>2. PICK wk : wk = [x EXCEPT !.obj = cache.plat[p]]
      OBVIOUS
    <2>3. x \in WorkerType /\ x.p = p /\ x.comp = 0 /\ x.todo = <<>>
      BY <2>1, ZeroTypes DEF WorkerType, Idle
    <2>4. wk \in WorkerType /\ wk.p = p /\ wk.comp = 0 /\ wk.todo = <<>> /\ wk.obj = cache.plat[p]
      BY <1>2, <2>2, <2>3, SetObj
    <2>5. w' = Proceed(wk, <<reconcileDataIndex(cache.plat[p]), reconcileVector(cache.plat[p]),
                             reconcileWorkflowGateway(cache.plat[p])>>)
      BY <1>4, <2>1, <2>2 DEF Begin
    <2>6. wk.comp \in 0..3 /\ ListOK(wk.comp, wk.todo)
      BY <2>4, EmptyList
    <2>7. /\ w' \in WorkerType /\ w'.p = wk.p /\ w'.obj = wk.obj
          /\ ListOK(w'.comp, w'.todo) /\ w'.comp > 0
      BY <2>4, <2>5, <2>6, Proceeds
    <2> QED BY <1>1, <1>4, <2>4, <2>7 DEF TypeInv, TypeOK, WorkerOK
  <1> QED BY <1>3, <1>4

\* The worker may still add the finalizer to the platform that it has read.
Reading == w.comp \in {1, 2} \/ (w.comp = 3 /\ w.todo = AddList)

\* It goes on with what it has read, if it may.
ReadsOn == /\ w'.obj.uid \in {0, w.obj.uid}
           /\ Reading' => Reading /\ w'.p = w.p /\ w'.obj.uid = w.obj.uid

LEMMA CallOK ==
  ASSUME TypeInv, NEW ops, Calling(ops), ops \cap {"apply", "create", "delete"} = {}
  PROVE  w.comp = 3 /\ w.todo # <<>> /\ Head(w.todo) \in GatewayCall
  <1>1. w.todo # <<>> /\ Head(w.todo).op \in ops
    BY DEF Calling
  <1>2. ListOK(w.comp, w.todo) /\ w.comp \in 0..5
    BY DEF TypeInv, WorkerOK, TypeOK, WorkerType, WritePhase
  <1>3. ASSUME w.todo \in Seq(BlindCall) PROVE FALSE
    <2>1. Head(w.todo) \in BlindCall
      BY <1>1, <1>3
    <2> QED BY <1>1, <2>1 DEF BlindCall
  <1>4. w.comp = 3
    BY <1>1, <1>2, <1>3 DEF ListOK
  <1>5. w.todo \in Seq(GatewayCall)
    BY <1>2, <1>4, TwoLists DEF ListOK
  <1> QED BY <1>1, <1>4, <1>5

LEMMA AddingOK == ASSUME TypeInv, Calling({"add"}) PROVE w.comp = 3 /\ w.todo = AddList /\ w.p \in Platforms
  <1>1. w.comp = 3 /\ w.todo # <<>>
    BY CallOK
  <1>2. ASSUME w.todo \in Seq(GatewayCall), \A i \in 1..Len(w.todo) : w.todo[i].op # "add" PROVE FALSE
    <2>1. Head(w.todo) = w.todo[1] /\ 1 \in 1..Len(w.todo)
      BY <1>1, <1>2
    <2> QED BY <1>2, <2>1 DEF Calling
  <1>3. w.todo = AddList
    BY <1>1, <1>2 DEF TypeInv, WorkerOK, ListOK
  <1> QED BY <1>1, <1>3 DEF TypeInv, WorkerOK

\* The calls of a component are made, up to the end or to the one that fails.
BlindDone(n, wk) ==
    /\ wk.comp = w.comp /\ wk.p = w.p /\ wk.todo = <<>> /\ wk.obj \in {w.obj, Noted(w.obj)}
    /\ wk.err = (w.err \/ n < Len(w.todo))
    /\ w' = Proceed(wk, <<reconcileDataIndex(w.obj), reconcileVector(w.obj), reconcileWorkflowGateway(w.obj)>>)

LEMMA BlindNext ==
  ASSUME TypeInv, NEW n \in 0..5, BlindCalls(n) PROVE \E wk \in WorkerType : BlindDone(n, wk)
  <1>0. w \in WorkerType /\ w.comp \in 0..5 /\ w.obj \in LogicPlatform /\ w.err \in BOOLEAN
    BY DEF TypeInv, TypeOK, WorkerType, WritePhase
  <1> DEFINE failed == n < Len(w.todo)
             noted == w.comp = 1 /\ n >= Len(w.todo) - 1
  <1>1. PICK e : e = (w.err \/ failed)
    OBVIOUS
  <1>2. PICK pl : pl = IF noted THEN Noted(w.obj) ELSE w.obj
    OBVIOUS
  <1>3. w' = Proceed([w EXCEPT !.todo = <<>>, !.err = e, !.obj = pl], components)
    BY <1>1, <1>2 DEF BlindCalls
  <1>4. e \in BOOLEAN /\ pl \in {w.obj, Noted(w.obj)}
    BY <1>0, <1>1, <1>2
  <1> HIDE DEF noted
  <1>5. pl \in LogicPlatform
    BY <1>0, <1>4, PlatEdits
  <1>6. PICK x : x = [w EXCEPT !.todo = <<>>]
    OBVIOUS
  <1>7. x \in WorkerType /\ x.comp = w.comp /\ x.p = w.p /\ x.todo = <<>>
    BY <1>0, <1>6, EmptyList, ListType, SetTodo
  <1>8. PICK y : y = [x EXCEPT !.err = e]
    OBVIOUS
  <1>9. y \in WorkerType /\ y.comp = w.comp /\ y.p = w.p /\ y.todo = <<>> /\ y.err = e
    BY <1>4, <1>7, <1>8, SetErr
  <1>10. PICK wk : wk = [y EXCEPT !.obj = pl]
    OBVIOUS
  <1>11. wk \in WorkerType /\ wk.comp = w.comp /\ wk.p = w.p /\ wk.todo = <<>> /\ wk.obj = pl /\ wk.err = e
    BY <1>5, <1>9, <1>10, SetObj
  <1>12. w' = Proceed(wk, <<reconcileDataIndex(w.obj), reconcileVector(w.obj), reconcileWorkflowGateway(w.obj)>>)
    BY <1>3, <1>6, <1>8, <1>10 DEF components
  <1>13. BlindDone(n, wk)
    BY <1>1, <1>4, <1>11, <1>12 DEF BlindDone
  <1> QED BY <1>11, <1>13

LEMMA BlindCallsOK ==
  ASSUME TypeInv, NEW n \in 0..5, BlindCalls(n) PROVE TypeInv' /\ ReadsOn
  <1>0. TypeOK /\ w \in WorkerType /\ w.comp \in {1, 2} /\ w.p \in Platforms /\ n \in 0..Len(w.todo)
    BY DEF BlindCalls, TypeInv, TypeOK, WorkerOK
  <1>a. w.obj \in LogicPlatform /\ w.err \in BOOLEAN
    BY <1>0 DEF WorkerType
  <1>1. UNCHANGED <<plat, db, cache, queue, stray, edits, sc>> /\ Notify /\ faults' \in Nat
    BY <1>0 DEF BlindCalls, Fault, TypeOK
  <1>2. obj' \in [Keys -> Object]
    <2> DEFINE done(k) == {i \in 1..n : Key(w.todo[i].kind, w.p) = k}
    <2>1. obj' = [k \in Keys |-> IF done(k) = {} THEN obj[k] ELSE Effect(w.todo[Min(done(k))].op, obj[k], k)]
      BY DEF BlindCalls
    <2>2. w.todo \in Seq(BlindCall)
      BY <1>0 DEF TypeInv, WorkerOK, ListOK
    <2>3. ASSUME NEW k \in Keys, done(k) # {} PROVE w.todo[Min(done(k))].op \in {"apply", "create", "delete"}
      <3>1. done(k) \subseteq 1..5
        OBVIOUS
      <3>2. PICK c \in done(k) : TRUE
        BY <2>3
      <3>3. \E x \in done(k) : \A y \in done(k) : x =< y
        <4>1. PICK D : D = done(k)
          OBVIOUS
        <4>2. D \subseteq 1..5 /\ c \in D
          BY <3>1, <3>2, <4>1
        <4> HIDE DEF done
        <4>3. \E x \in D : \A y \in D : x =< y
          BY <4>2
        <4> QED BY <4>1, <4>3
      <3>4. Min(done(k)) \in done(k)
        BY <3>3 DEF Min
      <3>5. PICK i : i = Min(done(k))
        OBVIOUS
      <3>6. i \in 1..n
        BY <3>4, <3>5
      <3>7. i \in 1..Len(w.todo)
        BY <1>0, <2>2, <3>6
      <3>8. w.todo[i] \in BlindCall
        BY <2>2, <3>7
      <3> QED BY <3>5, <3>8 DEF BlindCall
    <2> HIDE DEF done
    <2>4. \A k \in Keys : obj[k] \in Object
      BY <1>0 DEF TypeOK
    <2> QED BY <1>0, <1>a, <2>1, <2>3, <2>4, EffectType
  <1>3. news' \subseteq NewsType
    BY <1>0, <1>1, <1>2, NotifyType
  <1>4. PICK wk \in WorkerType : BlindDone(n, wk)
    BY BlindNext
  <1>5. /\ wk.comp = w.comp /\ wk.p = w.p /\ wk.todo = <<>> /\ (wk.obj = w.obj \/ wk.obj = Noted(w.obj))
        /\ w' = Proceed(wk, <<reconcileDataIndex(w.obj), reconcileVector(w.obj), reconcileWorkflowGateway(w.obj)>>)
    BY <1>4 DEF BlindDone
  <1>6. wk.obj \in LogicPlatform /\ wk.obj.uid = w.obj.uid
    <2>1. Noted(w.obj) \in LogicPlatform /\ Noted(w.obj).uid = w.obj.uid
      BY <1>a, PlatEdits
    <2> QED BY <1>a, <1>5, <2>1
  <1>7. wk.comp \in 0..3 /\ ListOK(wk.comp, wk.todo) /\ wk.p \in Platforms
    BY <1>0, <1>5, EmptyList
  <1>8. /\ w' \in WorkerType /\ w'.p = wk.p /\ w'.obj = wk.obj
        /\ ListOK(w'.comp, w'.todo) /\ w'.comp > 0
    BY <1>5, <1>7, Proceeds
  <1>9. TypeInv'
    BY <1>0, <1>1, <1>2, <1>3, <1>7, <1>8 DEF TypeInv, TypeOK, WorkerOK, NewsType
  <1>10. ReadsOn
    BY <1>0, <1>5, <1>6, <1>8 DEF ReadsOn, Reading
  <1> QED BY <1>9, <1>10

LEMMA ObjectCallsOK ==
  ASSUME TypeInv, ApplyObject \/ DeleteObject PROVE TypeInv' /\ ReadsOn
  <1>0. TypeOK /\ WorkerOK
    BY DEF TypeInv
  <1>1. UNCHANGED <<plat, db, cache, queue, stray, edits, faults, sc>> /\ Notify /\ (Abandon \/ Continue)
    BY DEF ApplyObject, DeleteObject
  <1>2. w.comp = 3 /\ w.todo # <<>>
    <2>1. CASE ApplyObject
      BY <2>1 DEF ApplyObject, Calling
    <2>2. CASE DeleteObject
      BY <2>2, CallOK DEF DeleteObject
    <2> QED BY <2>1, <2>2
  <1>3. obj' \in [Keys -> Object]
    <2>1. \A o \in Object : Applied(o, CallKey) \in Object
      BY <1>0, <1>2, AppliedType DEF WorkerOK, TypeOK, WorkerType
    <2>2. CASE ApplyObject
      BY <1>0, <2>1, <2>2 DEF ApplyObject, TypeOK
    <2>3. CASE DeleteObject
      BY <1>0, <2>3, ZeroTypes DEF DeleteObject, TypeOK
    <2> QED BY <2>2, <2>3
  <1>4. news' \subseteq NewsType
    BY <1>0, <1>1, <1>3, NotifyType
  <1>5. WorkerNext /\ ReadsOn
    BY <1>0, <1>1, <1>2, AbandonOK, ContinueOK DEF Reading, ReadsOn
  <1> QED BY <1>0, <1>1, <1>3, <1>4, <1>5 DEF TypeInv, TypeOK, WorkerNext, NewsType

\* What a response is decoded into is a platform, with the response's uid, generation and
\* finalizer, whatever it keeps of the old one.
LEMMA DecodedOK ==
  ASSUME NEW old \in LogicPlatform, NEW new \in LogicPlatform, NEW pl \in Decoded(old, new)
  PROVE  pl \in LogicPlatform /\ pl.uid = new.uid /\ pl.gen = new.gen /\ pl.fin = new.fin
  <1>1. \A s \in DecodedSpecs(old.spec, new.spec) : s \in PlatSpec
    BY DEF DecodedSpecs
  <1>2. DecodedStatus(old.status, new.status) \in Status
    BY DEF LogicPlatform, DecodedStatus, Status
  <1>3. PICK s \in DecodedSpecs(old.spec, new.spec) :
            pl = [new EXCEPT !.spec = s, !.del = @ \/ old.del,
                             !.status = DecodedStatus(old.status, @)]
    BY DEF Decoded
  <1> QED BY <1>1, <1>2, <1>3 DEF LogicPlatform

\* A finalizer that is added goes onto the platform that has the name now.
LEMMA AddFinalizerOK ==
  ASSUME TypeInv, AddFinalizer
  PROVE  /\ TypeInv' /\ ~Reading' /\ Reading /\ w.p \in Platforms
         /\ UNCHANGED <<cache, edits>>
         /\ \/ /\ UNCHANGED <<plat, stray>> /\ w'.obj = w.obj
            \/ /\ Exists(plat[w.p]) /\ validateSingleton(w.p)
               /\ plat' = [plat EXCEPT ![w.p] = [plat[w.p] EXCEPT !.fin = TRUE]]
               /\ w'.obj.uid = plat[w.p].uid
               /\ stray' = (stray \/ plat[w.p].uid # w.obj.uid)
  <1> DEFINE now == plat[w.p]
             new == [now EXCEPT !.fin = TRUE]
             good == Exists(now) /\ (now.del => now.fin) /\ validate(w.p, now.spec)
  <1>0. TypeOK /\ WorkerOK /\ w \in WorkerType
    BY DEF TypeInv, TypeOK
  <1>1. w.comp = 3 /\ w.todo = AddList /\ w.p \in Platforms /\ Reading
    BY AddingOK DEF AddFinalizer, Reading
  <1>2. UNCHANGED <<obj, db, cache, queue, edits, faults, sc>> /\ Notify
    BY DEF AddFinalizer
  <1>3. news' \subseteq NewsType
    BY <1>0, <1>2, NotifyType DEF TypeOK
  <1>4. CASE ~good
    <2>1. Abandon /\ UNCHANGED <<plat, stray>>
      BY <1>4 DEF AddFinalizer
    <2>2. WorkerNext /\ w'.obj = w.obj /\ w'.comp > 3
      BY <1>0, <1>1, <2>1, AbandonOK
    <2>3. ~Reading'
      BY <2>2 DEF Reading, WorkerNext
    <2> QED BY <1>0, <1>1, <1>2, <1>3, <2>1, <2>2, <2>3 DEF TypeInv, TypeOK, WorkerNext, NewsType
  <1>5. CASE good
    <2>1. /\ plat' = [plat EXCEPT ![w.p] = new] /\ stray' = (stray \/ now.uid # w.obj.uid)
          /\ \E pl \in Decoded(w.obj, new) : w' = [w EXCEPT !.todo = applyGateway(pl), !.obj = pl]
      BY <1>5 DEF AddFinalizer
    <2>2. new \in LogicPlatform /\ new.uid = now.uid
      BY <1>0, <1>1, PlatEdits DEF TypeOK
    <2>3. plat' \in [Platforms -> LogicPlatform] /\ stray' \in BOOLEAN
      BY <1>0, <1>1, <2>1, <2>2 DEF TypeOK
    <2>13. w.obj \in LogicPlatform
      BY <1>0 DEF WorkerType
    <2> HIDE DEF now, new
    <2>14. PICK pl \in Decoded(w.obj, new) : w' = [w EXCEPT !.todo = applyGateway(pl), !.obj = pl]
      BY <2>1
    <2>15. pl \in LogicPlatform /\ pl.uid = now.uid
      BY <2>2, <2>13, DecodedOK
    <2>4. PICK t : t = applyGateway(pl)
      OBVIOUS
    <2>5. ListOK(3, t) /\ t # AddList
      <3>1. t \in Seq(Routine)
        BY <2>4, ApplyList
      <3> QED BY <3>1, RoutineList, NoAdd DEF ListOK
    <2>6. PICK x : x = [w EXCEPT !.todo = t]
      OBVIOUS
    <2>7. /\ x \in WorkerType /\ x.comp = 3 /\ x.p = w.p /\ x.todo = t
      BY <1>0, <1>1, <2>5, <2>6, SetTodo, ListType
    <2>8. w' = [x EXCEPT !.obj = pl]
      BY <2>14, <2>4, <2>6
    <2>9. w' \in WorkerType /\ w'.comp = 3 /\ w'.p = w.p /\ w'.todo = t /\ w'.obj = pl
      BY <2>15, <2>7, <2>8, SetObj
    <2>10. TypeInv'
      BY <1>0, <1>1, <1>2, <1>3, <2>3, <2>5, <2>9 DEF TypeInv, TypeOK, WorkerOK, NewsType
    <2>11. ~Reading'
      BY <2>5, <2>9 DEF Reading
    <2>12. Exists(plat[w.p]) /\ validateSingleton(w.p)
      BY <1>5 DEF validate, now
    <2> QED BY <1>1, <1>2, <2>1, <2>9, <2>10, <2>11, <2>12, <2>15 DEF now, new
  <1> QED BY <1>4, <1>5

\* The finalizer goes, and with it a platform that is being deleted.
LEMMA RemoveFinalizerOK ==
  ASSUME TypeInv, RemoveFinalizer
  PROVE  /\ TypeInv' /\ ~Reading' /\ w.p \in Platforms /\ UNCHANGED <<cache, edits, stray>>
         /\ \/ UNCHANGED plat /\ w'.obj = w.obj
            \/ /\ plat' = [plat EXCEPT ![w.p] = IF plat[w.p].del THEN NoPlat
                                                ELSE [plat[w.p] EXCEPT !.fin = FALSE]]
               /\ w'.obj.uid = plat[w.p].uid
  <1> DEFINE now == plat[w.p]
             new == [now EXCEPT !.fin = FALSE]
             good == Exists(now) /\ validate(w.p, now.spec)
  <1>0. TypeOK /\ WorkerOK /\ w \in WorkerType
    BY DEF TypeInv, TypeOK
  <1>6. Calling({"remove"})
    BY DEF RemoveFinalizer
  <1>1. w.comp = 3 /\ w.todo # <<>> /\ w.p \in Platforms
    BY <1>0, <1>6, CallOK DEF WorkerOK
  <1>2. UNCHANGED <<obj, db, cache, queue, edits, faults, stray, sc>> /\ Notify
    BY DEF RemoveFinalizer
  <1>3. news' \subseteq NewsType
    BY <1>0, <1>2, NotifyType DEF TypeOK
  <1>4. CASE ~good
    <2>1. Abandon /\ UNCHANGED plat
      BY <1>4 DEF RemoveFinalizer
    <2>2. WorkerNext /\ w'.obj = w.obj /\ w'.comp > 3
      BY <1>0, <1>1, <2>1, AbandonOK
    <2>3. ~Reading'
      BY <2>2 DEF Reading, WorkerNext
    <2> QED BY <1>0, <1>1, <1>2, <1>3, <2>1, <2>2, <2>3 DEF TypeInv, TypeOK, WorkerNext, NewsType
  <1>5. CASE good
    <2>1. /\ plat' = [plat EXCEPT ![w.p] = IF now.del THEN NoPlat ELSE new]
          /\ \E pl \in Decoded(w.obj, new) : w' = Proceed([w EXCEPT !.todo = Tail(@), !.obj = pl], components)
      BY <1>5 DEF RemoveFinalizer
    <2>2. new \in LogicPlatform /\ new.uid = now.uid
      BY <1>0, <1>1, PlatEdits DEF TypeOK
    <2>3. plat' \in [Platforms -> LogicPlatform]
      BY <1>0, <1>1, <2>1, <2>2, ZeroTypes DEF TypeOK
    <2>14. w.obj \in LogicPlatform
      BY <1>0 DEF WorkerType
    <2> HIDE DEF now, new
    <2>15. PICK pl \in Decoded(w.obj, new) :
               w' = Proceed([w EXCEPT !.todo = Tail(@), !.obj = pl], components)
      BY <2>1
    <2>16. pl \in LogicPlatform /\ pl.uid = now.uid
      BY <2>2, <2>14, DecodedOK
    <2>4. PICK t : t = Tail(w.todo)
      OBVIOUS
    <2>5. ListOK(3, t) /\ t # AddList
      BY <1>0, <1>1, <2>4, ListTail DEF WorkerOK
    <2>6. PICK x : x = [w EXCEPT !.todo = t]
      OBVIOUS
    <2>7. x \in WorkerType /\ x.comp = 3 /\ x.p = w.p /\ x.todo = t
      BY <1>0, <1>1, <2>5, <2>6, SetTodo, ListType
    <2>8. PICK wk : wk = [x EXCEPT !.obj = pl]
      OBVIOUS
    <2>9. wk \in WorkerType /\ wk.comp = 3 /\ wk.p = w.p /\ wk.todo = t /\ wk.obj = pl
      BY <2>16, <2>7, <2>8, SetObj
    <2>10. w' = Proceed(wk, <<reconcileDataIndex(w.obj), reconcileVector(w.obj), reconcileWorkflowGateway(w.obj)>>)
      BY <2>15, <2>4, <2>6, <2>8 DEF components
    <2>11. /\ WorkerNext /\ w'.p = wk.p /\ w'.obj = wk.obj
           /\ w'.comp > 3 \/ (w'.comp = 3 /\ w'.todo # AddList)
      BY <1>1, <2>5, <2>9, <2>10, ProceedOK
    <2>12. TypeInv'
      BY <1>0, <1>2, <1>3, <2>3, <2>11 DEF TypeInv, TypeOK, WorkerNext, NewsType
    <2>13. ~Reading'
      BY <2>11 DEF Reading, WorkerNext
    <2> QED BY <1>1, <1>2, <2>1, <2>9, <2>11, <2>12, <2>13, <2>16 DEF now, new
  <1> QED BY <1>4, <1>5

LEMMA UpdateStatusOK == ASSUME TypeInv, UpdateStatus PROVE TypeInv' /\ ReadsOn
  <1>0. TypeOK /\ WorkerOK /\ w \in WorkerType /\ w.comp = 4 /\ w.p \in Platforms
    BY DEF TypeInv, TypeOK, UpdateStatus, UpdatePhase, WorkerOK
  <1>1. w.obj \in LogicPlatform /\ w.obj.status \in Status /\ w.obj.spec \in PlatSpec /\ w.todo = <<>>
    BY <1>0 DEF WorkerType, LogicPlatform, WorkerOK, ListOK
  <1>2. PICK st \in Status : w' = [w EXCEPT !.obj.status = st, !.comp = WritePhase]
    <2> DEFINE s == w.obj.spec
               os == cache.obj
               a == updateDataIndexStatus(w.obj.status, w.p, s, os)
               b == updateVectorStatus(a, w.p, s, os)
               c == updateWorkflowGatewayStatus(b, w.p, s, os)
    <2>0. os \in [Keys -> Object] /\ s \in PlatSpec
      BY <1>0, <1>1 DEF TypeOK
    <2>1. w' = [w EXCEPT !.obj.status = c, !.comp = WritePhase]
      BY DEF UpdateStatus
    <2> HIDE DEF s, os
    <2>2. a \in Status
      BY <1>0, <1>1, <2>0, StatusTypes
    <2> HIDE DEF a
    <2>3. b \in Status
      BY <1>0, <2>0, <2>2, StatusTypes
    <2> HIDE DEF b
    <2>4. c \in Status
      BY <1>0, <2>0, <2>3, StatusTypes
    <2> HIDE DEF c
    <2> QED BY <2>1, <2>4
  <1>3. PICK pl : pl = [w.obj EXCEPT !.status = st]
    OBVIOUS
  <1>4. pl \in LogicPlatform /\ pl.uid = w.obj.uid
    BY <1>1, <1>2, <1>3, PlatEdits
  <1>5. PICK x : x = [w EXCEPT !.obj = pl]
    OBVIOUS
  <1>6. x \in WorkerType /\ x.p = w.p /\ x.obj = pl /\ x.todo = <<>>
    BY <1>0, <1>1, <1>4, <1>5, SetObj
  <1>7. w' = [x EXCEPT !.comp = 5]
    BY <1>0, <1>2, <1>3, <1>5 DEF WorkerType, WritePhase
  <1>8. w' \in WorkerType /\ w'.p = w.p /\ w'.obj = pl /\ w'.todo = <<>> /\ w'.comp = 5
    BY <1>6, <1>7, SetComp
  <1>9. UNCHANGED <<plat, obj, db, cache, news, queue, stray, edits, faults, sc>>
    BY DEF UpdateStatus
  <1>10. ListOK(5, <<>>)
    BY EmptyList
  <1>11. TypeInv'
    BY <1>0, <1>8, <1>9, <1>10 DEF TypeInv, TypeOK, WorkerOK
  <1> QED BY <1>4, <1>8, <1>11 DEF ReadsOn, Reading

\* The status that is written is all that changes of the platform.
LEMMA WriteStatusOK ==
  ASSUME TypeInv, writeStatus
  PROVE  /\ TypeInv' /\ w' = Idle /\ UNCHANGED <<cache, edits, stray>>
         /\ \A p \in Platforms : plat'[p].uid = plat[p].uid /\ plat'[p].fin = plat[p].fin
  <1>0. TypeOK /\ WorkerOK /\ w \in WorkerType /\ w.comp = 5 /\ w.p \in Platforms
    BY DEF TypeInv, TypeOK, writeStatus, WritePhase, WorkerOK
  <1>1. w.obj.status \in Status /\ w.obj.spec \in PlatSpec /\ w.obj.gen \in Nat
    BY <1>0 DEF WorkerType, LogicPlatform
  <1> DEFINE st == updateLogicPlatformReadiness([w.obj.status EXCEPT !.og = w.obj.gen], w.obj.spec)
             ok == Exists(plat[w.p]) /\ cache.plat[w.p] = plat[w.p]
  <1>2. st \in Status
    <2>1. [w.obj.status EXCEPT !.og = w.obj.gen] \in Status
      BY <1>1 DEF Status
    <2>2. PICK os : os \in [Keys -> Object]
      BY <1>0 DEF TypeOK
    <2> QED BY <1>0, <1>1, <2>1, <2>2, StatusTypes
  <1>3. /\ plat' = (IF ok THEN [plat EXCEPT ![w.p].status = st] ELSE plat)
        /\ queue' \subseteq queue \cup {w.p} /\ w' = Idle
        /\ UNCHANGED <<obj, db, cache, edits, faults, stray, sc>> /\ Notify
    BY DEF writeStatus
  <1> HIDE DEF st, ok
  <1>4. PICK pl : pl = [plat[w.p] EXCEPT !.status = st]
    OBVIOUS
  <1>5. pl \in LogicPlatform /\ pl.uid = plat[w.p].uid /\ pl.fin = plat[w.p].fin
    BY <1>0, <1>2, <1>4, PlatEdits DEF TypeOK
  <1>6. plat' = [plat EXCEPT ![w.p] = pl] \/ plat' = plat
    BY <1>0, <1>3, <1>4 DEF TypeOK
  <1>7. /\ plat' \in [Platforms -> LogicPlatform]
        /\ \A p \in Platforms : plat'[p].uid = plat[p].uid /\ plat'[p].fin = plat[p].fin
    BY <1>0, <1>5, <1>6 DEF TypeOK
  <1>8. news' \subseteq NewsType
    BY <1>0, <1>3, NotifyType DEF TypeOK
  <1>9. WorkerNext
    BY <1>3, IdleOK
  <1> QED BY <1>0, <1>3, <1>7, <1>8, <1>9 DEF TypeInv, TypeOK, WorkerNext, NewsType

LEMMA CallFailsOK == ASSUME TypeInv, CallFails PROVE TypeInv' /\ ReadsOn
  <1>1. TypeOK /\ WorkerOK /\ w.comp = 3 /\ Abandon
    BY DEF TypeInv, CallFails
  <1>2. WorkerNext /\ w'.p = w.p /\ w'.obj = w.obj /\ w'.comp > 3
    BY <1>1, AbandonOK
  <1>3. faults' \in Nat
    BY <1>1 DEF CallFails, Fault, TypeOK
  <1>4. ~Reading'
    BY <1>2 DEF Reading, WorkerNext
  <1> QED BY <1>1, <1>2, <1>3, <1>4 DEF CallFails, TypeInv, TypeOK, WorkerNext, ReadsOn

LEMMA RestartOK == ASSUME TypeInv, Restart PROVE TypeInv'
  <1>1. TypeOK /\ faults' \in Nat
    BY DEF TypeInv, Restart, Fault, TypeOK
  <1>2. WorkerNext
    BY IdleOK DEF Restart
  <1>3. cache' \in CacheType
    BY <1>1 DEF Restart, TypeOK, CacheType
  <1> QED BY <1>1, <1>2, <1>3 DEF Restart, TypeInv, TypeOK, WorkerNext, CacheType

LEMMA InitPlatforms ==
  ASSUME Init
  PROVE  /\ plat \in [Platforms -> LogicPlatform]
         /\ \A p \in Platforms : plat[p].uid \in {0, 1} /\ ~plat[p].fin
  <1> DEFINE stored(s) == [NoPlat EXCEPT !.uid = 1, !.gen = 1, !.spec = s]
  <1>1. PICK ps \in SUBSET {p \in Platforms : sc.specs[p] # {}} : \E s \in [ps -> sc.stored] :
           plat = [p \in Platforms |-> IF p \in ps THEN stored(s[p]) ELSE NoPlat]
    BY DEF Init
  <1>2. PICK s \in [ps -> sc.stored] :
           plat = [p \in Platforms |-> IF p \in ps THEN stored(s[p]) ELSE NoPlat]
    BY <1>1
  <1>3. \A p \in ps : s[p] \in PlatSpec
    BY ScenarioType DEF Init
  <1>4. NoPlat \in LogicPlatform /\ NoPlat.uid = 0 /\ ~NoPlat.fin
    BY ZeroTypes DEF NoPlat
  <1>5. \A x \in PlatSpec : stored(x) \in LogicPlatform /\ stored(x).uid = 1 /\ ~stored(x).fin
    BY ZeroTypes DEF NoPlat
  <1> HIDE DEF stored
  <1> QED BY <1>2, <1>3, <1>4, <1>5

LEMMA TypeInit == ASSUME Init PROVE TypeInv
  <1>1. sc \in Scenarios /\ sc.stored \subseteq PlatSpec /\ sc.edits \in Nat /\ sc.faults \in Nat
    BY ScenarioType DEF Init
  <1>2. plat \in [Platforms -> LogicPlatform]
    BY <1>1, InitPlatforms
  <1>3. obj \in [Keys -> Object]
    BY ZeroTypes DEF Init
  <1>4. cache \in CacheType
    BY <1>2, <1>3 DEF Init, CacheType
  <1>5. w \in WorkerType /\ w.comp = 0 /\ w.todo = <<>>
    BY ZeroTypes DEF Init, Idle
  <1>6. WorkerOK
    BY <1>5, EmptyList DEF WorkerOK
  <1> QED BY <1>1, <1>2, <1>3, <1>4, <1>5, <1>6 DEF Init, TypeInv, TypeOK, CacheType, Databases

LEMMA TypeStep == ASSUME TypeInv, [Next]_vars PROVE TypeInv'
  <1>1. CASE Users
    BY <1>1, UsersType
  <1>2. CASE \E i \in {"objects", "platforms"} : DeliverAny(i)
    BY <1>2, DeliverType
  <1>3. CASE Collect
    BY <1>3, CollectType
  <1>4. CASE \E p \in Platforms : Begin(p)
    BY <1>4, BeginOK
  <1>5. CASE Worker
    BY <1>5, BlindCallsOK, ObjectCallsOK, AddFinalizerOK, RemoveFinalizerOK,
       UpdateStatusOK, WriteStatusOK DEF Worker
  <1>6. CASE CallFails
    BY <1>6, CallFailsOK
  <1>7. CASE Restart
    BY <1>7, RestartOK
  <1>8. CASE UNCHANGED vars
    BY <1>8 DEF vars, TypeInv, TypeOK, WorkerOK
  <1> QED BY <1>1, <1>2, <1>3, <1>4, <1>5, <1>6, <1>7, <1>8 DEF Next, Work

\* Whatever is read, patched and abandoned, platforms, objects, caches, news and the
\* worker keep their types.
THEOREM PlatformTypeCorrect == Spec => []TypeOK
  <1>1. Spec => []TypeInv
    BY TypeInit, TypeStep, PTL DEF Spec
  <1>2. TypeInv => TypeOK
    BY DEF TypeInv
  <1> QED BY <1>1, <1>2, PTL

-----------------------------------------------------------------------------
(* One gateway per namespace                                               *)

\* A uid that no platform created from now on will have.
Used(u) == u =< 1 \/ u > 1 + edits

UidInv == /\ Used(w.obj.uid)
          /\ \A p \in Platforms : Used(plat[p].uid) /\ Used(cache.plat[p].uid)

\* Only a platform that is there has a finalizer.
FinalizerInv == \A p \in Platforms : plat[p].fin => Exists(plat[p])

\* Until it adds the finalizer, the platform that the worker has read is in the cache if
\* it is still the one on the server.
ReadInv == Reading /\ Exists(plat[w.p]) /\ w.obj.uid = plat[w.p].uid => Exists(cache.plat[w.p])

\* The webhook sees every platform that has the finalizer.
SeenInv == ~stray => \A p \in Platforms : plat[p].fin => Exists(cache.plat[p])

GatewayInv == TypeInv /\ UidInv /\ FinalizerInv /\ ReadInv /\ SeenInv /\ OneGatewayPerNamespace

\* How platforms change other than by getting the finalizer.
NoNewFinalizer ==
    \A p \in Platforms :
        /\ plat'[p].fin => plat[p].fin /\ Exists(plat'[p])
        /\ \/ plat'[p].uid \in {0, plat[p].uid}
           \/ plat'[p].uid = 1 + edits /\ edits' < edits

LEMMA GatewayKept ==
  ASSUME GatewayInv, TypeInv', NoNewFinalizer, cache' = cache, stray' = stray, edits' =< edits,
         Used(w'.obj.uid), Reading' => Reading /\ w'.p = w.p /\ w'.obj.uid = w.obj.uid
  PROVE  GatewayInv'
  <1>0. /\ edits \in Nat /\ edits' \in Nat /\ w.obj.uid \in Nat /\ w'.obj.uid \in Nat
        /\ \A p \in Platforms : plat[p].uid \in Nat /\ plat'[p].uid \in Nat /\ cache.plat[p].uid \in Nat
    BY DEF GatewayInv, TypeInv, TypeOK, LogicPlatform, WorkerType
  <1>1. UidInv'
    BY <1>0 DEF GatewayInv, UidInv, Used, NoNewFinalizer
  <1>2. FinalizerInv'
    BY DEF NoNewFinalizer, FinalizerInv, Exists
  <1>3. ReadInv'
    <2> SUFFICES ASSUME Reading', Exists(plat[w.p])', w'.obj.uid = plat'[w'.p].uid
                 PROVE  Exists(cache.plat[w.p])'
      BY DEF ReadInv
    <2>1. Reading /\ w'.p = w.p /\ w'.obj.uid = w.obj.uid /\ w.p \in Platforms
      BY DEF GatewayInv, TypeInv, WorkerOK, Reading
    <2>2. plat'[w.p].uid = plat[w.p].uid
      BY <1>0, <2>1 DEF NoNewFinalizer, Exists, Used
    <2> QED BY <2>1, <2>2 DEF GatewayInv, ReadInv, Exists
  <1>4. SeenInv' /\ OneGatewayPerNamespace'
    BY DEF GatewayInv, SeenInv, OneGatewayPerNamespace, NoNewFinalizer, Exists
  <1> QED BY <1>1, <1>2, <1>3, <1>4 DEF GatewayInv

LEMMA GatewayInit == ASSUME Init PROVE GatewayInv
  <1>1. TypeInv
    BY TypeInit
  <1>2. ASSUME NEW p \in Platforms PROVE plat[p].uid \in {0, 1} /\ ~plat[p].fin
    BY <1>2, InitPlatforms
  <1>3. w = Idle /\ w.obj.uid = 0 /\ w.comp = 0 /\ cache.plat = plat /\ edits \in Nat
    BY <1>1 DEF Init, Idle, NoPlat, TypeInv, TypeOK
  <1> QED BY <1>1, <1>2, <1>3
          DEF GatewayInv, UidInv, Used, FinalizerInv, ReadInv, Reading, SeenInv, OneGatewayPerNamespace

LEMMA UsersKeep == ASSUME GatewayInv, Users PROVE GatewayInv'
  <1>0. TypeInv /\ TypeOK /\ TypeInv'
    BY UsersType DEF GatewayInv, TypeInv
  <1>1. /\ UNCHANGED <<cache, stray, w>>
        /\ edits \in Nat /\ edits > 0 /\ edits' = edits - 1
    BY <1>0 DEF Users, TouchObject, Report, DeletePlatform, CreatePlatform, UpdatePlatform, DatabaseChanges,
               Edit, TypeOK
  <1>2. NoNewFinalizer
    <2>1. CASE UNCHANGED plat
      BY <2>1 DEF NoNewFinalizer, GatewayInv, FinalizerInv
    <2>2. ASSUME NEW p \in Platforms, NEW x, plat' = [plat EXCEPT ![p] = x],
                 x.fin => plat[p].fin /\ x.uid = plat[p].uid,
                 x.uid \in {0, plat[p].uid} \/ x.uid = 1 + edits
          PROVE  NoNewFinalizer
      BY <1>0, <1>1, <2>2 DEF NoNewFinalizer, GatewayInv, FinalizerInv, Exists, TypeOK
    <2>3. ASSUME NEW p \in Platforms, DeletePlatform(p) PROVE NoNewFinalizer
      <3>1. plat[p] \in LogicPlatform
        BY <1>0 DEF TypeOK
      <3>2. Marked(plat[p]).uid = plat[p].uid /\ Marked(plat[p]).fin = plat[p].fin
        BY <3>1, PlatEdits
      <3>3. NoPlat.uid = 0 /\ ~NoPlat.fin
        BY DEF NoPlat
      <3>4. PICK x : x = IF plat[p].fin THEN Marked(plat[p]) ELSE NoPlat
        OBVIOUS
      <3>5. plat' = [plat EXCEPT ![p] = x]
        BY <1>0, <2>3, <3>4 DEF DeletePlatform, TypeOK
      <3> QED BY <2>2, <3>2, <3>3, <3>4, <3>5
    <2>4. ASSUME NEW p \in Platforms, NEW s \in sc.specs[p], CreatePlatform(p, s) PROVE NoNewFinalizer
      <3>1. Created(s).uid = 1 + edits /\ ~Created(s).fin
        BY DEF Created, NoPlat
      <3>2. plat' = [plat EXCEPT ![p] = Created(s)]
        BY <2>4 DEF CreatePlatform
      <3> QED BY <2>2, <3>1, <3>2
    <2>5. ASSUME NEW p \in Platforms, NEW s \in sc.specs[p], UpdatePlatform(p, s) PROVE NoNewFinalizer
      <3>1. s \in PlatSpec /\ plat[p] \in LogicPlatform
        BY <1>0, ScenarioType DEF TypeOK
      <3>2. Respecified(plat[p], s).uid = plat[p].uid /\ Respecified(plat[p], s).fin = plat[p].fin
        BY <3>1, PlatEdits
      <3>3. plat' = [plat EXCEPT ![p] = Respecified(plat[p], s)]
        BY <2>5 DEF UpdatePlatform
      <3> QED BY <2>2, <3>2, <3>3
    <2> QED BY <2>1, <2>3, <2>4, <2>5 DEF Users, TouchObject, Report, DatabaseChanges
  <1>3. Used(w'.obj.uid) /\ (Reading' => Reading)
    BY <1>1 DEF GatewayInv, UidInv, Reading
  <1>4. edits' =< edits
    BY <1>1
  <1> QED BY <1>0, <1>1, <1>2, <1>3, <1>4, GatewayKept

\* What the worker does without a patch.
LEMMA WorkKeeps ==
  ASSUME GatewayInv, TypeInv', UNCHANGED <<plat, cache, stray, edits>>, ReadsOn PROVE GatewayInv'
  <1>1. NoNewFinalizer
    BY DEF NoNewFinalizer, GatewayInv, FinalizerInv
  <1>2. Used(w'.obj.uid) /\ edits' =< edits
    <2>1. edits \in Nat
      BY DEF GatewayInv, TypeInv, TypeOK
    <2> QED BY <2>1 DEF ReadsOn, GatewayInv, UidInv, Used
  <1> QED BY <1>1, <1>2, GatewayKept DEF ReadsOn

LEMMA DeliverKeeps ==
  ASSUME GatewayInv, NEW i \in {"objects", "platforms"}, DeliverAny(i) PROVE GatewayInv'
  <1>0. TypeInv /\ TypeOK /\ TypeInv' /\ UNCHANGED <<plat, w, stray, edits>>
    BY DeliverType DEF GatewayInv, TypeInv, DeliverAny, DeliverObjects, DeliverPlatform
  <1>1. \A p \in Platforms : cache'.plat[p] \in {cache.plat[p], plat[p]}
    <2>1. ASSUME NEW st \in Streams, DeliverObjects(st) PROVE cache'.plat = cache.plat
      BY <1>0, <2>1 DEF DeliverObjects, TypeOK
    <2>2. ASSUME NEW p \in Platforms, DeliverPlatform(p)
          PROVE  \A q \in Platforms : cache'.plat[q] \in {cache.plat[q], plat[q]}
      BY <1>0, <2>2 DEF DeliverPlatform, TypeOK
    <2> QED BY <2>1, <2>2 DEF DeliverAny
  <1>2. UidInv' /\ FinalizerInv'
    BY <1>0, <1>1 DEF GatewayInv, UidInv, Used, FinalizerInv
  <1>3. ReadInv'
    <2>1. Reading => w.p \in Platforms
      BY <1>0 DEF TypeInv, WorkerOK, Reading
    <2>2. Reading' <=> Reading
      BY <1>0 DEF Reading
    <2> QED BY <1>0, <1>1, <2>1, <2>2 DEF GatewayInv, ReadInv, Exists
  <1>4. SeenInv' /\ OneGatewayPerNamespace'
    BY <1>0, <1>1 DEF GatewayInv, SeenInv, FinalizerInv, OneGatewayPerNamespace, Exists
  <1> QED BY <1>0, <1>2, <1>3, <1>4 DEF GatewayInv

LEMMA BeginKeeps == ASSUME GatewayInv, NEW p \in Platforms, Begin(p) PROVE GatewayInv'
  <1>0. /\ TypeInv /\ TypeOK /\ TypeInv' /\ UNCHANGED <<plat, cache, stray, edits>>
        /\ w' = Idle \/ (w'.p = p /\ w'.obj = cache.plat[p] /\ Exists(cache.plat[p]))
    BY BeginOK DEF GatewayInv, TypeInv, Begin
  <1>1. Used(w'.obj.uid)
    <2>1. CASE w' = Idle
      BY <2>1 DEF Used, Idle, NoPlat
    <2>2. CASE w'.obj = cache.plat[p]
      BY <2>2 DEF GatewayInv, UidInv
    <2> QED BY <1>0, <2>1, <2>2
  <1>2. UidInv' /\ FinalizerInv' /\ SeenInv' /\ OneGatewayPerNamespace'
    BY <1>0, <1>1 DEF GatewayInv, UidInv, Used, FinalizerInv, SeenInv, OneGatewayPerNamespace
  <1>3. ReadInv'
    <2>1. Reading' => w' # Idle
      BY DEF Reading, Idle
    <2> QED BY <1>0, <2>1 DEF ReadInv, Exists
  <1> QED BY <1>0, <1>2, <1>3 DEF GatewayInv

\* The patch that adds the finalizer: the webhook sees every other platform that has it.
LEMMA AddFinalizerKeeps == ASSUME GatewayInv, AddFinalizer PROVE GatewayInv'
  <1>0. TypeInv /\ TypeOK
    BY DEF GatewayInv, TypeInv
  <1>1. /\ TypeInv' /\ ~Reading' /\ Reading /\ w.p \in Platforms /\ UNCHANGED <<cache, edits>>
        /\ \/ UNCHANGED <<plat, stray>> /\ w'.obj = w.obj
           \/ /\ Exists(plat[w.p]) /\ validateSingleton(w.p)
              /\ plat' = [plat EXCEPT ![w.p] = [plat[w.p] EXCEPT !.fin = TRUE]]
              /\ w'.obj.uid = plat[w.p].uid
              /\ stray' = (stray \/ plat[w.p].uid # w.obj.uid)
    BY <1>0, AddFinalizerOK
  <1>2. CASE UNCHANGED <<plat, stray>> /\ w'.obj = w.obj
    BY <1>1, <1>2, WorkKeeps DEF ReadsOn
  <1>3. ASSUME Exists(plat[w.p]), validateSingleton(w.p), NEW new, new = [plat[w.p] EXCEPT !.fin = TRUE],
               plat' = [plat EXCEPT ![w.p] = new], w'.obj.uid = plat[w.p].uid,
               stray' = (stray \/ plat[w.p].uid # w.obj.uid)
        PROVE  GatewayInv'
    <2>1. new.uid = plat[w.p].uid /\ new.fin
      BY <1>0, <1>1, <1>3, PlatEdits DEF TypeOK
    <2>2. \A p \in Platforms : plat'[p].uid = plat[p].uid /\ (p # w.p => plat'[p].fin = plat[p].fin)
      BY <1>0, <1>3, <2>1 DEF TypeOK
    <2>3. UidInv' /\ FinalizerInv' /\ ReadInv'
      BY <1>1, <1>3, <2>1, <2>2 DEF GatewayInv, UidInv, Used, FinalizerInv, ReadInv, Exists
    <2>4. ASSUME ~stray' PROVE Exists(cache.plat[w.p]) /\ ~stray
      BY <1>1, <1>3, <2>4 DEF GatewayInv, ReadInv
    <2>5. SeenInv'
      BY <1>1, <2>2, <2>4 DEF GatewayInv, SeenInv
    <2>6. OneGatewayPerNamespace'
      <3>1. ASSUME ~stray', NEW q \in Platforms, q # w.p, NsOf[q] = NsOf[w.p] PROVE ~plat'[q].fin
        BY <1>1, <1>3, <2>2, <2>4, <3>1 DEF validateSingleton, GatewayInv, SeenInv
      <3> QED BY <1>1, <2>2, <2>4, <3>1 DEF GatewayInv, OneGatewayPerNamespace
    <2> QED BY <1>1, <2>3, <2>5, <2>6 DEF GatewayInv
  <1> QED BY <1>1, <1>2, <1>3

LEMMA RemoveFinalizerKeeps == ASSUME GatewayInv, RemoveFinalizer PROVE GatewayInv'
  <1>0. TypeInv /\ TypeOK
    BY DEF GatewayInv, TypeInv
  <1>1. /\ TypeInv' /\ ~Reading' /\ w.p \in Platforms /\ UNCHANGED <<cache, edits, stray>>
        /\ \/ UNCHANGED plat /\ w'.obj = w.obj
           \/ /\ plat' = [plat EXCEPT ![w.p] = IF plat[w.p].del THEN NoPlat
                                               ELSE [plat[w.p] EXCEPT !.fin = FALSE]]
              /\ w'.obj.uid = plat[w.p].uid
    BY <1>0, RemoveFinalizerOK
  <1>2. CASE UNCHANGED plat /\ w'.obj = w.obj
    BY <1>1, <1>2, WorkKeeps DEF ReadsOn
  <1>3. ASSUME NEW new, new = [plat[w.p] EXCEPT !.fin = FALSE], w'.obj.uid = plat[w.p].uid,
               NEW x \in {NoPlat, new}, plat' = [plat EXCEPT ![w.p] = x]
        PROVE  GatewayInv'
    <2>1. new.uid = plat[w.p].uid /\ ~new.fin
      BY <1>0, <1>1, <1>3, PlatEdits DEF TypeOK
    <2>2. x.uid \in {0, plat[w.p].uid} /\ ~x.fin
      <3>1. NoPlat.uid = 0 /\ ~NoPlat.fin
        BY DEF NoPlat
      <3>2. x = NoPlat \/ x = new
        BY <1>3
      <3> QED BY <2>1, <3>1, <3>2
    <2>3. NoNewFinalizer
      BY <1>0, <1>3, <2>2 DEF NoNewFinalizer, GatewayInv, FinalizerInv, Exists, TypeOK
    <2>4. Used(w'.obj.uid) /\ edits' =< edits
      BY <1>0, <1>1, <1>3, <2>1 DEF GatewayInv, UidInv, TypeOK
    <2> QED BY <1>1, <2>3, <2>4, GatewayKept
  <1> QED BY <1>1, <1>2, <1>3

LEMMA WriteStatusKeeps == ASSUME GatewayInv, writeStatus PROVE GatewayInv'
  <1>0. TypeInv /\ edits \in Nat
    BY DEF GatewayInv, TypeInv, TypeOK
  <1>1. /\ TypeInv' /\ w' = Idle /\ UNCHANGED <<cache, edits, stray>>
        /\ \A p \in Platforms : plat'[p].uid = plat[p].uid /\ plat'[p].fin = plat[p].fin
    BY <1>0, WriteStatusOK
  <1>2. w'.obj.uid = 0 /\ ~Reading'
    BY <1>1 DEF Idle, NoPlat, Reading
  <1>3. NoNewFinalizer
    BY <1>1 DEF NoNewFinalizer, GatewayInv, FinalizerInv, Exists
  <1>4. Used(w'.obj.uid) /\ edits' =< edits
    BY <1>0, <1>1, <1>2 DEF Used
  <1> QED BY <1>1, <1>2, <1>3, <1>4, GatewayKept

LEMMA RestartKeeps == ASSUME GatewayInv, Restart PROVE GatewayInv'
  <1>0. TypeInv'
    BY RestartOK DEF GatewayInv
  <1>1. UNCHANGED <<plat, stray, edits>> /\ w' = Idle /\ cache'.plat = plat
    BY DEF Restart
  <1>2. w'.obj.uid = 0 /\ ~Reading'
    BY <1>1 DEF Idle, NoPlat, Reading
  <1> QED BY <1>0, <1>1, <1>2
          DEF GatewayInv, UidInv, Used, FinalizerInv, ReadInv, SeenInv, OneGatewayPerNamespace

LEMMA GatewayStep == ASSUME GatewayInv, [Next]_vars PROVE GatewayInv'
  <1>0. TypeInv /\ TypeInv'
    BY TypeStep DEF GatewayInv
  <1>1. CASE Users
    BY <1>1, UsersKeep
  <1>2. CASE \E i \in {"objects", "platforms"} : DeliverAny(i)
    BY <1>2, DeliverKeeps
  <1>3. CASE \E p \in Platforms : Begin(p)
    BY <1>3, BeginKeeps
  <1>4. CASE AddFinalizer \/ RemoveFinalizer \/ writeStatus \/ Restart
    BY <1>4, AddFinalizerKeeps, RemoveFinalizerKeeps, WriteStatusKeeps, RestartKeeps
  <1>5. ASSUME UNCHANGED <<plat, cache, stray, edits>>, ReadsOn PROVE GatewayInv'
    BY <1>0, <1>5, WorkKeeps
  <1>6. CASE Collect
    <2>1. UNCHANGED <<plat, cache, stray, edits, w>>
      BY <1>6 DEF Collect, CollectGarbage
    <2> QED BY <1>5, <2>1 DEF ReadsOn, Reading
  <1>7. CASE (\E n \in 0..5 : BlindCalls(n)) \/ ApplyObject \/ DeleteObject
    <2>1. UNCHANGED <<plat, cache, stray, edits>>
      BY <1>7 DEF BlindCalls, ApplyObject, DeleteObject
    <2> QED BY <1>0, <1>5, <1>7, <2>1, BlindCallsOK, ObjectCallsOK
  <1>8. CASE UpdateStatus \/ CallFails
    <2>1. UNCHANGED <<plat, cache, stray, edits>>
      BY <1>8 DEF UpdateStatus, CallFails
    <2> QED BY <1>0, <1>5, <1>8, <2>1, UpdateStatusOK, CallFailsOK
  <1>9. CASE UNCHANGED vars
    <2>1. UNCHANGED <<plat, cache, stray, edits, w>>
      BY <1>9 DEF vars
    <2> QED BY <1>5, <2>1 DEF ReadsOn, Reading
  <1> QED BY <1>1, <1>2, <1>3, <1>4, <1>6, <1>7, <1>8, <1>9 DEF Next, Work, Worker

\* Of the platforms of a namespace at most one has the gateway's finalizer, however far the
\* caches lag and wherever the operator stops, as long as no patch has met a platform
\* recreated under the name of the one that was read.
THEOREM OneGateway == Spec => []OneGatewayPerNamespace
  <1>1. Spec => []GatewayInv
    BY GatewayInit, GatewayStep, PTL DEF Spec
  <1>2. GatewayInv => OneGatewayPerNamespace
    BY DEF GatewayInv
  <1> QED BY <1>1, <1>2, PTL

=============================================================================
