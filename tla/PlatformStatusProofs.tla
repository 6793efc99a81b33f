------------------------ MODULE PlatformStatusProofs ------------------------
(***************************************************************************)
(* The status of a platform, and the cover of its gateway's binding, when  *)
(* all is quiet.  The invariant follows a platform that no event is going  *)
(* to wake: first through the calls that the worker has left for it, then  *)
(* as what it was left as.                                                 *)
(***************************************************************************)
EXTENDS PlatformProofs

\* Something is going to make the worker look at p.
Woken(p) == \/ p \in queue \/ p \in news
            \/ <<"namespaced", p>> \in news \/ <<"bindings", p>> \in news

\* The kinds that the status tells of, by component.
Needs(c, s) ==
    CASE c = 1 -> {k \in DataIndexKinds : s.dataIndex /\ (k = "diIngress" => s.exposed)}
      [] c = 2 -> {k \in {"vDaemonSet"} : s.vector}
      [] c = 3 -> {k \in {"gwDeployment", "gwService", "gwIngress"} :
                      s.gateway # "off" /\ (k = "gwIngress" => s.gateway = "exposed")}

Owns(p, kind) == obj[Key(kind, p)].by = p
OwnsAll(p, c, s) == \A kind \in Needs(c, s) : Owns(p, kind)

\* What is not announced is cached: every platform, and every object that a platform has.
CachedInv ==
    /\ \A p \in Platforms : p \notin news => cache.plat[p] = plat[p]
    /\ \A p \in Platforms, k \in Keys :
          k[1] # "vBinding" /\ obj[k].by = p /\ <<Stream(k), p>> \notin news => cache.obj[k] = obj[k]

\* Only a platform with the finalizer outlives its deletion.
MarkedInv == \A p \in Platforms : plat[p].del => plat[p].fin

Same(a, b) == a.uid = b.uid /\ a.gen = b.gen /\ a.spec = b.spec /\ a.fin = b.fin /\ a.del = b.del

\* The calls l that are left for the gateway of platform pl do the rest: one of them
\* changes the platform, or what is not there yet is made and a binding that no finalizer
\* covers is removed.
Turns(pl, l) == \/ Finalizer("add") \in Range(l) /\ ~pl.fin
                \/ Finalizer("remove") \in Range(l) /\ pl.fin
Makes(l, kind) == Do("apply", kind) \in Range(l) \/ Do("applyChecked", kind) \in Range(l)
GatewayRest(p, pl, l) ==
    \/ Turns(pl, l)
    \/ /\ \A kind \in Needs(3, pl.spec) : Owns(p, kind) \/ Makes(l, kind)
       /\ Owns(p, "gwBinding") => pl.fin \/ Do("deleteChecked", "gwBinding") \in Range(l)

\* What status st says of objects os is so.
Told(st, p, s, os) ==
    LET svc == os[Key("diService", p)]
        ds  == os[Key("vDaemonSet", p)]
        dep == os[Key("gwDeployment", p)]
    IN  /\ st.endpoint = IF s.dataIndex THEN updateDeploymentStatusService(s, svc, os[Key("diIngress", p)]) ELSE "none"
        /\ s.dataIndex /\ st.di = "True" => os[Key("diDeployment", p)].st = "ready"
        /\ st.vec = CASE ~s.vector -> "none" [] There(ds) /\ ds.st = "ready" -> "True" [] OTHER -> "False"
        /\ st.gw = CASE s.gateway = "off" -> "none"
                     [] There(dep) /\ dep.st = "ready" /\ There(os[Key("gwService", p)]) -> "True"
                     [] There(dep) /\ dep.st = "deadline" -> "deadline"
                     [] OTHER -> "False"
        /\ st.url = (s.gateway = "exposed" /\ There(os[Key("gwIngress", p)]))

\* Until it is woken again, the worker has the platform that is there, and has made what the
\* components that it is done with need.
Untold == w.comp > 0 /\ ~w.err /\ ~Woken(w.p) /\ Exists(plat[w.p])
Progress(p, wk) ==
    /\ Same(wk.obj, plat[p])
    /\ wk.comp = 1 => wk.todo = reconcileDataIndex(wk.obj)
    /\ wk.comp = 2 => wk.todo = reconcileVector(wk.obj)
    /\ wk.comp > 1 => OwnsAll(p, 1, wk.obj.spec)
    /\ wk.comp > 2 => OwnsAll(p, 2, wk.obj.spec) /\ GatewayRest(p, wk.obj, wk.todo)
    /\ wk.comp = WritePhase => Told(wk.obj.status, p, wk.obj.spec, obj)
WorkInv == Untold => Progress(w.p, w)

\* And a platform that nothing wakes has what it needs and a true status.
Settled(p) ==
    LET pl == plat[p]
    IN  /\ \A c \in 1..3 : OwnsAll(p, c, pl.spec)
        /\ Told(pl.status, p, pl.spec, obj)
        /\ pl.status.og = pl.gen
        /\ pl.status.phase = "Ready" => \A c \in Enabled(pl.spec) : pl.status[c] = "True"
        /\ Owns(p, "gwBinding") => pl.fin
RestInv == \A p \in Platforms : Exists(plat[p]) /\ ~Woken(p) /\ w.p # p => Settled(p)

StatusInv == TypeInv /\ CachedInv /\ MarkedInv /\ WorkInv /\ RestInv

-----------------------------------------------------------------------------
(* The kinds and the calls                                                 *)

LEMMA NeedsKinds ==
  ASSUME NEW c \in 1..3, NEW s, NEW kind \in Needs(c, s)
  PROVE  kind \in Kinds /\ kind # "vBinding" /\ kind # "gwBinding"
  BY DEF Needs, Kinds, DataIndexKinds, VectorKinds, GatewayKinds

LEMMA KeyKind ==
  ASSUME NEW kind, NEW p PROVE Key(kind, p)[1] = kind
  BY DEF Key

LEMMA NeedsKeys ==
  ASSUME NEW c \in 1..3, NEW s, NEW kind \in Needs(c, s), NEW p \in Platforms
  PROVE  Key(kind, p) \in Keys /\ Key(kind, p)[1] # "vBinding"
  BY NeedsKinds, KeyKind, KeyIn

LEMMA BindingKey ==
  ASSUME NEW p \in Platforms PROVE Key("gwBinding", p) \in Keys /\ Key("gwBinding", p)[1] = "gwBinding"
  BY KeyKind, KeyIn DEF Kinds, GatewayKinds

LEMMA ListRange ==
  ASSUME NEW S, NEW l \in Seq(S), l # <<>>, NEW t, t = Tail(l)
  PROVE  /\ \A x \in Range(l) : x = Head(l) \/ x \in Range(t)
         /\ Head(l) \in Range(l)
  <1>1. /\ t \in Seq(S) /\ Len(t) = Len(l) - 1 /\ Head(l) = l[1]
        /\ \A i \in 1..Len(t) : t[i] = l[i + 1]
    OBVIOUS
  <1>2. DOMAIN l = 1..Len(l) /\ DOMAIN t = 1..Len(t) /\ Len(l) \in Nat /\ Len(l) # 0
    BY <1>1
  <1>3. ASSUME NEW i \in 1..Len(l), i # 1 PROVE l[i] \in Range(t)
    <2>1. PICK j : j = i - 1
      OBVIOUS
    <2>2. j \in 1..Len(t) /\ i = j + 1
      BY <1>1, <1>2, <1>3, <2>1
    <2> QED BY <1>1, <1>2, <2>2 DEF Range
  <1> QED BY <1>1, <1>2, <1>3 DEF Range

LEMMA EmptyRange == Range(<<>>) = {}
  BY DEF Range

LEMMA Range1 == ASSUME NEW a PROVE Range(<<a>>) = {a}
  BY DEF Range
LEMMA Range2 == ASSUME NEW a, NEW b PROVE Range(<<a, b>>) = {a, b}
  BY DEF Range
LEMMA Range3 == ASSUME NEW a, NEW b, NEW c PROVE Range(<<a, b, c>>) = {a, b, c}
  BY DEF Range
LEMMA Range5 ==
  ASSUME NEW a, NEW b, NEW c, NEW d, NEW e PROVE Range(<<a, b, c, d, e>>) = {a, b, c, d, e}
  BY DEF Range

\* What the lists of calls hold.
LEMMA DataIndexCalls ==
  ASSUME NEW pl, pl.spec.dataIndex
  PROVE  Range(reconcileDataIndex(pl)) = {Do("apply", "diDeployment"), Do("apply", "diService"),
            Do(IF pl.spec.exposed THEN "apply" ELSE "delete", "diIngress")}
  BY Range3 DEF reconcileDataIndex, applyDataIndexDeployment, applyDataIndexService, applyDataIndexIngress

LEMMA VectorCalls ==
  ASSUME NEW pl, pl.spec.vector
  PROVE  Range(reconcileVector(pl)) = {Do("create", "vAccount"), Do("create", "vBinding"),
            Do("apply", "vConfigMap"), Do("apply", "vDaemonSet"), Do("apply", "vService")}
  <1> DEFINE a == <<Do("create", "vAccount"), Do("create", "vBinding")>>
             b == <<Do("apply", "vConfigMap")>>
             c == <<Do("apply", "vDaemonSet"), Do("apply", "vService")>>
  <1>1. a \in Seq(BlindCall) /\ b \in Seq(BlindCall) /\ c \in Seq(BlindCall)
    BY BlindCallsAre DEF Kinds, VectorKinds
  <1>2. /\ Range(a) = {Do("create", "vAccount"), Do("create", "vBinding")}
        /\ Range(b) = {Do("apply", "vConfigMap")}
        /\ Range(c) = {Do("apply", "vDaemonSet"), Do("apply", "vService")}
    BY Range1, Range2
  <1>3. reconcileVector(pl) = a \o b \o c
    BY DEF reconcileVector, reconcileVectorRBAC, applyVectorConfigMap, applyVectorWorkload
  <1> HIDE DEF a, b, c
  <1>5. a \o b \in Seq(BlindCall) /\ Range(a \o b) = Range(a) \cup Range(b)
    BY <1>1, ConcatProperties, RangeConcatenation
  <1>6. PICK d : d = a \o b
    OBVIOUS
  <1>7. Range(d \o c) = Range(d) \cup Range(c)
    <2>1. d \in Seq(BlindCall)
      BY <1>5, <1>6
    <2> QED BY <1>1, <2>1, RangeConcatenation
  <1> QED BY <1>2, <1>3, <1>5, <1>6, <1>7

LEMMA DeleteCalls ==
  ASSUME NEW pl
  PROVE  /\ Do("deleteChecked", "gwBinding") \in Range(deleteWorkflowGatewayResources(pl))
         /\ pl.fin => Finalizer("remove") \in Range(deleteWorkflowGatewayResources(pl))
  <1> DEFINE l == <<Do("deleteOwned", "gwIngress"), Do("deleteChecked", "gwService"),
                    Do("deleteChecked", "gwDeployment"), Do("deleteChecked", "gwBinding"),
                    Do("deleteChecked", "gwAccount")>>
             f == IF pl.fin THEN <<Finalizer("remove")>> ELSE <<>>
  <1>1. l \in Seq(Routine)
    BY GatewayCalls DEF GatewayKinds
  <1>2. <<>> \in Seq(Routine)
    OBVIOUS
  <1>3. f \in Seq(Routine)
    BY <1>2, GatewayCalls
  <1>4. Do("deleteChecked", "gwBinding") \in Range(l)
    BY Range5
  <1>5. pl.fin => Finalizer("remove") \in Range(f)
    BY Range1
  <1>6. deleteWorkflowGatewayResources(pl) = l \o f
    BY DEF deleteWorkflowGatewayResources
  <1> HIDE DEF l, f
  <1>7. Range(l \o f) = Range(l) \cup Range(f)
    BY <1>1, <1>3, RangeConcatenation
  <1> QED BY <1>4, <1>5, <1>6, <1>7

LEMMA ApplyCalls ==
  ASSUME NEW pl PROVE \A kind \in Needs(3, pl.spec) : Makes(applyGateway(pl), kind)
  <1> DEFINE a == applyGatewayAccess
             b == applyGatewayWorkload
             c == <<applyGatewayIngress(pl)>>
  <1>1. a \in Seq(Routine) /\ b \in Seq(Routine) /\ c \in Seq(Routine)
    BY GatewayCalls DEF applyGatewayAccess, applyGatewayWorkload, applyGatewayIngress, GatewayKinds
  <1>2. /\ Range(b) = {Do("applyChecked", "gwDeployment"), Do("applyChecked", "gwService")}
        /\ Range(c) = {applyGatewayIngress(pl)}
    BY Range1, Range2 DEF applyGatewayWorkload
  <1>3. applyGateway(pl) = a \o b \o c
    BY DEF applyGateway
  <1>4. pl.spec.gateway = "exposed" => Do("apply", "gwIngress") \in Range(c)
    BY <1>2 DEF applyGatewayIngress
  <1> HIDE DEF a, b, c
  <1>5. PICK d : d = a \o b
    OBVIOUS
  <1>6. d \in Seq(Routine) /\ Range(d) = Range(a) \cup Range(b)
    BY <1>1, <1>5, ConcatProperties, RangeConcatenation
  <1>7. Range(d \o c) = Range(d) \cup Range(c)
    BY <1>1, <1>6, RangeConcatenation
  <1>8. \A x \in Range(b) \cup Range(c) : x \in Range(applyGateway(pl))
    BY <1>3, <1>5, <1>6, <1>7
  <1> QED BY <1>2, <1>4, <1>8 DEF Needs, Makes

\* Calls that do the rest whatever there is.
Suffice(pl, l) ==
    \/ Turns(pl, l)
    \/ /\ \A kind \in Needs(3, pl.spec) : Makes(l, kind)
       /\ pl.fin \/ Do("deleteChecked", "gwBinding") \in Range(l)

\* A platform with the finalizer is given what its gateway needs.
LEMMA ApplySuffices == ASSUME NEW pl, pl.fin PROVE Suffice(pl, applyGateway(pl))
  BY ApplyCalls DEF Suffice, Turns

\* What the worker starts with for the gateway is enough.
LEMMA GatewaySuffices ==
  ASSUME NEW pl, pl.del => pl.fin
  PROVE  /\ Suffice(pl, reconcileWorkflowGateway(pl))
         /\ reconcileWorkflowGateway(pl) # <<>>
  <1>1. Suffice(pl, reconcileWorkflowGateway(pl))
    <2>1. CASE pl.del
      BY <2>1, DeleteCalls DEF reconcileWorkflowGateway, Suffice, Turns
    <2>2. CASE ~pl.del /\ pl.spec.gateway = "off"
      <3>1. Needs(3, pl.spec) = {}
        BY <2>2 DEF Needs
      <3> QED BY <2>2, <3>1, DeleteCalls DEF reconcileWorkflowGateway, Suffice
    <2>3. CASE ~pl.del /\ pl.spec.gateway # "off" /\ pl.fin
      BY <2>3, ApplySuffices DEF reconcileWorkflowGateway
    <2>4. CASE ~pl.del /\ pl.spec.gateway # "off" /\ ~pl.fin
      <3>1. reconcileWorkflowGateway(pl) = <<Finalizer("add")>>
        BY <2>4 DEF reconcileWorkflowGateway
      <3> QED BY <2>4, <3>1, Range1 DEF Suffice, Turns
    <2> QED BY <2>1, <2>2, <2>3, <2>4
  <1>2. reconcileWorkflowGateway(pl) # <<>>
    <2>1. CASE reconcileWorkflowGateway(pl) = deleteWorkflowGatewayResources(pl)
      BY <2>1, DeleteCalls, EmptyRange
    <2>2. CASE reconcileWorkflowGateway(pl) = <<Finalizer("add")>>
      BY <2>2, Range1, EmptyRange
    <2>3. CASE reconcileWorkflowGateway(pl) = applyGateway(pl) /\ pl.spec.gateway # "off"
      <3>1. "gwService" \in Needs(3, pl.spec)
        BY <2>3 DEF Needs
      <3>2. Makes(applyGateway(pl), "gwService")
        BY <2>3, <3>1, ApplyCalls
      <3> QED BY <2>3, <3>2, EmptyRange DEF Makes
    <2> QED BY <2>1, <2>2, <2>3 DEF reconcileWorkflowGateway
  <1> QED BY <1>1, <1>2

\* A component without calls needs nothing.
LEMMA NothingToDo ==
  ASSUME NEW pl
  PROVE  /\ reconcileDataIndex(pl) = <<>> => Needs(1, pl.spec) = {}
         /\ reconcileVector(pl) = <<>> => Needs(2, pl.spec) = {}
  <1>1. pl.spec.dataIndex => reconcileDataIndex(pl) # <<>>
    BY DataIndexCalls, EmptyRange
  <1>2. pl.spec.vector => reconcileVector(pl) # <<>>
    BY VectorCalls, EmptyRange
  <1> QED BY <1>1, <1>2 DEF Needs

-----------------------------------------------------------------------------
(* The status                                                              *)

LEMMA FirstCondition ==
  ASSUME NEW a, NEW b, NEW c, platformComponentReadiness(<<a, b, c>>) = "True" PROVE a = "True"
  <1> DEFINE l == <<a, b, c>>
             bad == {i \in DOMAIN l : l[i] # "True"}
  <1>1. DOMAIN l = 1..3 /\ l[1] = a
    OBVIOUS
  <1> HIDE DEF l
  <1>2. SUFFICES ASSUME bad # {} PROVE FALSE
    BY <1>1
  <1>3. Min(bad) \in bad
    <2>1. bad \subseteq 1..3
      BY <1>1
    <2>2. PICK c0 \in bad : TRUE
      BY <1>2
    <2> HIDE DEF bad
    <2>3. \E x \in bad : \A y \in bad : x =< y
      BY <2>1, <2>2
    <2> QED BY <2>3 DEF Min
  <1>4. platformComponentReadiness(l) = l[Min(bad)]
    BY <1>2 DEF platformComponentReadiness
  <1> QED BY <1>3, <1>4 DEF l

\* What phase 2 says of objects is so.
LEMMA Updated ==
  ASSUME NEW st \in Status, NEW p \in Platforms, NEW s \in PlatSpec, NEW os \in [Keys -> Object], NEW c,
         c = updateWorkflowGatewayStatus(updateVectorStatus(updateDataIndexStatus(st, p, s, os), p, s, os), p, s, os)
  PROVE  c \in Status /\ Told(c, p, s, os)
  <1>1. PICK a : a = updateDataIndexStatus(st, p, s, os)
    OBVIOUS
  <1>2. PICK b : b = updateVectorStatus(a, p, s, os)
    OBVIOUS
  <1>3. a \in Status /\ b \in Status /\ c \in Status
    <2>1. a \in Status
      BY <1>1, StatusTypes
    <2>2. b \in Status
      BY <1>2, <2>1, StatusTypes
    <2> QED BY <1>1, <1>2, <2>1, <2>2, StatusTypes
  <1>4. /\ a.endpoint = IF s.dataIndex
                        THEN updateDeploymentStatusService(s, os[Key("diService", p)], os[Key("diIngress", p)])
                        ELSE "none"
        /\ s.dataIndex /\ a.di = "True" => os[Key("diDeployment", p)].st = "ready"
    <2>1. CASE ~s.dataIndex
      BY <1>1, <2>1 DEF updateDataIndexStatus, Status
    <2>2. CASE s.dataIndex
      <3> DEFINE dep == os[Key("diDeployment", p)]
                 di == platformComponentReadiness(<<updateDataIndexStatusDeployment(dep),
                         Truth(There(os[Key("diService", p)])), Truth(updateStatusPersistence(dep))>>)
                 ep == updateDeploymentStatusService(s, os[Key("diService", p)], os[Key("diIngress", p)])
      <3>1. di = "True" => updateDataIndexStatusDeployment(dep) = "True"
        BY FirstCondition
      <3>2. updateDataIndexStatusDeployment(dep) = "True" => dep.st = "ready"
        BY DEF updateDataIndexStatusDeployment
      <3>3. a = [st EXCEPT !.di = di, !.endpoint = ep]
        BY <1>1, <2>2 DEF updateDataIndexStatus
      <3> HIDE DEF di, ep
      <3>4. a.di = di /\ a.endpoint = ep
        BY <3>3 DEF Status
      <3> QED BY <2>2, <3>1, <3>2, <3>4 DEF ep
    <2> QED BY <2>1, <2>2
  <1>5. /\ b.endpoint = a.endpoint /\ b.di = a.di
        /\ b.vec = CASE ~s.vector -> "none"
                     [] There(os[Key("vDaemonSet", p)]) /\ os[Key("vDaemonSet", p)].st = "ready" -> "True"
                     [] OTHER -> "False"
    BY <1>2, <1>3 DEF updateVectorStatus, Status
  <1>6. /\ c.endpoint = b.endpoint /\ c.di = b.di /\ c.vec = b.vec
        /\ c.gw = CASE s.gateway = "off" -> "none"
                    [] /\ There(os[Key("gwDeployment", p)]) /\ os[Key("gwDeployment", p)].st = "ready"
                       /\ There(os[Key("gwService", p)]) -> "True"
                    [] There(os[Key("gwDeployment", p)]) /\ os[Key("gwDeployment", p)].st = "deadline" -> "deadline"
                    [] OTHER -> "False"
        /\ c.url = (s.gateway = "exposed" /\ There(os[Key("gwIngress", p)]))
    BY <1>1, <1>2, <1>3 DEF updateWorkflowGatewayStatus, ResolveIngressURL, Status
  <1>7. Told(c, p, s, os)
    BY <1>4, <1>5, <1>6 DEF Told
  <1> QED BY <1>3, <1>7

\* The status tells of the kinds that the spec needs.
LEMMA ToldSame ==
  ASSUME NEW st, NEW p, NEW s \in PlatSpec, NEW os, NEW o2,
         \A c \in 1..3 : \A kind \in Needs(c, s) : os[Key(kind, p)] = o2[Key(kind, p)],
         Told(st, p, s, os)
  PROVE  Told(st, p, s, o2)
  <1>1. s.dataIndex => /\ os[Key("diService", p)] = o2[Key("diService", p)]
                       /\ os[Key("diDeployment", p)] = o2[Key("diDeployment", p)]
                       /\ s.exposed => os[Key("diIngress", p)] = o2[Key("diIngress", p)]
    <2>1. s.dataIndex => {"diService", "diDeployment"} \subseteq Needs(1, s)
                         /\ (s.exposed => "diIngress" \in Needs(1, s))
      BY DEF Needs, DataIndexKinds
    <2> QED BY <2>1
  <1>2. s.vector => os[Key("vDaemonSet", p)] = o2[Key("vDaemonSet", p)]
    <2>1. s.vector => "vDaemonSet" \in Needs(2, s)
      BY DEF Needs
    <2> QED BY <2>1
  <1>3. s.gateway # "off" => /\ os[Key("gwDeployment", p)] = o2[Key("gwDeployment", p)]
                             /\ os[Key("gwService", p)] = o2[Key("gwService", p)]
                             /\ s.gateway = "exposed" => os[Key("gwIngress", p)] = o2[Key("gwIngress", p)]
    <2>1. s.gateway # "off" => {"gwService", "gwDeployment"} \subseteq Needs(3, s)
                               /\ (s.gateway = "exposed" => "gwIngress" \in Needs(3, s))
      BY DEF Needs
    <2> QED BY <2>1
  <1>4. s.dataIndex => updateDeploymentStatusService(s, os[Key("diService", p)], os[Key("diIngress", p)])
                       = updateDeploymentStatusService(s, o2[Key("diService", p)], o2[Key("diIngress", p)])
    BY <1>1 DEF updateDeploymentStatusService
  <1> QED BY <1>1, <1>2, <1>3, <1>4 DEF Told, PlatSpec

\* Phase 3 adds the generation and the phase.
LEMMA Readiness ==
  ASSUME NEW st \in Status, NEW p \in Platforms, NEW s \in PlatSpec, NEW os, NEW g \in Nat, NEW r,
         r = updateLogicPlatformReadiness([st EXCEPT !.og = g], s)
  PROVE  /\ r.og = g /\ r.endpoint = st.endpoint /\ r.di = st.di /\ r.vec = st.vec /\ r.gw = st.gw /\ r.url = st.url
         /\ Told(st, p, s, os) => Told(r, p, s, os)
         /\ r.phase = "Ready" => \A c \in Enabled(s) : r[c] = "True"
  <1>1. PICK x : x = [st EXCEPT !.og = g]
    OBVIOUS
  <1>2. /\ x \in Status /\ x.og = g /\ x.endpoint = st.endpoint /\ x.di = st.di
        /\ x.vec = st.vec /\ x.gw = st.gw /\ x.url = st.url
    BY <1>1 DEF Status
  <1>3. PICK ph : /\ r = [x EXCEPT !.phase = ph]
                  /\ ph = "Ready" => \A c \in Enabled(s) : x[c] = "True"
    <2> DEFINE good == \A c \in Enabled(s) : x[c] = "True"
               bad == \E c \in {"di", "vec", "gw"} : x[c] = "deadline"
               ph == CASE good -> "Ready" [] bad -> "Failed" [] OTHER -> "Pending"
    <2>1. r = [x EXCEPT !.phase = ph]
      BY <1>1 DEF updateLogicPlatformReadiness
    <2> HIDE DEF good, bad
    <2>2. ph = "Ready" => good
      OBVIOUS
    <2> HIDE DEF ph
    <2>3. r = [x EXCEPT !.phase = ph] /\ (ph = "Ready" => \A c \in Enabled(s) : x[c] = "True")
      BY <2>1, <2>2 DEF good
    <2> QED BY <2>3
  <1>4. /\ r.phase = ph /\ r.og = x.og /\ r.endpoint = x.endpoint /\ r.di = x.di
        /\ r.vec = x.vec /\ r.gw = x.gw /\ r.url = x.url
    BY <1>2, <1>3 DEF Status
  <1>5. \A c \in Enabled(s) : r[c] = x[c]
    BY <1>4 DEF Enabled
  <1>6. Told(st, p, s, os) => Told(r, p, s, os)
    BY <1>2, <1>4 DEF Told
  <1> QED BY <1>2, <1>3, <1>4, <1>5, <1>6

-----------------------------------------------------------------------------
(* Steps that wake whoever they concern                                    *)

\* A platform that is not going to be woken after the step was not before, and the step
\* has changed neither it nor an object that it has.
Kept(p) ==
    ~Woken(p)' =>
        /\ ~Woken(p) /\ plat'[p] = plat[p]
        /\ \A k \in Keys : k[1] # "vBinding" /\ (obj[k].by = p \/ obj'[k].by = p) => obj'[k] = obj[k]
AllKept == \A p \in Platforms : Kept(p)

\* What an informer has not heard of.
LEMMA Notified ==
  ASSUME Notify, NEW p \in Platforms
  PROVE  /\ news \subseteq news'
         /\ p \notin news' => plat'[p] = plat[p]
         /\ \A k \in Keys :
               k[1] # "vBinding" /\ (obj[k].by = p \/ obj'[k].by = p) /\ <<Stream(k), p>> \notin news'
               => obj'[k] = obj[k]
  <1>1. news \subseteq news' /\ (p \notin news' => plat'[p] = plat[p])
    BY DEF Notify
  <1>2. ASSUME NEW k \in Keys, k[1] # "vBinding", obj[k].by = p \/ obj'[k].by = p, obj'[k] # obj[k]
        PROVE  <<Stream(k), p>> \in news'
    <2>1. p \in Requests(k, obj[k]) \cup Requests(k, obj'[k])
      BY <1>2, PlatformConstants DEF Requests
    <2>2. <<Stream(k), p>> \in {Stream(k)} \X (Requests(k, obj[k]) \cup Requests(k, obj'[k]))
      BY <2>1
    <2>3. k \in {x \in Keys : obj'[x] # obj[x]}
      BY <1>2
    <2> QED BY <2>2, <2>3 DEF Notify
  <1> QED BY <1>1, <1>2

LEMMA StreamIs == ASSUME NEW k PROVE Stream(k) = "namespaced" \/ Stream(k) = "bindings"
  BY DEF Stream

LEMMA NotifyKeeps ==
  ASSUME CachedInv, Notify, cache' = cache, queue \subseteq queue' PROVE AllKept /\ CachedInv'
  <1>1. ASSUME NEW p \in Platforms PROVE Kept(p)
    <2>1. SUFFICES ASSUME ~Woken(p)'
                   PROVE  /\ ~Woken(p) /\ plat'[p] = plat[p]
                          /\ \A k \in Keys : k[1] # "vBinding" /\ (obj[k].by = p \/ obj'[k].by = p) => obj'[k] = obj[k]
      BY DEF Kept
    <2>2. ~Woken(p) /\ p \notin news'
      BY <2>1, Notified DEF Woken
    <2>3. \A k \in Keys : <<Stream(k), p>> \notin news'
      BY <2>1, StreamIs DEF Woken
    <2> QED BY <2>2, <2>3, Notified
  <1>2. ASSUME NEW p \in Platforms, p \notin news' PROVE cache'.plat[p] = plat'[p]
    BY <1>2, Notified DEF CachedInv
  <1>3. ASSUME NEW p \in Platforms, NEW k \in Keys, k[1] # "vBinding", obj'[k].by = p, <<Stream(k), p>> \notin news'
        PROVE  cache'.obj[k] = obj'[k]
    <2>1. obj'[k] = obj[k] /\ <<Stream(k), p>> \notin news
      BY <1>3, Notified
    <2> QED BY <1>3, <2>1 DEF CachedInv
  <1> QED BY <1>1, <1>2, <1>3 DEF AllKept, CachedInv

\* So does a step that changes nothing on the server.
LEMMA StillKept ==
  ASSUME CachedInv, UNCHANGED <<plat, obj, cache, news>>, queue \subseteq queue' PROVE AllKept /\ CachedInv'
  BY DEF AllKept, Kept, Woken, CachedInv

LEMMA EventIs ==
  ASSUME NEW i \in Streams, NEW p \in Platforms, NEW q \in Platforms PROVE <<i, p>> # q /\ <<i, p>> \notin Platforms
  BY EventNames

LEMMA DeliverKept ==
  ASSUME TypeInv, CachedInv, NEW i \in {"objects", "platforms"}, DeliverAny(i) PROVE AllKept /\ CachedInv'
  <1>0. UNCHANGED <<plat, obj>> /\ cache \in CacheType /\ "namespaced" \in Streams /\ "bindings" \in Streams
    BY DEF DeliverAny, DeliverObjects, DeliverPlatform, TypeInv, TypeOK, CacheType, Streams
  <1>1. ASSUME NEW q \in Platforms, DeliverPlatform(q) PROVE AllKept /\ CachedInv'
    <2>1. news' = news \ {q} /\ queue' = queue \cup {q}
      BY <1>1 DEF DeliverPlatform
    <2>2. cache'.obj = cache.obj /\ cache'.plat = [cache.plat EXCEPT ![q] = plat[q]]
      BY <1>0, <1>1 DEF DeliverPlatform, CacheType
    <2>3. \A s \in Streams, p \in Platforms : <<s, p>> \notin news' => <<s, p>> \notin news
      BY <2>1, EventIs
    <2>4. ASSUME NEW p \in Platforms PROVE Kept(p)
      BY <1>0, <2>1, <2>3 DEF Kept, Woken
    <2>5. ASSUME NEW p \in Platforms, p \notin news' PROVE cache'.plat[p] = plat'[p]
      <3>1. cache'.plat[p] = IF p = q THEN plat[q] ELSE cache.plat[p]
        BY <1>0, <2>2 DEF CacheType
      <3> QED BY <1>0, <2>1, <2>5, <3>1 DEF CachedInv
    <2>6. ASSUME NEW p \in Platforms, NEW k \in Keys, k[1] # "vBinding", obj'[k].by = p, <<Stream(k), p>> \notin news'
          PROVE  cache'.obj[k] = obj'[k]
      <3>1. <<Stream(k), p>> \notin news
        BY <1>0, <2>3, <2>6, StreamIs
      <3> QED BY <1>0, <2>2, <2>6, <3>1 DEF CachedInv
    <2> QED BY <2>4, <2>5, <2>6 DEF AllKept, CachedInv
  <1>2. ASSUME NEW s \in Streams, DeliverObjects(s) PROVE AllKept /\ CachedInv'
    <2> DEFINE heard == {e \in news : e \notin Platforms /\ e[1] = s}
    <2>1. news' = news \ heard /\ queue' = queue \cup ({e[2] : e \in heard} \ {NoOne})
      BY <1>2 DEF DeliverObjects
    <2>2. cache'.plat = cache.plat /\ \A k \in Keys : cache'.obj[k] = IF Stream(k) = s THEN obj[k] ELSE cache.obj[k]
      BY <1>0, <1>2 DEF DeliverObjects, CacheType
    <2>3. \A p \in Platforms : p \in news => p \in news'
      BY <2>1
    <2>4. ASSUME NEW t \in Streams, NEW p \in Platforms, <<t, p>> \in news PROVE <<t, p>> \in news' \/ (t = s /\ p \in queue')
      <3>1. CASE t # s
        BY <2>1, <2>4, <3>1
      <3>2. CASE t = s
        <4>1. PICK e : e = <<t, p>>
          OBVIOUS
        <4>2. e \in heard /\ e[2] = p
          BY <2>4, <3>2, <4>1, EventIs
        <4>3. p # NoOne
          BY PlatformConstants
        <4> QED BY <2>1, <3>2, <4>2, <4>3
      <3> QED BY <3>1, <3>2
    <2> HIDE DEF heard
    <2>5. ASSUME NEW p \in Platforms PROVE Kept(p)
      <3>1. ~Woken(p)' => ~Woken(p)
        BY <1>0, <2>1, <2>3, <2>4 DEF Woken
      <3> QED BY <1>0, <3>1 DEF Kept
    <2>6. ASSUME NEW p \in Platforms, p \notin news' PROVE cache'.plat[p] = plat'[p]
      BY <1>0, <2>2, <2>3, <2>6 DEF CachedInv
    <2>7. ASSUME NEW p \in Platforms, NEW k \in Keys, k[1] # "vBinding", obj'[k].by = p, <<Stream(k), p>> \notin news'
          PROVE  cache'.obj[k] = obj'[k]
      <3>1. CASE Stream(k) = s
        BY <1>0, <2>2, <3>1
      <3>2. CASE Stream(k) # s
        <4>1. <<Stream(k), p>> \notin news
          BY <1>0, <2>4, <2>7, <3>2, StreamIs
        <4> QED BY <1>0, <2>2, <2>7, <3>2, <4>1 DEF CachedInv
      <3> QED BY <3>1, <3>2
    <2> QED BY <2>5, <2>6, <2>7 DEF AllKept, CachedInv
  <1> QED BY <1>1, <1>2 DEF DeliverAny

-----------------------------------------------------------------------------
(* What lasts while a platform is not woken                                *)

LEMMA OwnsKept ==
  ASSUME NEW p \in Platforms, Kept(p), ~Woken(p)'
  PROVE  /\ \A kind \in Kinds : kind # "vBinding" => (Owns(p, kind)' <=> Owns(p, kind))
         /\ \A kind \in Kinds : kind # "vBinding" /\ Owns(p, kind) => obj'[Key(kind, p)] = obj[Key(kind, p)]
         /\ \A c \in 1..3 : \A s : OwnsAll(p, c, s) => OwnsAll(p, c, s)'
  <1>1. ASSUME NEW kind \in Kinds, kind # "vBinding", NEW k, k = Key(kind, p)
        PROVE  /\ obj'[k].by = p <=> obj[k].by = p
               /\ obj[k].by = p => obj'[k] = obj[k]
    <2>1. k \in Keys /\ k[1] # "vBinding"
      BY <1>1, KeyKind, KeyIn
    <2>2. obj[k].by = p \/ obj'[k].by = p => obj'[k] = obj[k]
      BY <2>1 DEF Kept
    <2> QED BY <2>2
  <1>2. \A kind \in Kinds : kind # "vBinding" => (Owns(p, kind)' <=> Owns(p, kind))
    BY <1>1 DEF Owns
  <1>3. \A kind \in Kinds : kind # "vBinding" /\ Owns(p, kind) => obj'[Key(kind, p)] = obj[Key(kind, p)]
    BY <1>1 DEF Owns
  <1>4. ASSUME NEW c \in 1..3, NEW s, OwnsAll(p, c, s) PROVE OwnsAll(p, c, s)'
    BY <1>2, <1>4, NeedsKinds DEF OwnsAll
  <1> QED BY <1>2, <1>3, <1>4

LEMMA BindingKind == "gwBinding" \in Kinds /\ "gwBinding" # "vBinding"
  BY DEF Kinds, GatewayKinds

LEMMA RestKept ==
  ASSUME NEW p \in Platforms, Kept(p), ~Woken(p)', NEW pl, NEW l, GatewayRest(p, pl, l)
  PROVE  GatewayRest(p, pl, l)'
  <1>1. \A kind \in Kinds : kind # "vBinding" => (Owns(p, kind)' <=> Owns(p, kind))
    BY OwnsKept
  <1>2. \A kind \in Needs(3, pl.spec) : Owns(p, kind)' <=> Owns(p, kind)
    BY <1>1, NeedsKinds
  <1>3. Owns(p, "gwBinding")' <=> Owns(p, "gwBinding")
    BY <1>1, BindingKind
  <1> QED BY <1>2, <1>3 DEF GatewayRest

LEMMA ToldKept ==
  ASSUME NEW p \in Platforms, Kept(p), ~Woken(p)', NEW st, NEW s \in PlatSpec,
         \A c \in 1..3 : OwnsAll(p, c, s), Told(st, p, s, obj)
  PROVE  Told(st, p, s, obj')
  <1>1. ASSUME NEW c \in 1..3, NEW kind \in Needs(c, s) PROVE obj[Key(kind, p)] = obj'[Key(kind, p)]
    <2>1. Owns(p, kind) /\ kind \in Kinds /\ kind # "vBinding"
      BY <1>1, NeedsKinds DEF OwnsAll
    <2> QED BY <2>1, OwnsKept
  <1> QED BY <1>1, ToldSame

\* When there are no calls left for the gateway, everything has been made.
LEMMA AllMade ==
  ASSUME NEW p \in Platforms, NEW wk, wk.comp > 2, wk.comp \in 0..5, wk.todo = <<>>, Progress(p, wk)
  PROVE  /\ \A c \in 1..3 : OwnsAll(p, c, wk.obj.spec)
         /\ Owns(p, "gwBinding") => wk.obj.fin
  <1>1. Range(wk.todo) = {}
    BY EmptyRange
  <1>2. OwnsAll(p, 3, wk.obj.spec) /\ (Owns(p, "gwBinding") => wk.obj.fin)
    <2>1. GatewayRest(p, wk.obj, wk.todo)
      BY DEF Progress
    <2> QED BY <1>1, <2>1 DEF GatewayRest, Turns, Makes, OwnsAll
  <1>3. OwnsAll(p, 1, wk.obj.spec) /\ OwnsAll(p, 2, wk.obj.spec)
    <2>1. wk.comp > 1
      OBVIOUS
    <2> QED BY <2>1 DEF Progress
  <1> QED BY <1>2, <1>3

LEMMA ProgressKept ==
  ASSUME NEW p \in Platforms, Kept(p), ~Woken(p)', NEW wk \in WorkerType, ListOK(wk.comp, wk.todo), Progress(p, wk)
  PROVE  Progress(p, wk)'
  <1>0. wk.comp \in 0..5 /\ wk.obj.spec \in PlatSpec /\ (wk.comp > 3 => wk.todo = <<>>)
    BY DEF WorkerType, WritePhase, LogicPlatform, ListOK
  <1>1. Same(wk.obj, plat'[p])
    BY DEF Progress, Kept
  <1>2. /\ wk.comp > 1 => OwnsAll(p, 1, wk.obj.spec)'
        /\ wk.comp > 2 => OwnsAll(p, 2, wk.obj.spec)' /\ GatewayRest(p, wk.obj, wk.todo)'
    BY OwnsKept, RestKept DEF Progress
  <1>3. ASSUME wk.comp = WritePhase PROVE Told(wk.obj.status, p, wk.obj.spec, obj')
    <2>1. wk.todo = <<>> /\ wk.comp > 2
      BY <1>0, <1>3 DEF WritePhase
    <2>2. \A c \in 1..3 : OwnsAll(p, c, wk.obj.spec)
      BY <1>0, <2>1, AllMade
    <2>3. Told(wk.obj.status, p, wk.obj.spec, obj)
      BY <1>3 DEF Progress
    <2> QED BY <1>0, <2>2, <2>3, ToldKept
  <1> QED BY <1>1, <1>2, <1>3 DEF Progress

LEMMA SettledKept ==
  ASSUME NEW p \in Platforms, TypeOK, Kept(p), ~Woken(p)', Settled(p) PROVE Settled(p)'
  <1>1. plat'[p] = plat[p] /\ plat[p].spec \in PlatSpec
    BY DEF Kept, TypeOK, LogicPlatform
  <1>2. \A c \in 1..3 : OwnsAll(p, c, plat[p].spec)'
    <2>1. PICK s : s = plat[p].spec
      OBVIOUS
    <2>2. \A c \in 1..3 : OwnsAll(p, c, s)
      BY <2>1 DEF Settled
    <2>3. \A c \in 1..3 : OwnsAll(p, c, s)'
      BY <2>2, OwnsKept
    <2> QED BY <1>1, <2>1, <2>3 DEF OwnsAll
  <1>3. Told(plat[p].status, p, plat[p].spec, obj')
    BY <1>1, ToldKept DEF Settled
  <1>4. Owns(p, "gwBinding")' <=> Owns(p, "gwBinding")
    BY OwnsKept, BindingKind
  <1> QED BY <1>1, <1>2, <1>3, <1>4 DEF Settled

\* A step that lets the worker be.
LEMMA WorkKept == ASSUME StatusInv, AllKept, w' = w PROVE WorkInv'
  <1>1. SUFFICES ASSUME Untold' PROVE Progress(w.p, w)'
    BY DEF WorkInv
  <1>2. PICK wk : wk = w
    OBVIOUS
  <1>3. PICK p : p = w.p
    OBVIOUS
  <1>4. w'.comp > 0 /\ ~w'.err /\ ~Woken(w.p)' /\ Exists(plat'[w'.p])
    BY <1>1 DEF Untold
  <1>5. wk \in WorkerType /\ p \in Platforms /\ ListOK(wk.comp, wk.todo)
    BY <1>2, <1>3, <1>4 DEF StatusInv, TypeInv, TypeOK, WorkerOK
  <1>6. Kept(p) /\ ~Woken(p)'
    BY <1>3, <1>4, <1>5 DEF AllKept, Woken
  <1>7. plat'[p] = plat[p] /\ ~Woken(p)
    BY <1>6 DEF Kept
  <1>8. Untold
    BY <1>3, <1>4, <1>7 DEF Untold
  <1>9. Progress(p, wk)
    BY <1>2, <1>3, <1>8 DEF StatusInv, WorkInv
  <1>10. Progress(p, wk)'
    BY <1>5, <1>6, <1>9, ProgressKept
  <1> QED BY <1>2, <1>3, <1>10

\* A step after which the worker has the same platform or one that is woken.
LEMMA OthersKept ==
  ASSUME StatusInv, AllKept,
         \A p \in Platforms : ~Woken(p)' /\ w'.p # p => w.p # p
  PROVE  RestInv'
  <1>1. ASSUME NEW p \in Platforms, Exists(plat'[p]), ~Woken(p)', w'.p # p PROVE Settled(p)'
    <2>1. Kept(p) /\ w.p # p
      BY <1>1 DEF AllKept
    <2>2. ~Woken(p) /\ plat'[p] = plat[p]
      BY <1>1, <2>1 DEF Kept
    <2>3. Settled(p) /\ TypeOK
      BY <1>1, <2>1, <2>2 DEF StatusInv, RestInv, TypeInv
    <2> QED BY <1>1, <2>1, <2>3, SettledKept
  <1> QED BY <1>1 DEF RestInv

-----------------------------------------------------------------------------
(* From one component to the next                                          *)

LEMMA SmallestIn ==
  ASSUME NEW S, S \subseteq 1..5, S # {} PROVE Min(S) \in S /\ \A c \in S : Min(S) =< c
  <1>1. PICK c0 \in S : TRUE
    OBVIOUS
  <1>2. \E x \in S : \A y \in S : x =< y
    BY <1>1
  <1> QED BY <1>2 DEF Min

\* The next component is the first one that has calls to make.
LEMMA ProceedTo ==
  ASSUME NEW wk \in WorkerType, wk.comp \in 0..3, wk.todo = <<>>, NEW comps, NEW next, next = Proceed(wk, comps)
  PROVE  /\ next.obj = wk.obj /\ next.p = wk.p /\ next.err = wk.err
         /\ \/ /\ next.comp = 4 /\ next.todo = <<>>
               /\ \A c \in 1..3 : c > wk.comp => comps[c] = <<>>
            \/ /\ next.comp \in 1..3 /\ next.comp > wk.comp /\ next.todo = comps[next.comp]
               /\ \A c \in 1..3 : c > wk.comp /\ c < next.comp => comps[c] = <<>>
  <1> DEFINE rest == {c \in (wk.comp + 1)..3 : comps[c] # <<>>}
  <1>1. CASE rest = {}
    <2>1. next = [wk EXCEPT !.comp = 4]
      BY <1>1 DEF Proceed, UpdatePhase
    <2>2. \A c \in 1..3 : c > wk.comp => comps[c] = <<>>
      BY <1>1
    <2> QED BY <2>1, <2>2 DEF WorkerType
  <1>2. CASE rest # {}
    <2>1. PICK m : m = Min(rest)
      OBVIOUS
    <2>2. rest \subseteq 1..5
      OBVIOUS
    <2>3. m \in rest /\ \A c \in rest : m =< c
      BY <1>2, <2>1, <2>2, SmallestIn
    <2>4. m \in 1..3 /\ m > wk.comp /\ \A c \in 1..3 : c > wk.comp /\ c < m => comps[c] = <<>>
      BY <2>3
    <2>5. next = [wk EXCEPT !.comp = m, !.todo = comps[m]]
      BY <1>2, <2>1 DEF Proceed
    <2>6. next.comp = m /\ next.todo = comps[m] /\ next.obj = wk.obj /\ next.p = wk.p /\ next.err = wk.err
      BY <2>5 DEF WorkerType
    <2> QED BY <2>4, <2>6
  <1> QED BY <1>1, <1>2

\* The lists depend on the spec and the marks of the platform.
LEMMA ListsSame ==
  ASSUME NEW a, NEW b, a.spec = b.spec, a.fin = b.fin, a.del = b.del
  PROVE  /\ reconcileDataIndex(a) = reconcileDataIndex(b)
         /\ reconcileVector(a) = reconcileVector(b)
         /\ reconcileWorkflowGateway(a) = reconcileWorkflowGateway(b)
  <1>1. reconcileDataIndex(a) = reconcileDataIndex(b) /\ reconcileVector(a) = reconcileVector(b)
    BY DEF reconcileDataIndex, reconcileVector, applyDataIndexIngress
  <1>2. deleteWorkflowGatewayResources(a) = deleteWorkflowGatewayResources(b)
    BY DEF deleteWorkflowGatewayResources
  <1>3. applyGateway(a) = applyGateway(b)
    BY DEF applyGateway, applyGatewayIngress
  <1> QED BY <1>1, <1>2, <1>3 DEF reconcileWorkflowGateway

\* A component that is done with hands over.
LEMMA HandOver ==
  ASSUME NEW p \in Platforms, NEW wk \in WorkerType, wk.comp \in 0..3, wk.todo = <<>>,
         NEW pl, pl.spec = wk.obj.spec, pl.fin = wk.obj.fin, pl.del = wk.obj.del,
         wk.obj.del => wk.obj.fin, Same(wk.obj, plat'[p]),
         wk.comp > 0 => OwnsAll(p, 1, wk.obj.spec)',
         wk.comp > 1 => OwnsAll(p, 2, wk.obj.spec)',
         wk.comp > 2 => GatewayRest(p, wk.obj, <<>>)',
         NEW next,
         next = Proceed(wk, <<reconcileDataIndex(pl), reconcileVector(pl), reconcileWorkflowGateway(pl)>>)
  PROVE  Progress(p, next)'
  <1>1. PICK comps : comps = <<reconcileDataIndex(wk.obj), reconcileVector(wk.obj), reconcileWorkflowGateway(wk.obj)>>
    OBVIOUS
  <1>2. next = Proceed(wk, comps)
    BY <1>1, ListsSame
  <1>3. /\ next.obj = wk.obj /\ next.p = wk.p /\ next.err = wk.err
        /\ \/ /\ next.comp = 4 /\ next.todo = <<>>
              /\ \A c \in 1..3 : c > wk.comp => comps[c] = <<>>
           \/ /\ next.comp \in 1..3 /\ next.comp > wk.comp /\ next.todo = comps[next.comp]
              /\ \A c \in 1..3 : c > wk.comp /\ c < next.comp => comps[c] = <<>>
    BY <1>2, ProceedTo
  <1>4. /\ comps[1] = reconcileDataIndex(wk.obj) /\ comps[2] = reconcileVector(wk.obj)
        /\ comps[3] = reconcileWorkflowGateway(wk.obj)
    BY <1>1
  <1>5. next.comp = 1 => next.todo = reconcileDataIndex(next.obj)
    BY <1>3, <1>4
  <1>6. next.comp = 2 => next.todo = reconcileVector(next.obj)
    BY <1>3, <1>4
  <1>7. next.comp > 1 => OwnsAll(p, 1, wk.obj.spec)'
    <2>1. next.comp > 1 => wk.comp > 0 \/ comps[1] = <<>>
      BY <1>3
    <2> QED BY <1>4, <2>1, NothingToDo DEF OwnsAll
  <1>8. next.comp > 2 => OwnsAll(p, 2, wk.obj.spec)'
    <2>1. next.comp > 2 => wk.comp > 1 \/ comps[2] = <<>>
      BY <1>3
    <2> QED BY <1>4, <2>1, NothingToDo DEF OwnsAll
  <1>9. next.comp > 2 => GatewayRest(p, wk.obj, next.todo)'
    <2>1. GatewayRest(p, wk.obj, comps[3])' /\ comps[3] # <<>>
      BY <1>4, GatewaySuffices DEF Suffice, GatewayRest
    <2>2. CASE next.comp = 4
      <3>1. wk.comp > 2
        BY <1>3, <2>1, <2>2
      <3> QED BY <1>3, <2>2, <3>1
    <2>3. CASE next.comp = 3
      <3>1. next.todo = comps[3]
        BY <1>3, <2>3
      <3> QED BY <2>1, <3>1 DEF GatewayRest
    <2> QED BY <1>3, <2>2, <2>3
  <1>10. next.comp # WritePhase
    BY <1>3 DEF WritePhase
  <1> QED BY <1>3, <1>5, <1>6, <1>7, <1>8, <1>9, <1>10 DEF Progress

-----------------------------------------------------------------------------
(* The worker goes on                                                      *)

\* A step after which nothing is to be told of the platform that the worker has: before
\* it nothing was.
LEMMA Before ==
  ASSUME StatusInv, AllKept, Untold', w.comp > 0, w'.p = w.p, NEW p, p = w.p
  PROVE  /\ p \in Platforms /\ Kept(p) /\ ~Woken(p)' /\ ~Woken(p) /\ plat'[p] = plat[p] /\ ~w'.err
         /\ ~w.err => Progress(p, w) /\ Same(w.obj, plat[p]) /\ (w.obj.del => w.obj.fin)
  <1>1. w'.comp > 0 /\ ~w'.err /\ ~Woken(w.p)' /\ Exists(plat'[w'.p])
    BY DEF Untold
  <1>2. p \in Platforms
    BY DEF StatusInv, TypeInv, WorkerOK
  <1>3. Kept(p) /\ ~Woken(p)'
    BY <1>1, <1>2 DEF AllKept, Woken
  <1>4. plat'[p] = plat[p] /\ ~Woken(p)
    BY <1>3 DEF Kept
  <1>5. ~w.err => Progress(p, w)
    BY <1>1, <1>4 DEF Untold, StatusInv, WorkInv
  <1>6. ~w.err => Same(w.obj, plat[p]) /\ (w.obj.del => w.obj.fin)
    BY <1>2, <1>5 DEF Progress, Same, StatusInv, MarkedInv
  <1> QED BY <1>1, <1>2, <1>3, <1>4, <1>5, <1>6

LEMMA NextProgress ==
  ASSUME NEW p, NEW next, p = w'.p, next = w', Progress(p, next)' PROVE Progress(w.p, w)'
  OBVIOUS

LEMMA Onward ==
  ASSUME NEW wk \in WorkerType, wk.comp = 3, NEW comps, NEW next, next = Proceed(wk, comps)
  PROVE  /\ next.obj = wk.obj /\ next.p = wk.p /\ next.err = wk.err /\ next.todo = wk.todo
         /\ next.comp \in {3, 4}
  <1>1. CASE wk.todo # <<>>
    BY <1>1 DEF Proceed
  <1>2. CASE wk.todo = <<>>
    BY <1>2, ProceedTo
  <1> QED BY <1>1, <1>2

\* A worker with other calls to make, and with another platform in hand.
WithCalls(wk, l) == [wk EXCEPT !.todo = l]
WithPlatform(wk, pl) == [wk EXCEPT !.obj = pl]

LEMMA WithCallsIs ==
  ASSUME NEW wk \in WorkerType, wk.comp = 3, NEW l, ListOK(3, l), NEW x, x = WithCalls(wk, l)
  PROVE  x \in WorkerType /\ x.comp = 3 /\ x.p = wk.p /\ x.obj = wk.obj /\ x.todo = l /\ x.err = wk.err
  <1>1. 3 \in 0..5
    OBVIOUS
  <1>2. l \in Calls
    BY <1>1, ListType
  <1>3. x = [wk EXCEPT !.todo = l]
    BY DEF WithCalls
  <1> QED BY <1>2, <1>3, SetTodo

LEMMA WithPlatformIs ==
  ASSUME NEW wk \in WorkerType, NEW pl \in LogicPlatform, NEW x, x = WithPlatform(wk, pl)
  PROVE  /\ x \in WorkerType /\ x.comp = wk.comp /\ x.p = wk.p /\ x.obj = pl
         /\ x.todo = wk.todo /\ x.err = wk.err
  <1>1. x = [wk EXCEPT !.obj = pl]
    BY DEF WithPlatform
  <1> QED BY <1>1, SetObj

LEMMA ContinueIs ==
  ASSUME TypeInv, w.comp = 3, w.todo # <<>>, Continue, NEW t, t = Tail(w.todo)
  PROVE  /\ w'.obj = w.obj /\ w'.p = w.p /\ w'.err = w.err /\ w'.todo = t /\ w'.comp \in {3, 4}
  <1>1. PICK x : x = WithCalls(w, t)
    OBVIOUS
  <1>2. w \in WorkerType /\ ListOK(3, t)
    <2>1. ListOK(3, t)
      BY ListTail DEF TypeInv, WorkerOK
    <2> QED BY <2>1 DEF TypeInv, TypeOK
  <1>3. x \in WorkerType /\ x.comp = 3 /\ x.p = w.p /\ x.obj = w.obj /\ x.todo = t /\ x.err = w.err
    BY <1>1, <1>2, WithCallsIs
  <1>4. w' = Proceed(x, components)
    BY <1>1 DEF Continue, WithCalls
  <1> QED BY <1>3, <1>4, Onward

LEMMA AbandonIs ==
  ASSUME TypeInv, w.comp = 3, Abandon PROVE w'.err /\ w'.p = w.p
  <1>1. PICK x : x = [w EXCEPT !.todo = <<>>]
    OBVIOUS
  <1>2. w \in WorkerType /\ <<>> \in Calls
    <2>1. ListOK(3, <<>>)
      BY EmptyList
    <2>2. <<>> \in Calls
      BY <2>1, ListType
    <2> QED BY <2>2 DEF TypeInv, TypeOK
  <1>3. x \in WorkerType /\ x.comp = 3 /\ x.p = w.p
    BY <1>1, <1>2, SetTodo
  <1>4. PICK y : y = [x EXCEPT !.err = TRUE]
    OBVIOUS
  <1>5. y \in WorkerType /\ y.comp = 3 /\ y.err /\ y.p = w.p
    BY <1>3, <1>4, SetErr
  <1>6. w' = Proceed(y, components)
    BY <1>1, <1>4 DEF Abandon
  <1> QED BY <1>5, <1>6, Onward

\* The calls that are left after one of the gateway's.
LEMMA RestAfter ==
  ASSUME NEW p \in Platforms, Kept(p), ~Woken(p)', NEW pl, NEW S, NEW l \in Seq(S), l # <<>>,
         NEW t, t = Tail(l), NEW h, h = Head(l), GatewayRest(p, pl, l),
         h = Finalizer("add") => pl.fin, h = Finalizer("remove") => ~pl.fin,
         \A kind \in Needs(3, pl.spec) : h = Do("apply", kind) \/ h = Do("applyChecked", kind) => Owns(p, kind)',
         h = Do("deleteChecked", "gwBinding") => ~Owns(p, "gwBinding")'
  PROVE  GatewayRest(p, pl, t)'
  <1>1. \A x \in Range(l) : x = h \/ x \in Range(t)
    BY ListRange
  <1>2. CASE Turns(pl, l)
    <2>1. Turns(pl, t)
      BY <1>1, <1>2 DEF Turns
    <2> QED BY <2>1 DEF GatewayRest
  <1>3. CASE ~Turns(pl, l)
    <2>1. ASSUME NEW kind \in Needs(3, pl.spec) PROVE Owns(p, kind)' \/ Makes(t, kind)
      <3>1. CASE Owns(p, kind)
        BY <2>1, <3>1, OwnsKept, NeedsKinds
      <3>2. CASE Makes(l, kind)
        BY <1>1, <2>1, <3>2 DEF Makes
      <3> QED BY <1>3, <2>1, <3>1, <3>2 DEF GatewayRest
    <2>2. ASSUME Owns(p, "gwBinding")' PROVE pl.fin \/ Do("deleteChecked", "gwBinding") \in Range(t)
      <3>1. Owns(p, "gwBinding")
        BY <2>2, OwnsKept, BindingKind
      <3>2. pl.fin \/ Do("deleteChecked", "gwBinding") \in Range(l)
        BY <1>3, <3>1 DEF GatewayRest
      <3> QED BY <1>1, <2>2, <3>2
    <2> QED BY <2>1, <2>2 DEF GatewayRest
  <1> QED BY <1>2, <1>3

\* What was made stays made, and the gateway's calls are left as RestAfter says.
LEMMA GatewayOn ==
  ASSUME NEW p \in Platforms, Kept(p), ~Woken(p)', NEW wk, wk.comp = 3, Progress(p, wk),
         NEW next, next.obj.spec = wk.obj.spec, Same(next.obj, plat'[p]), next.comp \in {3, 4},
         GatewayRest(p, next.obj, next.todo)'
  PROVE  Progress(p, next)'
  <1>1. OwnsAll(p, 1, next.obj.spec)' /\ OwnsAll(p, 2, next.obj.spec)'
    BY OwnsKept DEF Progress
  <1> QED BY <1>1 DEF Progress, WritePhase

LEMMA GatewayCallsLeft ==
  ASSUME TypeInv, w.comp = 3, w.todo # <<>>, NEW h, h = Head(w.todo)
  PROVE  w.todo \in Seq(GatewayCall) /\ h \in GatewayCall
  <1>1. w.todo \in Seq(GatewayCall)
    BY TwoLists DEF TypeInv, WorkerOK, ListOK
  <1> QED BY <1>1

\* A call of the gateway's that has done what it is for.
LEMMA CallMade ==
  ASSUME StatusInv, AllKept, w.comp = 3, w.todo # <<>>, Continue, NEW h, h = Head(w.todo), NEW p, p = w.p,
         h.op \in {"apply", "applyChecked", "deleteOwned", "deleteChecked"},
         \A kind \in Kinds : h = Do("apply", kind) \/ h = Do("applyChecked", kind) => Owns(p, kind)',
         ~Woken(p)' /\ h = Do("deleteChecked", "gwBinding") => ~Owns(p, "gwBinding")'
  PROVE  WorkInv'
  <1>0. SUFFICES ASSUME Untold' PROVE Progress(w.p, w)'
    BY DEF WorkInv
  <1>1. PICK t : t = Tail(w.todo)
    OBVIOUS
  <1>2. /\ w'.obj = w.obj /\ w'.p = w.p /\ w'.err = w.err /\ w'.todo = t /\ w'.comp \in {3, 4}
    BY <1>1, ContinueIs DEF StatusInv
  <1>3. PICK wk : wk = w
    OBVIOUS
  <1>4. /\ p \in Platforms /\ Kept(p) /\ ~Woken(p)' /\ plat'[p] = plat[p]
        /\ Progress(p, wk) /\ Same(wk.obj, plat[p])
    BY <1>0, <1>2, <1>3, Before
  <1>5. PICK l : l = w.todo
    OBVIOUS
  <1>6. l \in Seq(GatewayCall) /\ l # <<>> /\ t = Tail(l) /\ h = Head(l)
    BY <1>1, <1>5, GatewayCallsLeft DEF StatusInv
  <1>7. GatewayRest(p, wk.obj, l)
    BY <1>3, <1>4, <1>5 DEF Progress
  <1>8. h # Finalizer("add") /\ h # Finalizer("remove")
    BY DEF Finalizer
  <1>9. \A kind \in Needs(3, wk.obj.spec) : h = Do("apply", kind) \/ h = Do("applyChecked", kind) => Owns(p, kind)'
    BY NeedsKinds
  <1>10. GatewayRest(p, wk.obj, t)'
    BY <1>4, <1>6, <1>7, <1>8, <1>9, RestAfter
  <1>11. PICK next : next = w'
    OBVIOUS
  <1>12. Progress(p, next)'
    BY <1>2, <1>3, <1>4, <1>10, <1>11, GatewayOn
  <1> QED BY <1>2, <1>11, <1>12, NextProgress

LEMMA ApplyWorks == ASSUME StatusInv, AllKept, ApplyObject PROVE WorkInv'
  <1>0. TypeInv /\ TypeOK /\ w.comp = 3 /\ w.todo # <<>> /\ Head(w.todo).op \in {"apply", "applyChecked"}
    BY DEF StatusInv, TypeInv, ApplyObject, Calling
  <1>1. CASE Abandon
    BY <1>0, <1>1, AbandonIs DEF WorkInv, Untold
  <1>2. CASE Continue /\ obj' = [obj EXCEPT ![CallKey] = Applied(@, CallKey)]
    <2>1. PICK p : p = w.p
      OBVIOUS
    <2>2. PICK h : h = Head(w.todo)
      OBVIOUS
    <2>3. PICK key : key = CallKey
      OBVIOUS
    <2>4. p \in Platforms /\ key = Key(h.kind, p)
      BY <1>0, <2>1, <2>2, <2>3 DEF TypeInv, WorkerOK, CallKey
    <2>5. key \in Keys => obj'[key].by = p
      <3>1. \A o \in Object : Applied(o, key).by = p
        BY <2>1 DEF Applied, Object
      <3>2. obj' = [obj EXCEPT ![key] = Applied(obj[key], key)]
        BY <1>2, <2>3
      <3> QED BY <1>0, <3>1, <3>2 DEF TypeOK
    <2>6. ASSUME NEW kind \in Kinds, h = Do("apply", kind) \/ h = Do("applyChecked", kind) PROVE Owns(p, kind)'
      <3>1. h.kind = kind
        BY <2>6 DEF Do
      <3> QED BY <2>4, <2>5, <3>1, KeyIn DEF Owns
    <2>7. h # Do("deleteChecked", "gwBinding")
      BY <1>0, <2>2 DEF Do
    <2> QED BY <1>0, <1>2, <2>1, <2>2, <2>6, <2>7, CallMade
  <1> QED BY <1>1, <1>2 DEF ApplyObject

\* A binding of the platform's own that nothing announces is found in the cache and goes.
LEMMA DeleteWorks == ASSUME StatusInv, AllKept, DeleteObject PROVE WorkInv'
  <1>0. /\ TypeInv /\ TypeOK /\ w.comp = 3 /\ w.todo # <<>>
        /\ Head(w.todo).op \in {"deleteOwned", "deleteChecked"}
    BY CallOK DEF StatusInv, TypeInv, DeleteObject, Calling
  <1>1. CASE Abandon
    BY <1>0, <1>1, AbandonIs DEF WorkInv, Untold
  <1>2. CASE Continue
    <2>1. PICK p : p = w.p
      OBVIOUS
    <2>2. PICK h : h = Head(w.todo)
      OBVIOUS
    <2>3. p \in Platforms /\ CallKey = Key(h.kind, p)
      BY <1>0, <2>1, <2>2 DEF TypeInv, WorkerOK, CallKey
    <2>4. ASSUME ~Woken(p)', h = Do("deleteChecked", "gwBinding"), Owns(p, "gwBinding")' PROVE FALSE
      <3>1. PICK key : key = Key("gwBinding", p)
        OBVIOUS
      <3>2. key \in Keys /\ key[1] = "gwBinding" /\ CallKey = key
        BY <2>3, <2>4, <3>1, BindingKey DEF Do
      <3>3. Kept(p)
        BY <2>3 DEF AllKept
      <3>4. ~Woken(p) /\ obj'[key].by = p /\ obj[key].by = p
        BY <2>4, <3>1, <3>2, <3>3 DEF Kept, Owns
      <3>5. <<Stream(key), p>> \notin news
        BY <3>4, StreamIs DEF Woken
      <3>6. cache.obj[key] = obj[key]
        BY <2>3, <3>2, <3>4, <3>5 DEF StatusInv, CachedInv
      <3>7. hasOwner(cache.obj[CallKey])
        BY <2>1, <3>2, <3>4, <3>6 DEF hasOwner
      <3>8. obj' = [obj EXCEPT ![key] = Nothing]
        BY <3>2, <3>7 DEF DeleteObject
      <3>9. obj'[key].by = NoOne
        BY <1>0, <3>2, <3>8 DEF TypeOK, Nothing
      <3> QED BY <2>3, <3>4, <3>9, PlatformConstants
    <2>5. ASSUME NEW kind \in Kinds, h = Do("apply", kind) \/ h = Do("applyChecked", kind) PROVE FALSE
      <3>1. h.op = "apply" \/ h.op = "applyChecked"
        BY <2>5 DEF Do
      <3>2. h.op = "deleteOwned" \/ h.op = "deleteChecked"
        BY <1>0, <2>2
      <3> QED BY <3>1, <3>2
    <2> QED BY <1>0, <1>2, <2>1, <2>2, <2>4, <2>5, CallMade
  <1> QED BY <1>1, <1>2 DEF DeleteObject

\* A response that says what is in memory already changes no more than the status.
LEMMA DecodedSame ==
  ASSUME NEW old \in LogicPlatform, NEW new \in LogicPlatform, old.spec = new.spec, old.del = new.del,
         NEW pl \in Decoded(old, new)
  PROVE  pl.spec = new.spec /\ Same(pl, new)
  <1>1. PICK s \in DecodedSpecs(old.spec, new.spec) :
            pl = [new EXCEPT !.spec = s, !.del = @ \/ old.del,
                             !.status = DecodedStatus(old.status, @)]
    BY DEF Decoded
  <1>2. s = new.spec
    <2>1. PICK a : a = new.spec
      OBVIOUS
    <2>2. a \in PlatSpec /\ s \in DecodedSpecs(a, a)
      BY <2>1 DEF LogicPlatform
    <2>3. /\ s \in PlatSpec /\ s.dataIndex = a.dataIndex /\ s.valid = a.valid
          /\ s.exposed = a.exposed /\ s.vector = a.vector
      BY <2>2 DEF DecodedSpecs, PlatSpec
    <2>4. s.gateway = a.gateway
      <3>1. a.gateway \in {"off", "on", "exposed"}
        BY <2>2 DEF PlatSpec
      <3> QED BY <2>2, <3>1 DEF DecodedSpecs
    <2> QED BY <2>1, <2>2, <2>3, <2>4 DEF PlatSpec
  <1>3. pl.spec = s /\ pl.del = (new.del \/ old.del)
    BY <1>1 DEF LogicPlatform
  <1>4. pl.uid = new.uid /\ pl.gen = new.gen /\ pl.fin = new.fin
    BY DecodedOK
  <1> QED BY <1>2, <1>3, <1>4 DEF Same, LogicPlatform

\* The patch that adds the finalizer changes the platform, or finds what the worker takes
\* over from it.
LEMMA AddWorks == ASSUME StatusInv, AllKept, AddFinalizer PROVE WorkInv'
  <1>0. TypeInv /\ TypeOK /\ w \in WorkerType /\ w.comp = 3 /\ w.p \in Platforms
    BY AddingOK DEF StatusInv, TypeInv, TypeOK, AddFinalizer
  <1>1. CASE Abandon
    BY <1>0, <1>1, AbandonIs DEF WorkInv, Untold
  <1>2. CASE ~Abandon
    <2>0. SUFFICES ASSUME Untold' PROVE Progress(w.p, w)'
      BY DEF WorkInv
    <2>1. PICK p : p = w.p
      OBVIOUS
    <2>2. PICK new : new = [plat[p] EXCEPT !.fin = TRUE]
      OBVIOUS
    <2>3. PICK pl \in Decoded(w.obj, new) :
              plat' = [plat EXCEPT ![p] = new] /\ w' = [w EXCEPT !.todo = applyGateway(pl), !.obj = pl]
      BY <1>2, <2>1, <2>2 DEF AddFinalizer
    <2>4. PICK l : l = applyGateway(pl)
      OBVIOUS
    <2>5. w'.obj = pl /\ w'.todo = l /\ w'.comp = 3 /\ w'.p = p /\ w'.err = w.err
      BY <1>0, <2>1, <2>3, <2>4 DEF WorkerType
    <2>6. PICK wk : wk = w
      OBVIOUS
    <2>7. /\ p \in Platforms /\ Kept(p) /\ ~Woken(p)' /\ plat'[p] = plat[p]
          /\ Progress(p, wk) /\ Same(wk.obj, plat[p])
      BY <1>0, <2>0, <2>1, <2>5, <2>6, Before
    <2>8. plat'[p] = new
      BY <1>0, <2>3, <2>7 DEF TypeOK
    <2>9. new \in LogicPlatform /\ new.fin /\ wk.obj \in LogicPlatform
      BY <1>0, <2>2, <2>6, <2>7, PlatEdits DEF TypeOK, WorkerType
    <2>13. pl.spec = new.spec /\ Same(pl, new) /\ wk.obj.spec = new.spec
      <3>1. pl \in Decoded(wk.obj, new)
        BY <2>3, <2>6
      <3>2. wk.obj.spec = new.spec /\ wk.obj.del = new.del
        BY <2>7, <2>8 DEF Same
      <3> QED BY <2>9, <3>1, <3>2, DecodedSame
    <2>10. GatewayRest(p, pl, l)'
      <3>1. pl.fin
        BY <2>9, <2>13 DEF Same
      <3> QED BY <2>4, <3>1, ApplySuffices DEF Suffice, GatewayRest
    <2>11. PICK next : next = w'
      OBVIOUS
    <2>12. Progress(p, next)'
      <3>1. Same(pl, plat'[p]) /\ pl.spec = wk.obj.spec
        BY <2>8, <2>13
      <3>2. wk.comp = 3
        BY <1>0, <2>6
      <3> QED BY <2>5, <2>7, <2>10, <2>11, <3>1, <3>2, GatewayOn
    <2> QED BY <2>5, <2>11, <2>12, NextProgress
  <1> QED BY <1>1, <1>2

\* The last call, when the patch is accepted.
LEMMA RemoveIs ==
  ASSUME TypeInv, RemoveFinalizer, ~Abandon, NEW p, p = w.p, NEW new, new = [plat[p] EXCEPT !.fin = FALSE],
         NEW t, t = Tail(w.todo)
  PROVE  /\ Exists(plat[p]) /\ plat' = [plat EXCEPT ![p] = IF plat[p].del THEN NoPlat ELSE new]
         /\ w'.obj \in Decoded(w.obj, new) /\ w'.todo = t /\ w'.comp \in {3, 4} /\ w'.p = p /\ w'.err = w.err
  <1>1. PICK pl \in Decoded(w.obj, new) :
            /\ Exists(plat[p]) /\ plat' = [plat EXCEPT ![p] = IF plat[p].del THEN NoPlat ELSE new]
            /\ w' = Proceed([w EXCEPT !.todo = t, !.obj = pl], components)
    BY DEF RemoveFinalizer
  <1>2. w \in WorkerType /\ w.comp = 3 /\ w.todo # <<>> /\ w.p \in Platforms
    <2>1. Calling({"remove"})
      BY DEF RemoveFinalizer
    <2>2. w.comp = 3 /\ w.todo # <<>>
      BY <2>1, CallOK
    <2> QED BY <2>2 DEF TypeInv, TypeOK, WorkerOK
  <1>3. pl \in LogicPlatform
    <2>1. plat[w.p] \in LogicPlatform /\ w.obj \in LogicPlatform
      BY <1>2 DEF TypeInv, TypeOK, WorkerType
    <2>2. new \in LogicPlatform
      BY <2>1, PlatEdits
    <2> QED BY <1>1, <2>1, <2>2, DecodedOK
  <1>4. PICK x : x = WithCalls(w, t)
    OBVIOUS
  <1>5. ListOK(3, t)
    BY <1>2, ListTail DEF TypeInv, WorkerOK
  <1>6. x \in WorkerType /\ x.comp = 3 /\ x.p = w.p /\ x.obj = w.obj /\ x.todo = t /\ x.err = w.err
    BY <1>2, <1>4, <1>5, WithCallsIs
  <1>7. PICK y : y = WithPlatform(x, pl)
    OBVIOUS
  <1>8. y \in WorkerType /\ y.comp = 3 /\ y.p = p /\ y.todo = t /\ y.err = w.err /\ y.obj = pl
    BY <1>3, <1>6, <1>7, WithPlatformIs
  <1>9. w' = Proceed(y, components)
    BY <1>1, <1>4, <1>7 DEF WithCalls, WithPlatform
  <1> QED BY <1>1, <1>8, <1>9, Onward

\* The patch that removes it changes the platform, or there is no finalizer.
LEMMA RemoveWorks == ASSUME StatusInv, AllKept, RemoveFinalizer PROVE WorkInv'
  <1>0. /\ TypeInv /\ TypeOK /\ w \in WorkerType /\ w.comp = 3 /\ w.p \in Platforms /\ w.todo # <<>>
        /\ Head(w.todo).op = "remove"
    <2>1. TypeInv /\ Calling({"remove"})
      BY DEF StatusInv, RemoveFinalizer
    <2>2. w.comp = 3 /\ w.todo # <<>>
      BY <2>1, CallOK
    <2> QED BY <2>1, <2>2 DEF TypeInv, TypeOK, WorkerOK, Calling
  <1>1. CASE Abandon
    BY <1>0, <1>1, AbandonIs DEF WorkInv, Untold
  <1>2. CASE ~Abandon
    <2>0. SUFFICES ASSUME Untold' PROVE Progress(w.p, w)'
      BY DEF WorkInv
    <2>1. PICK p : p = w.p
      OBVIOUS
    <2>2. PICK new : new = [plat[p] EXCEPT !.fin = FALSE]
      OBVIOUS
    <2>3. PICK t : t = Tail(w.todo)
      OBVIOUS
    <2>4. /\ Exists(plat[p]) /\ plat' = [plat EXCEPT ![p] = IF plat[p].del THEN NoPlat ELSE new]
          /\ w'.obj \in Decoded(w.obj, new) /\ w'.todo = t /\ w'.comp \in {3, 4} /\ w'.p = p /\ w'.err = w.err
      BY <1>0, <1>2, <2>1, <2>2, <2>3, RemoveIs
    <2>5. ~new.fin
      BY <1>0, <2>1, <2>2, PlatEdits DEF TypeOK
    <2>7. PICK wk : wk = w
      OBVIOUS
    <2>8. /\ p \in Platforms /\ Kept(p) /\ ~Woken(p)' /\ plat'[p] = plat[p]
          /\ Progress(p, wk) /\ Same(wk.obj, plat[p])
      BY <1>0, <2>0, <2>1, <2>4, <2>7, Before
    <2>9. plat'[p] = new
      <3>1. ~Exists(NoPlat)
        BY DEF Exists, NoPlat
      <3>2. plat'[p] = IF plat[p].del THEN NoPlat ELSE new
        BY <1>0, <2>4, <2>8 DEF TypeOK
      <3> QED BY <2>4, <2>8, <3>1, <3>2
    <2>15. PICK pl : pl = w'.obj
      OBVIOUS
    <2>10. Same(pl, plat'[p]) /\ pl.spec = wk.obj.spec /\ pl.fin = wk.obj.fin /\ wk.comp = 3 /\ new.fin = wk.obj.fin
      <3>1. new \in LogicPlatform /\ wk.obj \in LogicPlatform
        BY <1>0, <2>2, <2>7, <2>8, PlatEdits DEF TypeOK, WorkerType
      <3>2. pl \in Decoded(wk.obj, new)
        BY <2>4, <2>7, <2>15
      <3>3. wk.obj.spec = new.spec /\ wk.obj.del = new.del /\ wk.obj.fin = new.fin
        BY <2>8, <2>9 DEF Same
      <3>4. pl.spec = new.spec /\ Same(pl, new)
        BY <3>1, <3>2, <3>3, DecodedSame
      <3> QED BY <1>0, <2>7, <2>9, <3>3, <3>4 DEF Same
    <2>11. GatewayRest(p, wk.obj, t)'
      <3>1. PICK l : l = w.todo
        OBVIOUS
      <3>2. PICK h : h = Head(l)
        OBVIOUS
      <3>3. l \in Seq(GatewayCall) /\ h.op = "remove" /\ l # <<>> /\ t = Tail(l)
        BY <1>0, <2>3, <3>1, <3>2, GatewayCallsLeft
      <3>4. GatewayRest(p, wk.obj, l)
        BY <1>0, <2>7, <2>8, <3>1 DEF Progress
      <3>5. /\ h # Finalizer("add")
            /\ \A kind : h # Do("apply", kind) /\ h # Do("applyChecked", kind) /\ h # Do("deleteChecked", kind)
        BY <3>3 DEF Finalizer, Do
      <3>6. ~wk.obj.fin
        BY <2>5, <2>10
      <3> QED BY <2>8, <3>2, <3>3, <3>4, <3>5, <3>6, RestAfter
    <2>12. GatewayRest(p, pl, t)'
      BY <2>10, <2>11 DEF GatewayRest, Turns
    <2>13. PICK next : next = w'
      OBVIOUS
    <2>14. Progress(p, next)'
      BY <2>4, <2>8, <2>10, <2>12, <2>13, <2>15, GatewayOn
    <2> QED BY <2>4, <2>13, <2>14, NextProgress
  <1> QED BY <1>1, <1>2

-----------------------------------------------------------------------------
(* The worker begins, makes the calls of a component, and tells the status *)

LEMMA SettledStays ==
  ASSUME UNCHANGED <<plat, obj>>, NEW p, Settled(p) PROVE Settled(p)'
  <1>1. \A c, s : OwnsAll(p, c, s)' <=> OwnsAll(p, c, s)
    BY DEF OwnsAll, Owns
  <1>2. Owns(p, "gwBinding")' <=> Owns(p, "gwBinding")
    BY DEF Owns
  <1> QED BY <1>1, <1>2 DEF Settled, OwnsAll, Owns

LEMMA BeginWorks == ASSUME StatusInv, NEW p \in Platforms, Begin(p) PROVE WorkInv' /\ RestInv'
  <1>0. TypeInv /\ TypeOK /\ w = Idle /\ UNCHANGED <<plat, obj, cache, news>> /\ queue' = queue \ {p}
    BY DEF StatusInv, TypeInv, Begin
  <1>1. w.p \notin Platforms
    BY <1>0, PlatformConstants DEF Idle
  <1>2. PICK pl : pl = cache.plat[p]
    OBVIOUS
  <1>3. pl \in LogicPlatform /\ (~Woken(p)' => pl = plat[p])
    <2>1. ~Woken(p)' => p \notin news
      BY <1>0 DEF Woken
    <2> QED BY <1>0, <1>2, <2>1 DEF TypeOK, StatusInv, CachedInv
  <1>4. ASSUME NEW q \in Platforms, Exists(plat'[q]), ~Woken(q)', w'.p # q, q # p PROVE Settled(q)'
    <2>1. ~Woken(q) /\ w.p # q /\ Exists(plat[q])
      BY <1>0, <1>1, <1>4 DEF Woken
    <2>2. Settled(q)
      BY <2>1 DEF StatusInv, RestInv
    <2> QED BY <1>0, <2>2, SettledStays
  <1>5. CASE ~Exists(pl)
    <2>1. w' = Idle
      BY <1>2, <1>5 DEF Begin
    <2>2. WorkInv'
      BY <2>1 DEF WorkInv, Untold, Idle
    <2>3. ~Woken(p)' => ~Exists(plat'[p])
      BY <1>0, <1>3, <1>5
    <2> QED BY <1>4, <2>2, <2>3 DEF RestInv
  <1>6. CASE Exists(pl)
    <2>1. PICK x : x = [Idle EXCEPT !.p = p]
      OBVIOUS
    <2>2. PICK wk : wk = [x EXCEPT !.obj = pl]
      OBVIOUS
    <2>3. x \in WorkerType /\ x.p = p /\ x.comp = 0 /\ x.todo = <<>>
      BY <2>1, ZeroTypes DEF WorkerType, Idle
    <2>4. wk \in WorkerType /\ wk.p = p /\ wk.comp = 0 /\ wk.todo = <<>> /\ wk.obj = pl
      BY <1>3, <2>2, <2>3, SetObj
    <2>5. PICK next : next = w'
      OBVIOUS
    <2>6. next = Proceed(wk, <<reconcileDataIndex(pl), reconcileVector(pl), reconcileWorkflowGateway(pl)>>)
      BY <1>2, <1>6, <2>1, <2>2, <2>5 DEF Begin
    <2>7. next.p = p
      BY <2>4, <2>6, ProceedTo
    <2>8. ASSUME Untold' PROVE Progress(w.p, w)'
      <3>1. ~Woken(p)'
        BY <2>5, <2>7, <2>8 DEF Untold, Woken
      <3>2. Same(wk.obj, plat'[p]) /\ (wk.obj.del => wk.obj.fin)
        BY <1>0, <1>3, <2>4, <3>1 DEF Same, StatusInv, MarkedInv
      <3>3. ~(wk.comp > 0) /\ ~(wk.comp > 1) /\ ~(wk.comp > 2)
        BY <2>4
      <3>4. Progress(p, next)'
        BY <2>4, <2>6, <3>2, <3>3, HandOver
      <3> QED BY <2>5, <2>7, <3>4, NextProgress
    <2>9. RestInv'
      BY <1>4, <2>5, <2>7 DEF RestInv
    <2> QED BY <2>8, <2>9 DEF WorkInv
  <1> QED BY <1>5, <1>6

LEMMA UpToFive == \A n \in 0..5 : 1..n \subseteq 1..5
  OBVIOUS

\* All the calls of a component are made: what it applies, and does not delete, is there.
LEMMA BlindMakes ==
  ASSUME TypeInv, NEW n \in 0..5, BlindCalls(n), n = Len(w.todo), NEW p, p = w.p, NEW kind \in Kinds,
         Do("apply", kind) \in Range(w.todo), \A x \in Range(w.todo) : x.kind = kind => x.op = "apply"
  PROVE  Owns(p, kind)'
  <1>1. PICK l : l = w.todo
    OBVIOUS
  <1>2. PICK k : k = Key(kind, p)
    OBVIOUS
  <1>3. l \in Seq(BlindCall) /\ p \in Platforms /\ TypeOK
    BY <1>1 DEF BlindCalls, TypeInv, WorkerOK, ListOK
  <1>4. k \in Keys
    BY <1>2, <1>3, KeyIn
  <1>5. PICK D : D = {i \in 1..n : Key(l[i].kind, p) = k}
    OBVIOUS
  <1>6. DOMAIN l = 1..n
    BY <1>1, <1>3
  <1>7. D \subseteq 1..5
    BY <1>5, UpToFive
  <1>8. D # {}
    <2>1. PICK i \in 1..n : l[i] = Do("apply", kind)
      BY <1>1, <1>6 DEF Range
    <2>2. l[i].kind = kind
      BY <2>1 DEF Do
    <2> QED BY <1>2, <1>5, <2>2
  <1>9. PICK i : i = Min(D)
    OBVIOUS
  <1>10. i \in D
    BY <1>7, <1>8, <1>9, SmallestIn
  <1>11. i \in 1..n /\ l[i].kind = kind
    <2>1. i \in 1..n /\ Key(l[i].kind, p) = k
      BY <1>5, <1>10
    <2>2. Key(l[i].kind, p)[1] = l[i].kind /\ Key(kind, p)[1] = kind
      BY KeyKind
    <2> QED BY <1>2, <2>1, <2>2
  <1>12. l[i] \in Range(l)
    BY <1>6, <1>11 DEF Range
  <1>13. l[i].op = "apply"
    BY <1>1, <1>11, <1>12
  <1>14. obj'[k] = Effect(l[i].op, obj[k], k)
    <2> DEFINE done(y) == {j \in 1..n : Key(w.todo[j].kind, w.p) = y}
    <2>1. obj' = [y \in Keys |-> IF done(y) = {} THEN obj[y] ELSE Effect(w.todo[Min(done(y))].op, obj[y], y)]
      BY DEF BlindCalls
    <2>2. done(k) = D
      BY <1>1, <1>5
    <2> HIDE DEF done
    <2> QED BY <1>1, <1>4, <1>8, <1>9, <2>1, <2>2
  <1>15. obj'[k].by = p
    <2>1. obj[k] \in Object
      BY <1>3, <1>4 DEF TypeOK
    <2>2. Effect("apply", obj[k], k) = Applied(obj[k], k)
      BY DEF Effect
    <2>3. Applied(obj[k], k).by = p
      BY <2>1 DEF Applied, Object
    <2> QED BY <1>13, <1>14, <2>2, <2>3
  <1> QED BY <1>2, <1>15 DEF Owns

LEMMA BlindOwns ==
  ASSUME TypeInv, NEW n \in 0..5, BlindCalls(n), n = Len(w.todo), NEW p, p = w.p, NEW pl
  PROVE  /\ w.todo = reconcileDataIndex(pl) => OwnsAll(p, 1, pl.spec)'
         /\ w.todo = reconcileVector(pl) => OwnsAll(p, 2, pl.spec)'
  <1>1. ASSUME w.todo = reconcileDataIndex(pl), NEW kind \in Needs(1, pl.spec) PROVE Owns(p, kind)'
    <2>1. kind \in Kinds
      BY NeedsKinds
    <2>2. /\ kind \in {"diDeployment", "diService", "diIngress"} /\ pl.spec.dataIndex
          /\ kind = "diIngress" => pl.spec.exposed
      BY DEF Needs, DataIndexKinds
    <2>3. PICK R : R = Range(w.todo)
      OBVIOUS
    <2>4. R = {Do("apply", "diDeployment"), Do("apply", "diService"),
               Do(IF pl.spec.exposed THEN "apply" ELSE "delete", "diIngress")}
      BY <1>1, <2>2, <2>3, DataIndexCalls
    <2>5. Do("apply", kind) \in R
      BY <2>2, <2>4
    <2>6. \A x \in R : x.kind = kind => x.op = "apply"
      BY <2>2, <2>4 DEF Do
    <2> QED BY <2>1, <2>3, <2>5, <2>6, BlindMakes
  <1>2. ASSUME w.todo = reconcileVector(pl), NEW kind \in Needs(2, pl.spec) PROVE Owns(p, kind)'
    <2>1. kind \in Kinds
      BY NeedsKinds
    <2>2. kind = "vDaemonSet" /\ pl.spec.vector
      BY DEF Needs
    <2>3. PICK R : R = Range(w.todo)
      OBVIOUS
    <2>4. R = {Do("create", "vAccount"), Do("create", "vBinding"), Do("apply", "vConfigMap"),
               Do("apply", "vDaemonSet"), Do("apply", "vService")}
      BY <1>2, <2>2, <2>3, VectorCalls
    <2>5. Do("apply", kind) \in R
      BY <2>2, <2>4
    <2>6. \A x \in R : x.kind = kind => x.op = "apply"
      BY <2>2, <2>4 DEF Do
    <2> QED BY <2>1, <2>3, <2>5, <2>6, BlindMakes
  <1> QED BY <1>1, <1>2 DEF OwnsAll

\* The reference to the ingress is all that the calls change of the platform in memory.
LEMMA NotedIs ==
  ASSUME NEW pl \in LogicPlatform
  PROVE  Same(Noted(pl), pl)
  <1>1. PICK st : st = [pl.status EXCEPT !.ref = pl.spec.exposed]
    OBVIOUS
  <1>2. Noted(pl) = [pl EXCEPT !.status = st]
    BY <1>1 DEF Noted, LogicPlatform
  <1> QED BY <1>2 DEF Same, LogicPlatform

LEMMA BlindWorks == ASSUME StatusInv, AllKept, NEW n \in 0..5, BlindCalls(n) PROVE WorkInv' /\ w'.p = w.p
  <1>0. TypeInv /\ TypeOK /\ w \in WorkerType /\ w.comp \in {1, 2} /\ n \in 0..Len(w.todo)
    BY DEF StatusInv, TypeInv, TypeOK, BlindCalls
  <1>1. PICK wk \in WorkerType : BlindDone(n, wk)
    BY <1>0, BlindNext
  <1>2. /\ wk.comp = w.comp /\ wk.p = w.p /\ wk.todo = <<>> /\ (wk.obj = w.obj \/ wk.obj = Noted(w.obj))
        /\ wk.err = (w.err \/ n < Len(w.todo))
        /\ w' = Proceed(wk, <<reconcileDataIndex(w.obj), reconcileVector(w.obj), reconcileWorkflowGateway(w.obj)>>)
    BY <1>1 DEF BlindDone
  <1>3. wk.comp \in 0..3
    BY <1>0, <1>2
  <1>4. w'.p = w.p /\ w'.err = wk.err
    BY <1>2, <1>3, ProceedTo
  <1>5. ASSUME Untold' PROVE Progress(w.p, w)'
    <2>1. PICK p : p = w.p
      OBVIOUS
    <2>2. PICK pl : pl = w.obj
      OBVIOUS
    <2>3. w.comp > 0
      BY <1>0
    <2>4. p \in Platforms /\ Kept(p) /\ ~Woken(p)' /\ plat'[p] = plat[p] /\ ~w'.err
      BY <1>4, <1>5, <2>1, <2>3, Before
    <2>5. ~w.err /\ n = Len(w.todo)
      <3>1. ~(w.err \/ n < Len(w.todo))
        BY <1>2, <1>4, <2>4
      <3>2. w.todo \in Seq(BlindCall)
        BY <1>0 DEF TypeInv, WorkerOK, ListOK
      <3>3. Len(w.todo) \in Nat
        BY <3>2
      <3> QED BY <1>0, <3>1, <3>3
    <2>6. Progress(p, w) /\ Same(pl, plat[p]) /\ (pl.del => pl.fin)
      BY <1>4, <1>5, <2>1, <2>2, <2>3, <2>5, Before
    <2>7. pl \in LogicPlatform
      BY <1>0, <2>2 DEF WorkerType
    <2>8. Same(wk.obj, pl)
      <3>1. Same(Noted(pl), pl) /\ Same(pl, pl)
        BY <2>7, NotedIs DEF Same
      <3> QED BY <1>2, <2>2, <3>1
    <2>9. pl.spec = wk.obj.spec /\ pl.fin = wk.obj.fin /\ pl.del = wk.obj.del /\ Same(wk.obj, plat'[p])
      BY <2>4, <2>6, <2>8 DEF Same
    <2>10. wk.comp = 1 => OwnsAll(p, 1, pl.spec)'
      <3>1. wk.comp = 1 => w.todo = reconcileDataIndex(pl)
        BY <1>2, <2>2, <2>6 DEF Progress
      <3> QED BY <1>0, <2>1, <2>5, <3>1, BlindOwns
    <2>11. wk.comp = 2 => OwnsAll(p, 2, pl.spec)'
      <3>1. wk.comp = 2 => w.todo = reconcileVector(pl)
        BY <1>2, <2>2, <2>6 DEF Progress
      <3> QED BY <1>0, <2>1, <2>5, <3>1, BlindOwns
    <2>12. wk.comp = 2 => OwnsAll(p, 1, pl.spec)'
      <3>1. wk.comp = 2 => OwnsAll(p, 1, pl.spec)
        BY <1>2, <2>2, <2>6 DEF Progress
      <3> QED BY <2>4, <3>1, OwnsKept
    <2>13. /\ wk.comp > 0 => OwnsAll(p, 1, wk.obj.spec)'
           /\ wk.comp > 1 => OwnsAll(p, 2, wk.obj.spec)' /\ ~(wk.comp > 2)
      <3>1. wk.comp = 1 \/ wk.comp = 2
        BY <1>0, <1>2
      <3> QED BY <2>9, <2>10, <2>11, <2>12, <3>1
    <2>14. PICK next : next = w'
      OBVIOUS
    <2>15. next = Proceed(wk, <<reconcileDataIndex(pl), reconcileVector(pl), reconcileWorkflowGateway(pl)>>)
      BY <1>2, <2>2, <2>14
    <2>16. Progress(p, next)'
      <3>1. ~(wk.comp > 2) /\ (wk.obj.del => wk.obj.fin)
        BY <1>0, <1>2, <2>6, <2>9
      <3> QED BY <1>2, <1>3, <2>4, <2>9, <2>13, <2>15, <3>1, HandOver
    <2> QED BY <1>4, <2>1, <2>14, <2>16, NextProgress
  <1> QED BY <1>4, <1>5 DEF WorkInv

\* The caches have what the worker has made, so that what it tells of them is so.
LEMMA UpdateWorks == ASSUME StatusInv, UpdateStatus PROVE WorkInv' /\ w'.p = w.p
  <1>0. /\ TypeInv /\ TypeOK /\ w \in WorkerType /\ w.comp = 4 /\ w.p \in Platforms /\ w.todo = <<>>
        /\ UNCHANGED <<plat, obj, cache, news, queue>>
    BY DEF StatusInv, TypeInv, TypeOK, UpdateStatus, UpdatePhase, WorkerOK, ListOK
  <1>1. AllKept
    BY <1>0, StillKept DEF StatusInv
  <1>2. PICK p : p = w.p
    OBVIOUS
  <1>3. PICK s : s = w.obj.spec
    OBVIOUS
  <1>4. w.obj \in LogicPlatform /\ w.obj.status \in Status /\ s \in PlatSpec /\ cache.obj \in [Keys -> Object]
    BY <1>0, <1>3 DEF WorkerType, LogicPlatform, TypeOK
  <1>5. PICK st : st = updateWorkflowGatewayStatus(updateVectorStatus(updateDataIndexStatus(
                           w.obj.status, p, s, cache.obj), p, s, cache.obj), p, s, cache.obj)
    OBVIOUS
  <1>6. st \in Status /\ Told(st, p, s, cache.obj)
    BY <1>0, <1>2, <1>4, <1>5, Updated
  <1>7. w' = [w EXCEPT !.obj.status = st, !.comp = WritePhase]
    BY <1>2, <1>3, <1>5 DEF UpdateStatus
  <1>8. PICK pl : pl = [w.obj EXCEPT !.status = st]
    OBVIOUS
  <1>9. pl \in LogicPlatform /\ Same(pl, w.obj) /\ pl.status = st
    BY <1>4, <1>6, <1>8 DEF Same, LogicPlatform
  <1>10. w'.p = p /\ w'.obj = pl /\ w'.comp = 5 /\ w'.todo = <<>> /\ w'.err = w.err
    <2>1. w' = [w EXCEPT !.obj = pl, !.comp = 5]
      BY <1>0, <1>7, <1>8 DEF WorkerType, WritePhase
    <2> QED BY <1>0, <1>2, <2>1 DEF WorkerType
  <1>11. ASSUME Untold' PROVE Progress(w.p, w)'
    <2>1. w.comp > 0 /\ w'.p = w.p /\ ~w.err
      BY <1>0, <1>2, <1>10, <1>11 DEF Untold
    <2>2. PICK wk : wk = w
      OBVIOUS
    <2>3. /\ p \in Platforms /\ Kept(p) /\ ~Woken(p)' /\ ~Woken(p) /\ plat'[p] = plat[p]
          /\ Progress(p, wk) /\ Same(w.obj, plat[p])
      BY <1>1, <1>2, <1>11, <2>1, <2>2, Before
    <2>4. /\ \A c \in 1..3 : OwnsAll(p, c, s)
          /\ Owns(p, "gwBinding") => pl.fin
      <3>1. wk.comp > 2 /\ wk.comp \in 0..5 /\ wk.todo = <<>> /\ wk.obj.spec = s /\ wk.obj.fin = pl.fin
        BY <1>0, <1>3, <1>9, <2>2 DEF Same
      <3> QED BY <2>3, <3>1, AllMade
    <2>5. ASSUME NEW c \in 1..3, NEW kind \in Needs(c, s) PROVE cache.obj[Key(kind, p)] = obj[Key(kind, p)]
      <3>1. PICK k : k = Key(kind, p)
        OBVIOUS
      <3>2. k \in Keys /\ k[1] # "vBinding"
        BY <2>3, <2>5, <3>1, NeedsKeys
      <3>3. obj[k].by = p
        BY <2>4, <2>5, <3>1 DEF OwnsAll, Owns
      <3>4. <<Stream(k), p>> \notin news
        BY <2>3, StreamIs DEF Woken
      <3> QED BY <2>3, <3>1, <3>2, <3>3, <3>4 DEF StatusInv, CachedInv
    <2>6. Told(st, p, s, obj)
      BY <1>4, <1>6, <2>5, ToldSame
    <2>7. Same(pl, plat'[p]) /\ pl.spec = s
      BY <1>3, <1>9, <2>3 DEF Same
    <2>8. /\ OwnsAll(p, 1, s)' /\ OwnsAll(p, 2, s)'
          /\ GatewayRest(p, pl, <<>>)'
      <3>1. \A c \in 1..3 : OwnsAll(p, c, s)'
        BY <2>3, <2>4, OwnsKept
      <3>2. Owns(p, "gwBinding")' => pl.fin
        BY <2>3, <2>4, OwnsKept, BindingKind
      <3>3. GatewayRest(p, pl, <<>>)'
        <4>1. OwnsAll(p, 3, s)'
          BY <3>1
        <4> QED BY <2>7, <3>2, <4>1 DEF GatewayRest, OwnsAll
      <3> QED BY <3>1, <3>3
    <2>9. PICK next : next = w'
      OBVIOUS
    <2>10. Progress(p, next)'
      <3>1. next.obj = pl /\ next.comp = 5 /\ next.todo = <<>>
        BY <1>10, <2>9
      <3>2. Told(next.obj.status, p, next.obj.spec, obj')
        BY <1>0, <1>9, <2>6, <2>7, <3>1
      <3> QED BY <2>7, <2>8, <3>1, <3>2 DEF Progress
    <2> QED BY <1>10, <2>9, <2>10, NextProgress
  <1> QED BY <1>2, <1>10, <1>11 DEF WorkInv

\* The status that is written, if no error and no event queues the platform again, is that
\* of the platform that the worker has read.
LEMMA WriteWorks == ASSUME StatusInv, TypeInv', AllKept, writeStatus PROVE WorkInv' /\ RestInv'
  <1>0. /\ TypeInv /\ TypeOK /\ w \in WorkerType /\ w.comp = 5 /\ w.p \in Platforms /\ w.todo = <<>>
        /\ w' = Idle /\ obj' = obj
    BY DEF StatusInv, TypeInv, TypeOK, writeStatus, WritePhase, WorkerOK, ListOK
  <1>1. WorkInv'
    BY <1>0 DEF WorkInv, Untold, Idle
  <1>2. PICK p : p = w.p
    OBVIOUS
  <1>3. ASSUME NEW q \in Platforms, q # p, Exists(plat'[q]), ~Woken(q)' PROVE Settled(q)'
    <2>1. Kept(q) /\ w.p # q
      BY <1>2, <1>3 DEF AllKept
    <2>2. ~Woken(q) /\ plat'[q] = plat[q]
      BY <1>3, <2>1 DEF Kept
    <2>3. Settled(q)
      BY <1>3, <2>1, <2>2 DEF StatusInv, RestInv
    <2> QED BY <1>0, <1>3, <2>1, <2>3, SettledKept
  <1>4. ASSUME Exists(plat'[p]), ~Woken(p)' PROVE Settled(p)'
    <2>1. PICK st : st = updateLogicPlatformReadiness([w.obj.status EXCEPT !.og = w.obj.gen], w.obj.spec)
      OBVIOUS
    <2>2. p \notin queue' /\ p \in Platforms /\ Kept(p)
      BY <1>0, <1>2, <1>4 DEF Woken, AllKept
    <2>3. ~w.err /\ plat' = [plat EXCEPT ![p].status = st]
      BY <1>2, <2>1, <2>2 DEF writeStatus
    <2>4. ~Woken(p) /\ plat'[p] = plat[p]
      BY <1>4, <2>2 DEF Kept
    <2>5. PICK pl : pl = plat[p]
      OBVIOUS
    <2>6. pl \in LogicPlatform
      BY <1>0, <2>2, <2>5 DEF TypeOK
    <2>7. pl.status = st
      BY <1>0, <2>2, <2>3, <2>4, <2>5, <2>6 DEF TypeOK, LogicPlatform
    <2>8. PICK wk : wk = w
      OBVIOUS
    <2>9. Progress(p, wk) /\ wk.comp = 5 /\ wk.todo = <<>> /\ wk \in WorkerType
      <3>1. Untold
        BY <1>0, <1>2, <1>4, <2>3, <2>4 DEF Untold
      <3> QED BY <1>0, <1>2, <2>8, <3>1 DEF StatusInv, WorkInv
    <2>10. wk.obj.status \in Status /\ wk.obj.spec \in PlatSpec /\ wk.obj.gen \in Nat
      BY <2>9 DEF WorkerType, LogicPlatform
    <2>11. Same(wk.obj, pl) /\ Told(wk.obj.status, p, wk.obj.spec, obj)
      BY <2>5, <2>9 DEF Progress, WritePhase
    <2>12. pl.spec = wk.obj.spec /\ pl.gen = wk.obj.gen /\ pl.fin = wk.obj.fin
      BY <2>11 DEF Same
    <2>13. st = updateLogicPlatformReadiness([wk.obj.status EXCEPT !.og = wk.obj.gen], wk.obj.spec)
      BY <2>1, <2>8
    <2>14. /\ st.og = pl.gen /\ Told(st, p, pl.spec, obj)
           /\ st.phase = "Ready" => \A c \in Enabled(pl.spec) : st[c] = "True"
      BY <2>2, <2>10, <2>11, <2>12, <2>13, Readiness
    <2>15. /\ \A c \in 1..3 : OwnsAll(p, c, pl.spec)
           /\ Owns(p, "gwBinding") => pl.fin
      <3>1. wk.comp > 2 /\ wk.comp \in 0..5
        BY <2>9
      <3> QED BY <2>2, <2>9, <2>12, <3>1, AllMade
    <2>16. Settled(p)
      BY <2>5, <2>7, <2>14, <2>15 DEF Settled
    <2> QED BY <1>0, <1>4, <2>2, <2>16, SettledKept
  <1>5. RestInv'
    BY <1>3, <1>4 DEF RestInv
  <1> QED BY <1>1, <1>5

-----------------------------------------------------------------------------
(* Every step                                                              *)

\* How platforms change: one that is marked has the finalizer.
LEMMA MarkedStep == ASSUME StatusInv, [Next]_vars PROVE MarkedInv'
  <1>0. TypeInv /\ TypeOK /\ MarkedInv
    BY DEF StatusInv, TypeInv
  <1>1. CASE UNCHANGED plat
    BY <1>0, <1>1 DEF MarkedInv
  <1>2. ASSUME NEW p, NEW x, plat' = [plat EXCEPT ![p] = x], p \in Platforms => (x.del => x.fin) PROVE MarkedInv'
    BY <1>0, <1>2 DEF MarkedInv, TypeOK
  <1>3. ~NoPlat.del
    BY DEF NoPlat
  <1>4. ASSUME NEW p \in Platforms, DeletePlatform(p) PROVE MarkedInv'
    <2>1. PICK x : x = IF plat[p].fin THEN Marked(plat[p]) ELSE NoPlat
      OBVIOUS
    <2>2. plat' = [plat EXCEPT ![p] = x]
      BY <1>0, <1>4, <2>1 DEF DeletePlatform, TypeOK
    <2>3. Marked(plat[p]).fin = plat[p].fin
      BY <1>0, PlatEdits DEF TypeOK
    <2> QED BY <1>2, <1>3, <2>1, <2>2, <2>3
  <1>5. ASSUME NEW p \in Platforms, NEW s \in sc.specs[p], CreatePlatform(p, s) PROVE MarkedInv'
    <2>1. ~Created(s).del
      BY DEF Created, NoPlat
    <2> QED BY <1>2, <1>5, <2>1 DEF CreatePlatform
  <1>6. ASSUME NEW p \in Platforms, NEW s \in sc.specs[p], UpdatePlatform(p, s) PROVE MarkedInv'
    <2>1. PICK pl : pl = plat[p]
      OBVIOUS
    <2>2. pl \in LogicPlatform /\ (pl.del => pl.fin)
      BY <1>0, <1>6, <2>1 DEF TypeOK, MarkedInv
    <2>3. Respecified(pl, s).del = pl.del /\ Respecified(pl, s).fin = pl.fin
      BY <2>2 DEF Respecified, LogicPlatform
    <2> QED BY <1>2, <1>6, <2>1, <2>2, <2>3 DEF UpdatePlatform
  <1>7. CASE AddFinalizer
    <2>1. PICK p : p = w.p
      OBVIOUS
    <2>2. p \in Platforms /\ (UNCHANGED plat \/ plat' = [plat EXCEPT ![p] = [plat[p] EXCEPT !.fin = TRUE]])
      BY <1>0, <1>7, <2>1, AddFinalizerOK
    <2>3. [plat[p] EXCEPT !.fin = TRUE].fin
      BY <1>0, <2>2, PlatEdits DEF TypeOK
    <2> QED BY <1>1, <1>2, <2>2, <2>3
  <1>8. CASE RemoveFinalizer
    <2>1. PICK p : p = w.p
      OBVIOUS
    <2>2. PICK new : new = [plat[p] EXCEPT !.fin = FALSE]
      OBVIOUS
    <2>3. p \in Platforms /\ (UNCHANGED plat \/ plat' = [plat EXCEPT ![p] = IF plat[p].del THEN NoPlat ELSE new])
      BY <1>0, <1>8, <2>1, <2>2, RemoveFinalizerOK
    <2>4. new.del = plat[p].del
      BY <1>0, <2>2, <2>3 DEF TypeOK, LogicPlatform
    <2>5. PICK x : x = IF plat[p].del THEN NoPlat ELSE new
      OBVIOUS
    <2>6. ~x.del
      BY <1>3, <2>4, <2>5
    <2> QED BY <1>1, <1>2, <2>3, <2>5, <2>6
  <1>9. CASE writeStatus
    <2>1. PICK p : p = w.p
      OBVIOUS
    <2>2. p \in Platforms
      BY <1>0, <1>9, <2>1 DEF writeStatus, WritePhase, TypeInv, WorkerOK
    <2>3. PICK st : UNCHANGED plat \/ plat' = [plat EXCEPT ![p].status = st]
      BY <1>9, <2>1 DEF writeStatus
    <2>4. PICK x : x = [plat[p] EXCEPT !.status = st]
      OBVIOUS
    <2>5. x.del = plat[p].del /\ x.fin = plat[p].fin
      BY <1>0, <2>2, <2>4 DEF TypeOK, LogicPlatform
    <2>6. UNCHANGED plat \/ plat' = [plat EXCEPT ![p] = x]
      BY <1>0, <2>2, <2>3, <2>4 DEF TypeOK
    <2>7. x.del => x.fin
      BY <1>0, <2>2, <2>5 DEF MarkedInv
    <2> QED BY <1>1, <1>2, <2>6, <2>7
  <1>10. UNCHANGED plat \/ AddFinalizer \/ RemoveFinalizer \/ writeStatus
         \/ \E p \in Platforms : DeletePlatform(p) \/ \E s \in sc.specs[p] : CreatePlatform(p, s) \/ UpdatePlatform(p, s)
    BY DEF Next, Users, TouchObject, Report, DatabaseChanges, DeliverAny, DeliverObjects, DeliverPlatform, Collect,
           CollectGarbage, Work, Worker, Begin, BlindCalls, ApplyObject, DeleteObject, UpdateStatus, CallFails,
           Restart, vars
  <1> QED BY <1>1, <1>4, <1>5, <1>6, <1>7, <1>8, <1>9, <1>10

LEMMA SameWorker ==
  ASSUME TypeInv, ApplyObject \/ DeleteObject \/ AddFinalizer \/ RemoveFinalizer \/ CallFails PROVE w'.p = w.p
  <1>1. w.comp = 3 /\ w.todo # <<>> /\ w \in WorkerType /\ TypeOK /\ WorkerOK
    <2>1. CASE ApplyObject \/ CallFails
      BY <2>1 DEF ApplyObject, CallFails, Calling, TypeInv, TypeOK
    <2>2. CASE DeleteObject
      BY <2>2, CallOK DEF DeleteObject, TypeInv, TypeOK
    <2>3. CASE AddFinalizer
      BY <2>3, CallOK DEF AddFinalizer, TypeInv, TypeOK
    <2>4. CASE RemoveFinalizer
      BY <2>4, CallOK DEF RemoveFinalizer, TypeInv, TypeOK
    <2> QED BY <2>1, <2>2, <2>3, <2>4
  <1>2. CASE Abandon \/ Continue
    BY <1>1, <1>2, AbandonOK, ContinueOK
  <1>3. CASE AddFinalizer /\ ~Abandon
    BY <1>1, <1>3 DEF AddFinalizer, WorkerType
  <1>4. CASE RemoveFinalizer /\ ~Abandon
    BY <1>4, RemoveIs
  <1> QED BY <1>2, <1>3, <1>4 DEF ApplyObject, DeleteObject, CallFails

\* Every step but Begin and Restart wakes whoever it concerns.
LEMMA StepKeeps ==
  ASSUME StatusInv, [Next]_vars, ~ \E p \in Platforms : Begin(p), ~Restart PROVE AllKept /\ CachedInv'
  <1>0. TypeInv /\ CachedInv
    BY DEF StatusInv
  <1>1. CASE Notify /\ cache' = cache /\ queue \subseteq queue'
    BY <1>0, <1>1, NotifyKeeps
  <1>2. CASE UNCHANGED <<plat, obj, cache, news>> /\ queue \subseteq queue'
    BY <1>0, <1>2, StillKept
  <1>3. CASE \E i \in {"objects", "platforms"} : DeliverAny(i)
    BY <1>0, <1>3, DeliverKept
  <1>4. CASE Users
    BY <1>1, <1>2, <1>4 DEF Users, TouchObject, Report, DeletePlatform, CreatePlatform, UpdatePlatform, DatabaseChanges
  <1>5. CASE Collect
    BY <1>1, <1>5 DEF Collect, CollectGarbage
  <1>6. CASE \E n \in 0..5 : BlindCalls(n)
    BY <1>1, <1>6 DEF BlindCalls
  <1>7. CASE ApplyObject \/ DeleteObject \/ AddFinalizer \/ RemoveFinalizer
    BY <1>1, <1>7 DEF ApplyObject, DeleteObject, AddFinalizer, RemoveFinalizer
  <1>8. CASE UpdateStatus \/ CallFails \/ UNCHANGED vars
    BY <1>2, <1>8 DEF UpdateStatus, CallFails, vars
  <1>9. CASE writeStatus
    BY <1>1, <1>9 DEF writeStatus
  <1> QED BY <1>3, <1>4, <1>5, <1>6, <1>7, <1>8, <1>9 DEF Next, Work, Worker

LEMMA StatusInit == ASSUME Init PROVE StatusInv
  <1>1. TypeInv
    BY TypeInit
  <1>2. w.comp = 0 /\ cache = [plat |-> plat, obj |-> obj] /\ queue = {p \in Platforms : Exists(plat[p])}
    BY DEF Init, Idle
  <1>3. CachedInv
    BY <1>2 DEF CachedInv
  <1>4. MarkedInv
    <2>1. PICK ps \in SUBSET Platforms : \E s \in [ps -> sc.stored] : plat = [p \in Platforms |->
               IF p \in ps THEN [NoPlat EXCEPT !.uid = 1, !.gen = 1, !.spec = s[p]] ELSE NoPlat]
      BY DEF Init
    <2>2. ~NoPlat.del /\ \A x : ~[NoPlat EXCEPT !.uid = 1, !.gen = 1, !.spec = x].del
      BY DEF NoPlat
    <2>3. \A p \in Platforms : ~plat[p].del
      BY <2>1, <2>2
    <2> QED BY <2>3 DEF MarkedInv
  <1>5. WorkInv /\ RestInv
    BY <1>2 DEF WorkInv, Untold, RestInv, Woken
  <1> QED BY <1>1, <1>3, <1>4, <1>5 DEF StatusInv

LEMMA RestartWorks == ASSUME StatusInv, Restart PROVE CachedInv' /\ WorkInv' /\ RestInv'
  <1>1. /\ w' = Idle /\ cache' = [plat |-> plat, obj |-> obj] /\ UNCHANGED <<plat, obj>>
        /\ queue' = {p \in Platforms : Exists(plat[p])}
    BY DEF Restart
  <1>2. w'.comp = 0
    BY <1>1 DEF Idle
  <1> QED BY <1>1, <1>2 DEF CachedInv, WorkInv, Untold, RestInv, Woken

LEMMA StatusStep == ASSUME StatusInv, [Next]_vars PROVE StatusInv'
  <1>0. TypeInv /\ TypeInv' /\ MarkedInv'
    BY TypeStep, MarkedStep DEF StatusInv
  <1>1. ASSUME NEW p \in Platforms, Begin(p) PROVE StatusInv'
    <2>1. CachedInv'
      BY <1>1 DEF StatusInv, CachedInv, Begin
    <2> QED BY <1>0, <1>1, <2>1, BeginWorks DEF StatusInv
  <1>2. CASE Restart
    BY <1>0, <1>2, RestartWorks DEF StatusInv
  <1>3. CASE ~Restart /\ ~ \E p \in Platforms : Begin(p)
    <2>0. AllKept /\ CachedInv'
      BY <1>3, StepKeeps
    <2>1. SUFFICES WorkInv' /\ RestInv'
      BY <1>0, <2>0 DEF StatusInv
    <2>2. CASE w' = w
      BY <2>0, <2>2, WorkKept, OthersKept
    <2>3. ASSUME WorkInv', w'.p = w.p PROVE WorkInv' /\ RestInv'
      BY <2>0, <2>3, OthersKept
    <2>4. ASSUME NEW n \in 0..5, BlindCalls(n) PROVE WorkInv' /\ RestInv'
      BY <2>0, <2>3, <2>4, BlindWorks
    <2>5. CASE ApplyObject \/ DeleteObject \/ AddFinalizer \/ RemoveFinalizer \/ CallFails
      <3>1. WorkInv'
        <4>1. CASE CallFails
          BY <1>0, <4>1, AbandonIs DEF CallFails, WorkInv, Untold
        <4> QED BY <2>0, <2>5, <4>1, ApplyWorks, DeleteWorks, AddWorks, RemoveWorks
      <3> QED BY <1>0, <2>3, <2>5, <3>1, SameWorker
    <2>6. CASE UpdateStatus
      BY <2>3, <2>6, UpdateWorks
    <2>7. CASE writeStatus
      BY <1>0, <2>0, <2>7, WriteWorks
    <2>9. CASE Users \/ Collect \/ (\E i \in {"objects", "platforms"} : DeliverAny(i)) \/ UNCHANGED vars
      <3>1. w' = w
        BY <2>9 DEF Users, TouchObject, Report, DeletePlatform, CreatePlatform, UpdatePlatform, DatabaseChanges,
                    Collect, CollectGarbage, DeliverAny, DeliverObjects, DeliverPlatform, vars
      <3> QED BY <2>2, <3>1
    <2> QED BY <1>3, <2>4, <2>5, <2>6, <2>7, <2>9 DEF Next, Work, Worker
  <1> QED BY <1>1, <1>2, <1>3

-----------------------------------------------------------------------------
(* When all is quiet                                                       *)

LEMMA QuietSettled ==
  ASSUME StatusInv, Quiet, NEW p \in Platforms, Exists(plat[p]) PROVE Settled(p)
  <1>1. ~Woken(p) /\ w.p # p
    BY PlatformConstants DEF Quiet, Woken, Idle
  <1> QED BY <1>1 DEF StatusInv, RestInv

\* When all is quiet, the status of every platform is that of the objects there are: no
\* component whose calls were cut short, no report that came late and no write that met a
\* stale cache has gone without being looked at again.
THEOREM PlatformStatusIsCurrent == Spec => []QuietStatusIsCurrent
  <1>1. Spec => []StatusInv
    BY StatusInit, StatusStep, PTL DEF Spec
  <1>2. ASSUME StatusInv PROVE QuietStatusIsCurrent
    <2>1. SUFFICES ASSUME Quiet, NEW p \in Platforms, Exists(plat[p]), NEW pl, pl = plat[p], NEW seen,
                          seen = updateLogicPlatformReadiness(updateWorkflowGatewayStatus(updateVectorStatus(
                                     updateDataIndexStatus(pl.status, p, pl.spec, obj),
                                         p, pl.spec, obj), p, pl.spec, obj), pl.spec)
                   PROVE  /\ pl.status.og = pl.gen
                          /\ pl.status.gw = seen.gw /\ pl.status.vec = seen.vec
                          /\ pl.status.endpoint = seen.endpoint /\ pl.status.url = seen.url
                          /\ pl.status.phase = "Ready" => \A k \in Workloads :
                                 (k = "diDeployment" => pl.spec.dataIndex) /\ (k = "vDaemonSet" => pl.spec.vector)
                                 /\ (k = "gwDeployment" => pl.spec.gateway # "off") => obj[Key(k, p)].st = "ready"
      BY DEF QuietStatusIsCurrent
    <2>2. Settled(p)
      BY <1>2, <2>1, QuietSettled
    <2>3. /\ pl.status.og = pl.gen /\ Told(pl.status, p, pl.spec, obj)
          /\ pl.status.phase = "Ready" => \A c \in Enabled(pl.spec) : pl.status[c] = "True"
      BY <2>1, <2>2 DEF Settled
    <2>4. pl.status \in Status /\ pl.spec \in PlatSpec /\ obj \in [Keys -> Object]
      BY <1>2, <2>1 DEF StatusInv, TypeInv, TypeOK, LogicPlatform
    <2>5. PICK c : c = updateWorkflowGatewayStatus(updateVectorStatus(
                           updateDataIndexStatus(pl.status, p, pl.spec, obj), p, pl.spec, obj), p, pl.spec, obj)
      OBVIOUS
    <2>6. c \in Status /\ Told(c, p, pl.spec, obj)
      BY <2>1, <2>4, <2>5, Updated
    <2>7. seen.gw = c.gw /\ seen.vec = c.vec /\ seen.endpoint = c.endpoint /\ seen.url = c.url
      <3>1. PICK ph : seen = [c EXCEPT !.phase = ph]
        BY <2>1, <2>5 DEF updateLogicPlatformReadiness
      <3> QED BY <2>6, <3>1 DEF Status
    <2>8. /\ pl.status.gw = c.gw /\ pl.status.vec = c.vec
          /\ pl.status.endpoint = c.endpoint /\ pl.status.url = c.url
      BY <2>3, <2>6 DEF Told
    <2>9. ASSUME pl.status.phase = "Ready", NEW k \in Workloads, k = "diDeployment" => pl.spec.dataIndex,
                 k = "vDaemonSet" => pl.spec.vector, k = "gwDeployment" => pl.spec.gateway # "off"
          PROVE  obj[Key(k, p)].st = "ready"
      <3>1. CASE k = "diDeployment"
        <4>1. pl.spec.dataIndex /\ pl.status.di = "True"
          BY <2>3, <2>9, <3>1 DEF Enabled
        <4> QED BY <2>3, <3>1, <4>1 DEF Told
      <3>2. CASE k = "vDaemonSet"
        <4>1. pl.spec.vector /\ pl.status.vec = "True"
          BY <2>3, <2>9, <3>2 DEF Enabled
        <4> QED BY <2>3, <3>2, <4>1 DEF Told
      <3>3. CASE k = "gwDeployment"
        <4>1. pl.spec.gateway # "off" /\ pl.status.gw = "True"
          BY <2>3, <2>9, <3>3 DEF Enabled
        <4> QED BY <2>3, <3>3, <4>1 DEF Told
      <3> QED BY <2>9, <3>1, <3>2, <3>3 DEF Workloads
    <2> QED BY <2>3, <2>7, <2>8, <2>9
  <1> QED BY <1>1, <1>2, PTL

\* When all is quiet, the binding that a platform has for its gateway is covered by the
\* finalizer that removes it, however enabling, disabling and deleting raced with patches
\* that carry no resource version.
THEOREM BindingIsGuarded == Spec => []QuietBindingIsGuarded
  <1>1. Spec => []StatusInv
    BY StatusInit, StatusStep, PTL DEF Spec
  <1>2. StatusInv => QuietBindingIsGuarded
    BY QuietSettled DEF QuietBindingIsGuarded, Settled, Owns
  <1> QED BY <1>1, <1>2, PTL

=============================================================================
