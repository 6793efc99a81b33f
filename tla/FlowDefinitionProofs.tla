------------------------ MODULE FlowDefinitionProofs ------------------------
(***************************************************************************)
(* Type correctness of the LogicFlowDefinition controller, and the proof   *)
(* that versions of one workflow are never materialised on two runtimes.   *)
(*                                                                         *)
(* The argument: a definition is materialised only after the controller    *)
(* has seen its workflow label in the cache.  Versions of one incarnation  *)
(* of a definition reach the cache in order and never lose that label, so  *)
(* from then on every lookup by label finds it; whoever comes second sees  *)
(* the first.                                                              *)
(***************************************************************************)
EXTENDS FlowDefinition, SequenceTheorems, TLAPS

\* What a stored definition may be.
Stored == Object \cup {Absent}

\* What the watch stream carries.
Change == [name : Defs, obj : Stored]

\* An object that exists is a proper one: the absent object has uid 0.
LEMMA ExistsIsObject == \A o \in Stored : Exists(o) <=> o \in Object
  BY DEF Stored, Exists, Object, Absent

\* Writing a definition keeps the store and the watch stream well typed.
LEMMA StoreDefType ==
  ASSUME TypeOK, NEW d \in Defs, NEW o \in Stored, StoreDef(d, o)
  PROVE  /\ defs' \in [Defs -> Stored]
         /\ watch' \in Seq(Change)
  <1> DEFINE e == [name |-> d, obj |-> o]
  <1>1. e \in Change
    BY DEF Change
  <1>2. defs \in [Defs -> Stored] /\ watch \in Seq(Change)
    BY DEF TypeOK, Stored, Change
  <1>3. defs' \in [Defs -> Stored] /\ (watch' = watch \/ watch' = Append(watch, e))
    BY <1>2 DEF StoreDef
  <1> HIDE DEF e
  <1> QED BY <1>1, <1>2, <1>3, AppendProperties

\* Setting a condition of a definition leaves a definition.
LEMMA SetConditionType ==
  ASSUME NEW c \in [CondTypes -> Cond], NEW t \in CondTypes, NEW st \in CondStatus, NEW g \in Nat
  PROVE  SetCondition(c, t, st, g) \in [CondTypes -> Cond]
  BY DEF SetCondition, Cond

\* Merging a label patch into labels gives labels.
LEMMA MergePatchType ==
  ASSUME NEW s \in Labels, NEW f \in Labels, NEW t \in Labels
  PROVE  MergePatch(s, f, t) \in Labels
  BY DEF MergePatch, Labels

LEMMA FlowIDLabelsType == \A o \in Object : FlowIDLabels(o) \in Labels
  BY DEF FlowIDLabels, Labels, Object, Flow

LEMMA NewObjectType ==
  ASSUME NEW u \in Nat \ {0}, NEW rt \in Runtimes, NEW flow \in Flow
  PROVE  NewObject(u, rt, flow) \in Object
  <1>1. NoLabels \in Labels /\ NoConds \in [CondTypes -> Cond]
    BY DEF NoLabels, Labels, NoConds, NoCond, Cond, CondStatus
  <1> QED BY <1>1 DEF NewObject, Object

LEMMA EditedType ==
  ASSUME NEW o \in Object, NEW g \in Nat, NEW rt \in Runtimes, NEW flow \in Flow
  PROVE  Edited(o, g, rt, flow) \in Object
  BY DEF Edited, Object

LEMMA InitType == Init => TypeOK
  BY DefinitionConstants DEF Init, TypeOK

LEMMA UserType == ASSUME TypeOK, NEW d \in Defs, UserStep(d) PROVE TypeOK'
  <1> USE DefinitionConstants
  <1>1. ASSUME NEW b \in Bindings[d], NEW flow \in FlowsOf(b), ValidateCreate(d, b[1], flow)
        PROVE  TypeOK'
    <2>1. [rt |-> b[1], flow |-> flow] \in Requests
      BY DEF FlowsOf, Flow, Requests
    <2> QED BY <1>1, <2>1 DEF ValidateCreate, TypeOK, cacheVars, workerVars
  <1>2. ASSUME NEW b \in Bindings[d], NEW flow \in FlowsOf(b), Update(d, b[1], flow)
        PROVE  TypeOK'
    <2>1. b[1] \in Runtimes /\ flow \in Flow
      BY DEF FlowsOf, Flow
    <2>2. defs[d] \in Object
      BY <1>2, ExistsIsObject DEF Update, TypeOK, Stored
    <2>3. Edited(defs[d], defs[d].gen + 1, b[1], flow) \in Object
      <3>1. defs[d].gen + 1 \in Nat
        BY <2>2 DEF Object
      <3> QED BY <3>1, <2>1, <2>2, EditedType
    <2> QED BY <1>2, <2>3, StoreDefType DEF Update, Change, TypeOK, cacheVars, workerVars, Stored
  <1>3. CASE Create(d)
    <2>1. CASE Exists(defs[d])
      BY <1>3, <2>1 DEF Create, TypeOK, cacheVars, workerVars
    <2>2. CASE ~Exists(defs[d])
      <3>1. review[d] \in Requests
        BY <1>3 DEF Create, TypeOK
      <3>2. NewObject(nextUid, review[d].rt, review[d].flow) \in Object
        BY <3>1, NewObjectType DEF TypeOK, Requests
      <3>3. StoreDef(d, NewObject(nextUid, review[d].rt, review[d].flow))
        BY <1>3, <2>2 DEF Create
      <3>4. defs' \in [Defs -> Stored] /\ watch' \in Seq(Change)
        BY <3>2, <3>3, StoreDefType DEF Stored
      <3>5. review' \in [Defs -> Requests \cup {NoRequest}]
        BY <1>3 DEF Create, TypeOK
      <3>6. nextUid' \in Nat \ {0}
        BY <1>3, <2>2 DEF Create, TypeOK
      <3>7. UNCHANGED <<cms, rts, cache, rtCache, queue, pc, cur, obj, after, faults>>
        BY <1>3 DEF Create, cacheVars, workerVars
      <3> QED BY <3>4, <3>5, <3>6, <3>7 DEF Change, TypeOK, Stored
    <2> QED BY <2>1, <2>2
  <1>4. CASE Delete(d)
    BY <1>4, StoreDefType DEF Delete, Change, TypeOK, cacheVars, workerVars, Stored
  <1>5. CASE DeleteConfigMap(d)
    BY <1>5 DEF DeleteConfigMap, StoreConfigMap, TypeOK, cacheVars, workerVars
  <1> QED BY <1>1, <1>2, <1>3, <1>4, <1>5 DEF UserStep

LEMMA TriggerType == ASSUME TypeOK, Trigger \/ Resync PROVE TypeOK'
  <1>1. CASE DeliverDefinition
    <2>1. watch \in Seq(Change) /\ watch # <<>>
      BY <1>1 DEF DeliverDefinition, TypeOK, Stored, Change
    <2>2. Head(watch) \in Change /\ Tail(watch) \in Seq(Change)
      BY <2>1, HeadTailProperties
    <2> QED BY <1>1, <2>2 DEF DeliverDefinition, Change, TypeOK, workerVars, Stored
  <1>2. ASSUME NEW r \in Runtimes, DeliverRuntime(r) PROVE TypeOK'
    BY <1>2 DEF DeliverRuntime, TypeOK, apiVars, workerVars
  <1>3. CASE Resync
    BY <1>3 DEF Resync, TypeOK, apiVars, cacheVars, workerVars
  <1> QED BY <1>1, <1>2, <1>3 DEF Trigger

LEMMA ReconcileType == ASSUME TypeOK, Reconcile PROVE TypeOK'
  <1> USE DefinitionConstants
  <1>1. ASSUME NEW d \in Defs, Begin(d) PROVE TypeOK'
    <2> DEFINE o == cache[d]
               parsed == [o EXCEPT !.conds = SetCondition(o.conds, "FlowParsed",
                             IF Parses(o.flow) THEN "True" ELSE "False", o.gen)]
    <2>1. CASE ~Exists(o)
      BY <1>1, <2>1 DEF Begin, TypeOK, apiVars, cacheVars, workerVars
    <2>2. CASE Exists(o)
      <3>1. o \in Object
        BY <2>2, ExistsIsObject DEF TypeOK, Stored
      <3>2. SetCondition(o.conds, "FlowParsed", IF Parses(o.flow) THEN "True" ELSE "False", o.gen)
              \in [CondTypes -> Cond]
        BY <3>1, SetConditionType DEF Object, CondTypes, CondStatus
      <3>3. parsed \in Object
        BY <3>1, <3>2 DEF Object
      <3>4. pc' \in {"status", "label", "check"}
        BY <1>1, <2>2 DEF Begin
      <3> QED BY <1>1, <2>2, <3>3, <3>4, ExistsIsObject DEF Begin, TypeOK, Stored, apiVars, cacheVars
    <2> QED BY <2>1, <2>2
  <1>2. CASE PatchLabels
    <2> DEFINE o == [defs[cur] EXCEPT !.labels = MergePatch(@, obj.labels, FlowIDLabels(obj))]
    <2>1. cur \in Defs /\ obj \in Object /\ defs[cur] \in Object
      BY <1>2, ExistsIsObject DEF PatchLabels, TypeOK, Stored
    <2>2. MergePatch(defs[cur].labels, obj.labels, FlowIDLabels(obj)) \in Labels
      BY <2>1, MergePatchType, FlowIDLabelsType DEF Object
    <2> DEFINE conds == IF o.conds = NoConds THEN obj.conds ELSE o.conds
    <2>3. o \in Object /\ [o EXCEPT !.conds = conds, !.og = o.gen] \in Object
      BY <2>1, <2>2 DEF Object
    <2>4. StoreDef(cur, o) /\ obj' = [o EXCEPT !.conds = conds, !.og = o.gen]
      BY <1>2 DEF PatchLabels
    <2> HIDE DEF o, conds
    <2> QED BY <1>2, <2>1, <2>3, <2>4, StoreDefType, ExistsIsObject
            DEF PatchLabels, Change, TypeOK, Stored, cacheVars
  <1>3. CASE PatchLabelsFails \/ WriteStatusFails
    BY <1>3 DEF PatchLabelsFails, WriteStatusFails, Fail, Finish, Fault, TypeOK, apiVars, cacheVars
  <1>4. CASE CheckRuntimeConsistency
    <2>1. cur \in Defs /\ obj \in Object
      BY <1>4, ExistsIsObject DEF CheckRuntimeConsistency, TypeOK, Stored
    <2>2. \A b : SetCondition(obj.conds, "RuntimeConsistent", IF b THEN "False" ELSE "True", obj.gen)
                   \in [CondTypes -> Cond]
      BY <2>1, SetConditionType DEF Object, CondTypes, CondStatus
    <2>3. obj' \in Object /\ pc' \in {"runtime", "apply"}
      BY <1>4, <2>1, <2>2 DEF CheckRuntimeConsistency, Object
    <2> QED BY <1>4, <2>1, <2>3, ExistsIsObject
            DEF CheckRuntimeConsistency, TypeOK, Stored, apiVars, cacheVars
  <1>5. CASE ApplyConfigMap
    <2>1. cur \in Defs /\ obj \in Object
      BY <1>5, ExistsIsObject DEF ApplyConfigMap, TypeOK, Stored
    <2>2. SetCondition(obj.conds, "ConfigMapReady", "True", obj.gen) \in [CondTypes -> Cond]
      BY <2>1, SetConditionType DEF Object, CondTypes, CondStatus
    <2>3. obj' \in Object
      BY <1>5, <2>1, <2>2 DEF ApplyConfigMap, Object
    <2>4. Rendered(obj) \in ConfigMap
      BY <2>1 DEF Rendered, ConfigMap, Object, Flow
    <2> QED BY <1>5, <2>1, <2>3, <2>4, ExistsIsObject
            DEF ApplyConfigMap, StoreConfigMap, TypeOK, Stored, cacheVars
  <1>6. CASE ApplyConfigMapFails
    <2>1. cur \in Defs /\ obj \in Object
      BY <1>6, ExistsIsObject DEF ApplyConfigMapFails, TypeOK, Stored
    <2>2. SetCondition(obj.conds, "ConfigMapReady", "False", obj.gen) \in [CondTypes -> Cond]
      BY <2>1, SetConditionType DEF Object, CondTypes, CondStatus
    <2>3. obj' \in Object
      BY <1>6, <2>1, <2>2 DEF ApplyConfigMapFails, Object
    <2> QED BY <1>6, <2>1, <2>3, ExistsIsObject
            DEF ApplyConfigMapFails, Fault, TypeOK, Stored, apiVars, cacheVars
  <1>7. CASE GetRuntime
    <2>1. cur \in Defs /\ obj \in Object
      BY <1>7, ExistsIsObject DEF GetRuntime, TypeOK, Stored
    <2>2. \A b : SetCondition(obj.conds, "RuntimeRefValid", IF b THEN "True" ELSE "False", obj.gen)
                   \in [CondTypes -> Cond]
      BY <2>1, SetConditionType DEF Object, CondTypes, CondStatus
    <2>3. obj' \in Object /\ after' \in {"done", "later"}
      BY <1>7, <2>1, <2>2 DEF GetRuntime, Object
    <2> QED BY <1>7, <2>1, <2>3, ExistsIsObject DEF GetRuntime, TypeOK, Stored, apiVars, cacheVars
  <1>8. CASE WriteStatus
    <2>1. cur \in Defs /\ obj \in Object /\ cache[cur] \in Object
      BY <1>8, ExistsIsObject DEF WriteStatus, TypeOK, Stored
    <2>2. [cache[cur] EXCEPT !.conds = obj.conds, !.og = obj.og] \in Stored
      BY <2>1 DEF Object, Stored
    <2> QED BY <1>8, <2>1, <2>2, StoreDefType DEF WriteStatus, Change, Finish, TypeOK, Stored, cacheVars
  <1> QED BY <1>1, <1>2, <1>3, <1>4, <1>5, <1>6, <1>7, <1>8 DEF Reconcile

\* Every behaviour of users, webhook, informers and worker stays well typed;
\* in particular the worker never goes on with an object that does not exist.
THEOREM TypeCorrect == Spec => []TypeOK
  <1>1. TypeOK /\ [Next]_vars => TypeOK'
    <2> SUFFICES ASSUME TypeOK, [Next]_vars PROVE TypeOK'
      OBVIOUS
    <2>1. ASSUME NEW d \in Defs, UserStep(d) PROVE TypeOK'
      BY <2>1, UserType
    <2>2. ASSUME NEW d \in Defs, CollectConfigMap(d) PROVE TypeOK'
      BY <2>2 DEF CollectConfigMap, StoreConfigMap, TypeOK, cacheVars, workerVars
    <2>3. ASSUME NEW r \in Ephemeral, ToggleRuntime(r) PROVE TypeOK'
      BY <2>3, DefinitionConstants DEF ToggleRuntime, TypeOK, cacheVars, workerVars
    <2>4. CASE Restart
      BY <2>4 DEF Restart, Fault, Finish, TypeOK
    <2>5. CASE UNCHANGED vars
      BY <2>5 DEF vars, apiVars, cacheVars, workerVars, TypeOK
    <2> QED BY <2>1, <2>2, <2>3, <2>4, <2>5, TriggerType, ReconcileType DEF Next
  <1> QED BY InitType, <1>1, PTL DEF Spec

-----------------------------------------------------------------------------
(* Versions of a workflow stay on one runtime                              *)

\* The workflows that objects named d are ever about.
Names(d) == {b[2] : b \in Bindings[d]}

\* The identity labels a lookup needs are there.
HasID(o) == Exists(o) /\ o.labels.name # Nil /\ o.labels.namespace

\* A labelled version of the object that is stored under d now.
Current(o, d) == HasID(o) /\ o.uid = defs[d].uid

\* Any version of an object named d, old or new: its name and label are about
\* one of d's workflows, and within one incarnation the runtime is fixed.
VersionOK(o, d) ==
    Exists(o) => /\ o.uid < nextUid
                 /\ o.flow.name \in Names(d)
                 /\ o.labels.name \in Names(d) \cup {Nil}
                 /\ o.uid = defs[d].uid => o.rt = defs[d].rt

VersionsInv ==
    /\ \A d \in Defs : VersionOK(defs[d], d) /\ VersionOK(cache[d], d)
    /\ \A i \in 1..Len(watch) : VersionOK(watch[i].obj, watch[i].name)
    /\ pc # "idle" => VersionOK(obj, cur)
    /\ \A d \in Defs : review[d] # NoRequest => review[d].flow.name \in Names(d)

\* Once a version with labels is on its way, every later one has them.
LabelsStick ==
    /\ \A i \in 1..Len(watch) :
          Current(watch[i].obj, watch[i].name) =>
             /\ HasID(defs[watch[i].name])
             /\ \A j \in (i+1)..Len(watch) :
                   watch[j].name = watch[i].name => Current(watch[j].obj, watch[j].name)
    /\ \A d \in Defs : Current(cache[d], d) =>
             /\ HasID(defs[d])
             /\ \A j \in 1..Len(watch) : watch[j].name = d => Current(watch[j].obj, d)

\* An owned ConfigMap renders its definition, which every lookup finds.
OwnedInv ==
    \A d \in Defs :
        /\ cms[d].owner < nextUid
        /\ Owned(d) => /\ Current(cache[d], d)
                       /\ cms[d].rt = defs[d].rt
                       /\ cms[d].wf \in Names(d)

\* The worker about to look siblings up is visible to lookups itself, and when
\* it is about to apply, no owned ConfigMap contradicts it.
WorkerInv ==
    /\ pc \in {"check", "apply"} /\ obj.uid = defs[cur].uid => Current(cache[cur], cur)
    /\ pc = "apply" => \A e \in Defs \ {cur} :
          Owned(e) /\ cms[e].wf = obj.flow.name => cms[e].rt = obj.rt

RuntimeInv == VersionsInv /\ LabelsStick /\ OwnedInv /\ WorkerInv /\ SingleRuntime

\* What a write does to the store and to the watch stream, position by position.
LEMMA StoreDefEffect ==
  ASSUME TypeOK, NEW d \in Defs, NEW o \in Stored, StoreDef(d, o)
  PROVE  /\ defs'[d] = o
         /\ \A e \in Defs \ {d} : defs'[e] = defs[e]
         /\ Len(watch) \in Nat /\ Len(watch') \in Nat /\ Len(watch) <= Len(watch')
         /\ \A i \in 1..Len(watch) : watch'[i] = watch[i] /\ watch[i] \in Change
         /\ \A i \in 1..Len(watch') : i > Len(watch) => watch'[i] = [name |-> d, obj |-> o]
  <1> DEFINE c == [name |-> d, obj |-> o]
  <1>1. defs \in [Defs -> Stored] /\ watch \in Seq(Change) /\ c \in Change
    BY DEF TypeOK, Stored, Change
  <1>2. defs' = [defs EXCEPT ![d] = o] /\ (watch' = watch \/ watch' = Append(watch, c))
    BY DEF StoreDef
  <1> HIDE DEF c
  <1>3. /\ Len(Append(watch, c)) = Len(watch) + 1 /\ Append(watch, c)[Len(watch) + 1] = c
        /\ \A i \in 1..Len(watch) : Append(watch, c)[i] = watch[i]
    BY <1>1, AppendProperties
  <1>4. Len(watch) \in Nat /\ \A i \in 1..Len(watch) : watch[i] \in Change
    BY <1>1
  <1>5. CASE watch' = watch
    BY <1>1, <1>2, <1>4, <1>5
  <1>6. CASE watch' = Append(watch, c)
    <2>1. Len(watch') = Len(watch) + 1
      BY <1>6, <1>3
    <2>2. \A i \in 1..Len(watch') : i > Len(watch) => watch'[i] = c
      BY <1>6, <1>3, <1>4, <2>1
    <2> QED BY <1>1, <1>2, <1>3, <1>4, <1>6, <2>1, <2>2 DEF c
  <1> QED BY <1>2, <1>5, <1>6

\* The part of the invariant that a write to the store can disturb.
StoreInv ==
    /\ \A d \in Defs : VersionOK(defs[d], d) /\ VersionOK(cache[d], d)
    /\ \A i \in 1..Len(watch) : VersionOK(watch[i].obj, watch[i].name)
    /\ LabelsStick
    /\ OwnedInv

\* A write that keeps the incarnation, its runtime and its labels.
LEMMA StoreSameIncarnation ==
  ASSUME TypeOK, StoreInv, NEW d \in Defs, NEW o \in Object, StoreDef(d, o),
         UNCHANGED <<cache, cms, nextUid>>,
         Exists(defs[d]), o.uid = defs[d].uid, o.rt = defs[d].rt,
         o.flow.name \in Names(d), o.labels.name \in Names(d) \cup {Nil},
         HasID(defs[d]) => HasID(o)
  PROVE  /\ StoreInv'
         /\ \A e \in Defs : Owned(e)' <=> Owned(e)
         /\ \A x, e : e \in Defs => (Current(x, e)' <=> Current(x, e))
         /\ \A x, e : e \in Defs => (VersionOK(x, e)' <=> VersionOK(x, e))
  <1>1. /\ defs'[d] = o
        /\ \A e \in Defs \ {d} : defs'[e] = defs[e]
        /\ Len(watch) \in Nat /\ Len(watch') \in Nat /\ Len(watch) <= Len(watch')
        /\ \A i \in 1..Len(watch) : watch'[i] = watch[i] /\ watch[i] \in Change
        /\ \A i \in 1..Len(watch') : i > Len(watch) => watch'[i] = [name |-> d, obj |-> o]
    BY StoreDefEffect DEF Stored
  <1>2. \A e \in Defs : defs'[e].uid = defs[e].uid /\ defs'[e].rt = defs[e].rt
    BY <1>1
  <1>3. \A x, e : e \in Defs => (Current(x, e)' <=> Current(x, e))
    BY <1>2 DEF Current, HasID, Exists
  <1>4. \A x, e : e \in Defs => (VersionOK(x, e)' <=> VersionOK(x, e))
    BY <1>2 DEF VersionOK, Exists, Names
  <1>5. \A e \in Defs : Owned(e)' <=> Owned(e)
    BY <1>2 DEF Owned
  <1>6. VersionOK(o, d)
    BY DEF VersionOK, StoreInv, Exists
  <1>7. \A e \in Defs : (VersionOK(defs[e], e) /\ VersionOK(cache[e], e))'
    BY <1>1, <1>4, <1>6 DEF StoreInv
  <1>8. \A i \in 1..Len(watch') : VersionOK(watch[i].obj, watch[i].name)'
    <2> SUFFICES ASSUME NEW i \in 1..Len(watch') PROVE VersionOK(watch[i].obj, watch[i].name)'
      OBVIOUS
    <2>1. CASE i <= Len(watch)
      BY <2>1, <1>1, <1>4 DEF StoreInv, Change
    <2>2. CASE i > Len(watch)
      BY <2>2, <1>1, <1>4, <1>6
    <2> QED BY <2>1, <2>2, <1>1
  <1>9. LabelsStick'
    <2>1. \A e \in Defs : HasID(defs[e]) => HasID(defs'[e])
      BY <1>1
    <2>2. HasID(o) => Current(o, d)
      BY DEF Current
    <2>3. ASSUME NEW i \in 1..Len(watch'), Current(watch[i].obj, watch[i].name)'
          PROVE  /\ HasID(defs'[watch'[i].name])
                 /\ \A j \in (i+1)..Len(watch') : watch'[j].name = watch'[i].name
                       => Current(watch[j].obj, watch[j].name)'
      <3>1. CASE i <= Len(watch)
        <4>1. watch'[i] = watch[i] /\ watch[i].name \in Defs
          BY <3>1, <1>1 DEF Change
        <4>2. Current(watch[i].obj, watch[i].name)
          BY <2>3, <4>1, <1>3
        <4>3. /\ HasID(defs[watch[i].name])
              /\ \A j \in (i+1)..Len(watch) :
                    watch[j].name = watch[i].name => Current(watch[j].obj, watch[j].name)
          BY <3>1, <4>2, <1>1 DEF StoreInv, LabelsStick
        <4>4. ASSUME NEW j \in (i+1)..Len(watch'), watch'[j].name = watch'[i].name
              PROVE  Current(watch[j].obj, watch[j].name)'
          <5>1. CASE j <= Len(watch)
            BY <4>1, <4>3, <4>4, <5>1, <1>1, <1>3
          <5>2. CASE j > Len(watch)
            BY <4>1, <4>3, <4>4, <5>2, <2>2, <1>1, <1>3
          <5> QED BY <5>1, <5>2, <1>1
        <4> QED BY <4>1, <4>3, <4>4, <2>1
      <3>2. CASE i > Len(watch)
        <4>1. i = Len(watch') \/ \A j \in (i+1)..Len(watch') : watch'[j].obj = o /\ watch'[j].name = d
          BY <3>2, <1>1
        <4> QED BY <2>3, <3>2, <4>1, <1>1 DEF Current
      <3> QED BY <3>1, <3>2, <1>1
    <2>4. ASSUME NEW e \in Defs, Current(cache[e], e)'
          PROVE  /\ HasID(defs'[e])
                 /\ \A j \in 1..Len(watch') : watch'[j].name = e => Current(watch[j].obj, e)'
      <3>1. Current(cache[e], e)
        BY <2>4, <1>3
      <3>2. HasID(defs[e]) /\ \A j \in 1..Len(watch) : watch[j].name = e => Current(watch[j].obj, e)
        BY <3>1 DEF StoreInv, LabelsStick
      <3>3. ASSUME NEW j \in 1..Len(watch'), watch'[j].name = e PROVE Current(watch[j].obj, e)'
        <4>1. CASE j <= Len(watch)
          BY <3>2, <3>3, <4>1, <1>1, <1>3
        <4>2. CASE j > Len(watch)
          BY <3>2, <3>3, <4>2, <2>2, <1>1, <1>3
        <4> QED BY <4>1, <4>2, <1>1
      <3> QED BY <3>2, <3>3, <2>1
    <2> QED BY <2>3, <2>4 DEF LabelsStick
  <1>10. OwnedInv'
    BY <1>2, <1>3, <1>5 DEF StoreInv, OwnedInv, Names
  <1> QED BY <1>3, <1>4, <1>5, <1>7, <1>8, <1>9, <1>10 DEF StoreInv

\* A write that ends an incarnation or starts a new one: no version seen so far
\* is current under that name any more, and no ConfigMap is owned.
LEMMA StoreOtherIncarnation ==
  ASSUME TypeOK, StoreInv, NEW d \in Defs, NEW o \in Stored, StoreDef(d, o),
         UNCHANGED <<cache, cms>>, nextUid' \in {nextUid, nextUid + 1},
         o.uid = 0 \/ (o.uid = nextUid /\ nextUid' = nextUid + 1),
         Exists(o) => o.flow.name \in Names(d) /\ o.labels.name = Nil
  PROVE  /\ StoreInv'
         /\ \A e \in Defs : Owned(e)' => Owned(e)
         /\ \A x \in Stored, e \in Defs : x.uid < nextUid =>
               (Current(x, e)' <=> Current(x, e) /\ e # d) /\ (VersionOK(x, e) => VersionOK(x, e)')
  <1>1. /\ defs'[d] = o
        /\ \A e \in Defs \ {d} : defs'[e] = defs[e]
        /\ Len(watch) \in Nat /\ Len(watch') \in Nat /\ Len(watch) <= Len(watch')
        /\ \A i \in 1..Len(watch) : watch'[i] = watch[i] /\ watch[i] \in Change
        /\ \A i \in 1..Len(watch') : i > Len(watch) => watch'[i] = [name |-> d, obj |-> o]
    BY StoreDefEffect
  <1>2. nextUid \in Nat /\ nextUid' \in Nat /\ nextUid <= nextUid' /\ nextUid > 0
    BY DEF TypeOK
  <1>3. \A x \in Stored : x.uid \in Nat
    BY DEF Stored, Object, Absent
  <1>4. \A x \in Stored, e \in Defs : x.uid < nextUid => (Current(x, e)' <=> Current(x, e) /\ e # d)
    <2> SUFFICES ASSUME NEW x \in Stored, NEW e \in Defs, x.uid < nextUid
                 PROVE  Current(x, e)' <=> Current(x, e) /\ e # d
      OBVIOUS
    <2>1. CASE e # d
      BY <2>1, <1>1 DEF Current, HasID, Exists
    <2>2. CASE e = d
      BY <2>2, <1>1, <1>2, <1>3 DEF Current, HasID, Exists
    <2> QED BY <2>1, <2>2
  <1>5. \A x \in Stored, e \in Defs : x.uid < nextUid => (VersionOK(x, e) => VersionOK(x, e)')
    <2> SUFFICES ASSUME NEW x \in Stored, NEW e \in Defs, x.uid < nextUid, VersionOK(x, e)
                 PROVE  VersionOK(x, e)'
      OBVIOUS
    <2>1. CASE e # d
      BY <2>1, <1>1, <1>2, <1>3 DEF VersionOK, Exists, Names
    <2>2. CASE e = d
      BY <2>2, <1>1, <1>2, <1>3 DEF VersionOK, Exists, Names
    <2> QED BY <2>1, <2>2
  <1>6. \A e \in Defs : cms[e] # NoConfigMap => cms[e].owner \in Nat \ {0}
    BY DEF TypeOK, ConfigMap
  <1>7. \A e \in Defs : (Owned(e)' => Owned(e) /\ e # d)
    BY <1>1, <1>2, <1>6 DEF Owned, StoreInv, OwnedInv
  <1>8. VersionOK(o, d)'
    BY <1>1, <1>2 DEF VersionOK, Exists, Names
  <1>9. \A e \in Defs : /\ cache[e] \in Stored /\ defs[e] \in Stored
                       /\ cache[e].uid < nextUid /\ defs[e].uid < nextUid
    BY <1>2 DEF TypeOK, Stored, StoreInv, VersionOK, Exists
  <1>10. \A i \in 1..Len(watch) : /\ watch[i].obj \in Stored /\ watch[i].name \in Defs
                                 /\ watch[i].obj.uid < nextUid
    BY <1>1, <1>2 DEF Change, StoreInv, VersionOK, Exists
  <1>11. \A e \in Defs : (VersionOK(defs[e], e) /\ VersionOK(cache[e], e))'
    BY <1>1, <1>5, <1>8, <1>9 DEF StoreInv
  <1>12. \A i \in 1..Len(watch') : VersionOK(watch[i].obj, watch[i].name)'
    <2> SUFFICES ASSUME NEW i \in 1..Len(watch') PROVE VersionOK(watch[i].obj, watch[i].name)'
      OBVIOUS
    <2>1. CASE i <= Len(watch)
      BY <2>1, <1>1, <1>5, <1>10 DEF StoreInv
    <2>2. CASE i > Len(watch)
      BY <2>2, <1>1, <1>8
    <2> QED BY <2>1, <2>2, <1>1
  <1>13. ~HasID(o)
    BY DEF HasID
  <1>14. LabelsStick'
    <2>1. ASSUME NEW i \in 1..Len(watch'), Current(watch[i].obj, watch[i].name)'
          PROVE  /\ HasID(defs'[watch'[i].name])
                 /\ \A j \in (i+1)..Len(watch') : watch'[j].name = watch'[i].name
                       => Current(watch[j].obj, watch[j].name)'
      <3>1. i <= Len(watch)
        BY <2>1, <1>1, <1>13 DEF Current, HasID, Exists
      <3>2. watch'[i] = watch[i] /\ watch[i].name # d /\ Current(watch[i].obj, watch[i].name)
        BY <2>1, <3>1, <1>1, <1>4, <1>10
      <3>3. /\ HasID(defs[watch[i].name])
            /\ \A j \in (i+1)..Len(watch) :
                  watch[j].name = watch[i].name => Current(watch[j].obj, watch[j].name)
        BY <3>1, <3>2, <1>1 DEF StoreInv, LabelsStick
      <3>4. ASSUME NEW j \in (i+1)..Len(watch'), watch'[j].name = watch'[i].name
            PROVE  Current(watch[j].obj, watch[j].name)'
        <4>1. j <= Len(watch)
          BY <3>2, <3>4, <1>1
        <4> QED BY <3>2, <3>3, <3>4, <4>1, <1>1, <1>4, <1>10
      <3> QED BY <3>1, <3>2, <3>3, <3>4, <1>1, <1>10
    <2>2. ASSUME NEW e \in Defs, Current(cache[e], e)'
          PROVE  /\ HasID(defs'[e])
                 /\ \A j \in 1..Len(watch') : watch'[j].name = e => Current(watch[j].obj, e)'
      <3>1. Current(cache[e], e) /\ e # d
        BY <2>2, <1>4, <1>9
      <3>2. HasID(defs[e]) /\ \A j \in 1..Len(watch) : watch[j].name = e => Current(watch[j].obj, e)
        BY <3>1 DEF StoreInv, LabelsStick
      <3>3. ASSUME NEW j \in 1..Len(watch'), watch'[j].name = e PROVE Current(watch[j].obj, e)'
        <4>1. j <= Len(watch)
          BY <3>1, <3>3, <1>1
        <4> QED BY <3>1, <3>2, <3>3, <4>1, <1>1, <1>4, <1>10
      <3> QED BY <3>1, <3>2, <3>3, <1>1
    <2> QED BY <2>1, <2>2 DEF LabelsStick
  <1>15. OwnedInv'
    <2> SUFFICES ASSUME NEW e \in Defs
                 PROVE  (/\ cms[e].owner < nextUid
                         /\ Owned(e) => /\ Current(cache[e], e)
                                        /\ cms[e].rt = defs[e].rt
                                        /\ cms[e].wf \in Names(e))'
      BY DEF OwnedInv
    <2>1. cms[e].owner \in Nat
      BY DEF TypeOK, ConfigMap, NoConfigMap
    <2>2. (cms[e].owner < nextUid)'
      BY <2>1, <1>2 DEF StoreInv, OwnedInv
    <2>3. ASSUME Owned(e)' PROVE (Current(cache[e], e) /\ cms[e].rt = defs[e].rt /\ cms[e].wf \in Names(e))'
      BY <2>3, <1>1, <1>4, <1>7, <1>9 DEF StoreInv, OwnedInv, Names
    <2> QED BY <2>2, <2>3
  <1> QED BY <1>4, <1>5, <1>7, <1>11, <1>12, <1>14, <1>15 DEF StoreInv

\* The invariant has a part about the store, and one about worker and requests.
RestInv ==
    /\ pc # "idle" => VersionOK(obj, cur)
    /\ \A d \in Defs : review[d] # NoRequest => review[d].flow.name \in Names(d)
    /\ WorkerInv
    /\ SingleRuntime

LEMMA RuntimeInvParts == (RuntimeInv <=> StoreInv /\ RestInv) /\ (RuntimeInv' <=> StoreInv' /\ RestInv')
  BY DEF RuntimeInv, StoreInv, RestInv, VersionsInv

\* A step that touches neither definitions nor ConfigMaps.
LEMMA StoreUntouched ==
  ASSUME StoreInv, UNCHANGED <<defs, watch, cache, cms, nextUid>>
  PROVE  /\ StoreInv'
         /\ \A e \in Defs : Owned(e)' <=> Owned(e)
         /\ \A x, e : (Current(x, e)' <=> Current(x, e)) /\ (VersionOK(x, e)' <=> VersionOK(x, e))
  <1>1. \A x, e : (Current(x, e)' <=> Current(x, e)) /\ (VersionOK(x, e)' <=> VersionOK(x, e))
    BY DEF Current, VersionOK, HasID, Exists, Names
  <1>2. \A e \in Defs : Owned(e)' <=> Owned(e)
    BY DEF Owned
  <1>3. LabelsStick'
    BY <1>1 DEF StoreInv, LabelsStick
  <1>4. OwnedInv'
    BY <1>1, <1>2 DEF StoreInv, OwnedInv
  <1> QED BY <1>1, <1>2, <1>3, <1>4 DEF StoreInv

\* Removing a ConfigMap.
LEMMA ConfigMapGone ==
  ASSUME TypeOK, RuntimeInv, NEW d \in Defs, cms' = [cms EXCEPT ![d] = NoConfigMap],
         UNCHANGED <<review, defs, watch, cache, nextUid, pc, cur, obj>>
  PROVE  RuntimeInv'
  <1>1. \A e \in Defs : Owned(e)' => Owned(e) /\ cms'[e] = cms[e]
    BY DEF Owned, TypeOK
  <1>2. \A x, e : (Current(x, e)' <=> Current(x, e)) /\ (VersionOK(x, e)' <=> VersionOK(x, e))
    BY DEF Current, VersionOK, HasID, Exists, Names
  <1>3. LabelsStick'
    BY <1>2 DEF RuntimeInv, LabelsStick
  <1>4. \A e \in Defs : cms'[e].owner = cms[e].owner \/ cms'[e].owner = 0
    BY DEF TypeOK, NoConfigMap
  <1>5. OwnedInv'
    BY <1>1, <1>2, <1>4 DEF RuntimeInv, OwnedInv, TypeOK
  <1>6. SingleRuntime'
    BY <1>1 DEF RuntimeInv, SingleRuntime
  <1>7. WorkerInv'
    BY <1>1, <1>2 DEF RuntimeInv, WorkerInv
  <1>8. VersionsInv'
    BY <1>2 DEF RuntimeInv, VersionsInv
  <1> QED BY <1>3, <1>5, <1>6, <1>7, <1>8 DEF RuntimeInv

LEMMA UserRuntime ==
  ASSUME TypeOK, RuntimeInv, Admission, NEW d \in Defs, UserStep(d)
  PROVE  RuntimeInv'
  <1> USE DefinitionConstants
  <1>0. StoreInv /\ RestInv
    BY RuntimeInvParts
  <1>1. ASSUME NEW b \in Bindings[d], NEW flow \in FlowsOf(b), ValidateCreate(d, b[1], flow)
        PROVE  RuntimeInv'
    <2>1. UNCHANGED <<defs, watch, cache, cms, nextUid, pc, cur, obj>>
      BY <1>1 DEF ValidateCreate, cacheVars, workerVars
    <2>2. flow.name \in Names(d)
      BY <1>1 DEF FlowsOf, Names
    <2>3. \A e \in Defs : review'[e] # NoRequest => review'[e].flow.name \in Names(e)
      BY <1>0, <1>1, <2>2 DEF ValidateCreate, RestInv, TypeOK
    <2>4. RestInv'
      BY <1>0, <2>1, <2>3, StoreUntouched DEF RestInv, WorkerInv, SingleRuntime
    <2> QED BY <1>0, <2>1, <2>4, StoreUntouched, RuntimeInvParts
  <1>2. ASSUME NEW b \in Bindings[d], NEW flow \in FlowsOf(b), Update(d, b[1], flow)
        PROVE  RuntimeInv'
    <2> DEFINE o == Edited(defs[d], defs[d].gen + 1, b[1], flow)
    <2>1. b[1] \in Runtimes /\ flow \in Flow /\ flow.name \in Names(d)
      BY DEF FlowsOf, Flow, Names
    <2>2. defs[d] \in Object /\ Exists(defs[d])
      BY <1>2, ExistsIsObject DEF Update, TypeOK, Stored
    <2>3. o \in Object
      <3>1. defs[d].gen + 1 \in Nat
        BY <2>2 DEF Object
      <3> QED BY <3>1, <2>1, <2>2, EditedType
    <2>4. /\ o.uid = defs[d].uid /\ o.rt = defs[d].rt /\ o.flow.name \in Names(d)
          /\ o.labels = defs[d].labels
      BY <1>2, <2>1, <2>2 DEF Update, Edited, Object
    <2>5. o.labels.name \in Names(d) \cup {Nil} /\ (HasID(defs[d]) => HasID(o))
      BY <1>0, <2>2, <2>4 DEF StoreInv, VersionOK, HasID, Exists
    <2>6. UNCHANGED <<review, cache, cms, nextUid, pc, cur, obj>> /\ StoreDef(d, o)
      BY <1>2 DEF Update, cacheVars, workerVars
    <2> HIDE DEF o
    <2>7. /\ StoreInv'
          /\ \A e \in Defs : Owned(e)' <=> Owned(e)
          /\ \A x, e : e \in Defs => (Current(x, e)' <=> Current(x, e))
          /\ \A x, e : e \in Defs => (VersionOK(x, e)' <=> VersionOK(x, e))
      BY <1>0, <2>2, <2>3, <2>4, <2>5, <2>6, StoreSameIncarnation
    <2>8. defs'[cur].uid = defs[cur].uid \/ pc = "idle"
      BY <2>4, <2>6 DEF StoreDef, TypeOK
    <2>9. RestInv'
      BY <1>0, <2>6, <2>7, <2>8 DEF RestInv, WorkerInv, SingleRuntime, TypeOK
    <2> QED BY <2>7, <2>9, RuntimeInvParts
  <1>3. CASE Create(d) /\ ~Exists(defs[d])
    <2> DEFINE o == NewObject(nextUid, review[d].rt, review[d].flow)
    <2>1. review[d] \in Requests /\ review[d].flow.name \in Names(d)
      BY <1>0, <1>3 DEF Create, TypeOK, RestInv
    <2>2. o \in Object
      BY <2>1, NewObjectType DEF TypeOK, Requests
    <2>3. o.uid = nextUid /\ o.flow.name \in Names(d) /\ o.labels.name = Nil
      BY <2>1 DEF NewObject, NoLabels
    <2>4. /\ UNCHANGED <<cache, cms, pc, cur, obj>> /\ StoreDef(d, o) /\ nextUid' = nextUid + 1
          /\ review' = [review EXCEPT ![d] = NoRequest]
      BY <1>3 DEF Create, cacheVars, workerVars
    <2> HIDE DEF o
    <2>5. /\ StoreInv'
          /\ \A e \in Defs : Owned(e)' => Owned(e)
          /\ \A x \in Stored, e \in Defs : x.uid < nextUid =>
               (Current(x, e)' <=> Current(x, e) /\ e # d) /\ (VersionOK(x, e) => VersionOK(x, e)')
      BY <1>0, <2>2, <2>3, <2>4, StoreOtherIncarnation DEF Stored
    <2>6. pc # "idle" => obj \in Stored /\ obj.uid < nextUid /\ cur \in Defs
      BY <1>0 DEF RestInv, VersionOK, TypeOK, Stored
    <2>7. pc # "idle" => cache[cur] \in Stored /\ cache[cur].uid < nextUid
      BY <1>0, <2>6 DEF StoreInv, VersionOK, TypeOK, Stored, Absent, Exists
    <2>8. WorkerInv'
      <3>1. pc # "idle" /\ obj.uid = defs'[cur].uid => cur # d /\ obj.uid = defs[cur].uid
        BY <2>3, <2>4, <2>6 DEF StoreDef, TypeOK
      <3> QED BY <1>0, <2>4, <2>5, <2>6, <2>7, <3>1 DEF RestInv, WorkerInv
    <2>9. RestInv'
      BY <1>0, <2>4, <2>5, <2>6, <2>8 DEF RestInv, SingleRuntime, TypeOK
    <2> QED BY <2>5, <2>9, RuntimeInvParts
  <1>4. CASE Create(d) /\ Exists(defs[d])
    <2>1. /\ UNCHANGED <<defs, watch, cache, cms, nextUid, pc, cur, obj>>
          /\ review' = [review EXCEPT ![d] = NoRequest]
      BY <1>4 DEF Create, cacheVars, workerVars
    <2>2. RestInv'
      BY <1>0, <2>1, StoreUntouched DEF RestInv, WorkerInv, SingleRuntime, TypeOK
    <2> QED BY <1>0, <2>1, <2>2, StoreUntouched, RuntimeInvParts
  <1>5. CASE Delete(d)
    <2>1. UNCHANGED <<review, cache, cms, nextUid, pc, cur, obj>> /\ StoreDef(d, Absent)
      BY <1>5 DEF Delete, cacheVars, workerVars
    <2>2. Absent \in Stored /\ Absent.uid = 0 /\ ~Exists(Absent)
      BY DEF Stored, Absent, Exists
    <2>3. /\ StoreInv'
          /\ \A e \in Defs : Owned(e)' => Owned(e)
          /\ \A x \in Stored, e \in Defs : x.uid < nextUid =>
               (Current(x, e)' <=> Current(x, e) /\ e # d) /\ (VersionOK(x, e) => VersionOK(x, e)')
      BY <1>0, <2>1, <2>2, StoreOtherIncarnation
    <2>4. pc # "idle" => obj \in Stored /\ obj.uid < nextUid /\ obj.uid # 0 /\ cur \in Defs
      BY <1>0 DEF RestInv, VersionOK, TypeOK, Stored, Exists
    <2>5. pc # "idle" => cache[cur] \in Stored /\ cache[cur].uid < nextUid
      BY <1>0, <2>4 DEF StoreInv, VersionOK, TypeOK, Stored, Absent, Exists
    <2>6. WorkerInv'
      <3>1. pc # "idle" /\ obj.uid = defs'[cur].uid => cur # d /\ obj.uid = defs[cur].uid
        BY <2>1, <2>2, <2>4 DEF StoreDef, TypeOK
      <3> QED BY <1>0, <2>1, <2>3, <2>4, <2>5, <3>1 DEF RestInv, WorkerInv
    <2>7. RestInv'
      BY <1>0, <2>1, <2>3, <2>4, <2>6 DEF RestInv, SingleRuntime
    <2> QED BY <2>3, <2>7, RuntimeInvParts
  <1>6. CASE DeleteConfigMap(d)
    BY <1>6, ConfigMapGone DEF DeleteConfigMap, StoreConfigMap, cacheVars, workerVars
  <1> QED BY <1>1, <1>2, <1>3, <1>4, <1>5, <1>6 DEF UserStep

LEMMA TriggerRuntime ==
  ASSUME TypeOK, RuntimeInv, Trigger \/ Resync
  PROVE  RuntimeInv'
  <1>0. StoreInv /\ RestInv
    BY RuntimeInvParts
  <1>1. CASE DeliverDefinition
    <2> DEFINE h == Head(watch)
    <2>1. watch \in Seq(Change) /\ watch # <<>>
      BY <1>1 DEF DeliverDefinition, TypeOK, Stored, Change
    <2>2. /\ h \in Change /\ h = watch[1] /\ 1 \in 1..Len(watch)
          /\ Len(watch) \in Nat /\ Len(Tail(watch)) = Len(watch) - 1
          /\ \A i \in 1..Len(Tail(watch)) : Tail(watch)[i] = watch[i+1]
      BY <2>1, HeadTailProperties
    <2>3. /\ cache' = [cache EXCEPT ![h.name] = h.obj] /\ watch' = Tail(watch)
          /\ UNCHANGED <<review, defs, cms, nextUid, pc, cur, obj>>
      BY <1>1 DEF DeliverDefinition, workerVars
    <2>4. h.name \in Defs /\ h.obj \in Stored
      BY <2>2 DEF Change
    <2>5. \A e \in Defs : cache'[e] = IF e = h.name THEN h.obj ELSE cache[e]
      BY <2>3, <2>4 DEF TypeOK
    <2> HIDE DEF h
    <2>6. \A x, e : (Current(x, e)' <=> Current(x, e)) /\ (VersionOK(x, e)' <=> VersionOK(x, e))
      BY <2>3 DEF Current, VersionOK, HasID, Exists, Names
    <2>7. \A i \in 1..Len(watch') : i+1 \in 1..Len(watch) /\ watch'[i] = watch[i+1]
      BY <2>2, <2>3
    <2>8. \A e \in Defs : Owned(e)' <=> Owned(e)
      BY <2>3 DEF Owned
    <2>9. \A e \in Defs : Current(cache[e], e) => Current(cache'[e], e)
      BY <1>0, <2>2, <2>5 DEF StoreInv, LabelsStick
    <2>10. \A e \in Defs : (VersionOK(defs[e], e) /\ VersionOK(cache[e], e))'
      BY <1>0, <2>2, <2>3, <2>5, <2>6 DEF StoreInv
    <2>11. \A i \in 1..Len(watch') : VersionOK(watch[i].obj, watch[i].name)'
      BY <1>0, <2>6, <2>7 DEF StoreInv
    <2>12. LabelsStick'
      <3>1. ASSUME NEW i \in 1..Len(watch'), Current(watch[i].obj, watch[i].name)'
            PROVE  /\ HasID(defs'[watch'[i].name])
                   /\ \A j \in (i+1)..Len(watch') : watch'[j].name = watch'[i].name
                         => Current(watch[j].obj, watch[j].name)'
        <4>1. i+1 \in 1..Len(watch) /\ watch'[i] = watch[i+1] /\ Current(watch[i+1].obj, watch[i+1].name)
          BY <2>6, <2>7, <3>1
        <4>2. /\ HasID(defs[watch[i+1].name])
              /\ \A j \in (i+2)..Len(watch) :
                    watch[j].name = watch[i+1].name => Current(watch[j].obj, watch[j].name)
          BY <1>0, <4>1 DEF StoreInv, LabelsStick
        <4>3. ASSUME NEW j \in (i+1)..Len(watch'), watch'[j].name = watch'[i].name
              PROVE  Current(watch[j].obj, watch[j].name)'
          <5>1. j \in 1..Len(watch') /\ j+1 \in (i+2)..Len(watch) /\ watch'[j] = watch[j+1]
            BY <2>2, <2>3, <2>7
          <5> QED BY <4>1, <4>2, <4>3, <5>1, <2>6
        <4> QED BY <4>1, <4>2, <4>3, <2>3
      <3>2. ASSUME NEW e \in Defs, Current(cache[e], e)'
            PROVE  /\ HasID(defs'[e])
                   /\ \A j \in 1..Len(watch') : watch'[j].name = e => Current(watch[j].obj, e)'
        <4>1. CASE e = h.name
          <5>1. Current(watch[1].obj, watch[1].name) /\ watch[1].name = e
            BY <2>2, <2>5, <2>6, <3>2, <4>1
          <5>2. /\ HasID(defs[e])
                /\ \A j \in 2..Len(watch) : watch[j].name = e => Current(watch[j].obj, e)
            BY <1>0, <2>2, <5>1 DEF StoreInv, LabelsStick
          <5>3. \A j \in 1..Len(watch') : j+1 \in 2..Len(watch) /\ watch'[j] = watch[j+1]
            BY <2>2, <2>3, <2>7
          <5> QED BY <5>2, <5>3, <2>3, <2>6
        <4>2. CASE e # h.name
          <5>1. Current(cache[e], e)
            BY <2>5, <2>6, <3>2, <4>2
          <5>2. /\ HasID(defs[e])
                /\ \A j \in 1..Len(watch) : watch[j].name = e => Current(watch[j].obj, e)
            BY <1>0, <5>1 DEF StoreInv, LabelsStick
          <5> QED BY <5>2, <2>3, <2>6, <2>7
        <4> QED BY <4>1, <4>2
      <3> QED BY <3>1, <3>2 DEF LabelsStick
    <2>13. OwnedInv'
      BY <1>0, <2>3, <2>6, <2>8, <2>9 DEF StoreInv, OwnedInv
    <2>14. WorkerInv'
      BY <1>0, <2>3, <2>6, <2>8, <2>9 DEF RestInv, WorkerInv, TypeOK
    <2>15. RestInv'
      BY <1>0, <2>3, <2>6, <2>8, <2>14 DEF RestInv, SingleRuntime
    <2> QED BY <2>10, <2>11, <2>12, <2>13, <2>15, RuntimeInvParts DEF StoreInv
  <1>2. CASE Resync \/ \E r \in Runtimes : DeliverRuntime(r)
    <2>1. UNCHANGED <<review, defs, watch, cache, cms, nextUid, pc, cur, obj>>
      BY <1>2 DEF Resync, DeliverRuntime, apiVars, cacheVars, workerVars
    <2>2. RestInv'
      BY <1>0, <2>1, StoreUntouched DEF RestInv, WorkerInv, SingleRuntime
    <2> QED BY <1>0, <2>1, <2>2, StoreUntouched, RuntimeInvParts
  <1> QED BY <1>1, <1>2 DEF Trigger

\* Objects named d carry the label of d's one workflow or none.
LEMMA OwnedIsLabelled ==
  ASSUME TypeOK, RuntimeInv, OneDocPerName, NEW e \in Defs, Owned(e)
  PROVE  e \in Labelled(cms[e].wf) /\ cache[e].rt = cms[e].rt
  <1>1. Current(cache[e], e) /\ cms[e].rt = defs[e].rt /\ cms[e].wf \in Names(e)
    BY DEF RuntimeInv, OwnedInv
  <1>2. VersionOK(cache[e], e) /\ Exists(cache[e])
    BY <1>1 DEF RuntimeInv, VersionsInv, Current, HasID
  <1>3. cache[e].labels.name \in Names(e) /\ cache[e].labels.namespace /\ cache[e].rt = defs[e].rt
    BY <1>1, <1>2 DEF VersionOK, Current, HasID
  <1>4. \A x, y \in Names(e) : x = y
    BY DEF Names, OneDocPerName
  <1> QED BY <1>1, <1>2, <1>3, <1>4 DEF Labelled

LEMMA ReconcileRuntime ==
  ASSUME TypeOK, RuntimeInv, OneDocPerName, Reconcile
  PROVE  RuntimeInv'
  <1> USE DefinitionConstants
  <1>0. StoreInv /\ RestInv
    BY RuntimeInvParts
  <1>1. ASSUME NEW d \in Defs, Begin(d) PROVE RuntimeInv'
    <2>1. UNCHANGED <<review, defs, watch, cache, cms, nextUid>>
      BY <1>1 DEF Begin, apiVars, cacheVars
    <2>2. CASE ~Exists(cache[d])
      <3>1. UNCHANGED <<pc, cur, obj>>
        BY <1>1, <2>2 DEF Begin, workerVars
      <3>2. RestInv'
        BY <1>0, <2>1, <3>1, StoreUntouched DEF RestInv, WorkerInv, SingleRuntime
      <3> QED BY <1>0, <2>1, <3>2, StoreUntouched, RuntimeInvParts
    <2>3. CASE Exists(cache[d])
      <3>1. cache[d] \in Object
        BY <2>3, ExistsIsObject DEF TypeOK, Stored
      <3>2. /\ cur' = d /\ obj'.uid = cache[d].uid /\ obj'.rt = cache[d].rt
            /\ obj'.flow = cache[d].flow /\ obj'.labels = cache[d].labels
        BY <1>1, <2>3, <3>1 DEF Begin, Object
      <3>3. pc' \in {"status", "label", "check"}
        BY <1>1, <2>3 DEF Begin
      <3>4. pc' = "check" => cache[d].flow.name # Nil /\ cache[d].labels = FlowIDLabels(cache[d])
        BY <1>1, <2>3 DEF Begin, Parses
      <3>5. pc' = "check" => HasID(cache[d])
        BY <2>3, <3>4 DEF HasID, FlowIDLabels
      <3>6. VersionOK(obj', d)
        BY <1>0, <2>3, <3>2 DEF StoreInv, VersionOK, Exists
      <3>7. VersionOK(obj, cur)'
        BY <1>0, <2>1, <3>2, <3>6, StoreUntouched
      <3>8. WorkerInv'
        BY <2>1, <3>2, <3>3, <3>5 DEF WorkerInv, Current, HasID, Exists
      <3>9. RestInv'
        BY <1>0, <2>1, <3>7, <3>8, StoreUntouched DEF RestInv, SingleRuntime
      <3> QED BY <1>0, <2>1, <3>9, StoreUntouched, RuntimeInvParts
    <2> QED BY <2>2, <2>3
  <1>2. CASE PatchLabels
    <2> DEFINE o == [defs[cur] EXCEPT !.labels = MergePatch(@, obj.labels, FlowIDLabels(obj))]
    <2>1. cur \in Defs /\ obj \in Object /\ defs[cur] \in Object /\ Exists(defs[cur]) /\ pc # "idle"
      BY <1>2, ExistsIsObject DEF PatchLabels, TypeOK, Stored
    <2>2. MergePatch(defs[cur].labels, obj.labels, FlowIDLabels(obj)) \in Labels
      BY <2>1, MergePatchType, FlowIDLabelsType DEF Object
    <2>3. /\ o \in Object /\ o.uid = defs[cur].uid /\ o.rt = defs[cur].rt /\ o.flow = defs[cur].flow
          /\ o.labels = MergePatch(defs[cur].labels, obj.labels, FlowIDLabels(obj))
      BY <2>1, <2>2 DEF Object
    <2>4. obj.flow.name \in Names(cur) /\ VersionOK(defs[cur], cur) /\ obj.flow.name # Nil
      <3>1. obj.flow.name \in Names(cur) /\ VersionOK(defs[cur], cur)
        BY <1>0, <2>1, ExistsIsObject DEF RestInv, StoreInv, VersionOK, Stored
      <3>2. Names(cur) \subseteq Workflows
        BY <2>1 DEF Names
      <3> QED BY <3>1, <3>2
    <2>5. o.labels.name \in Names(cur) \cup {Nil} /\ (HasID(defs[cur]) => HasID(o))
      <3>1. o.labels.name \in {defs[cur].labels.name, obj.flow.name}
        BY <2>3 DEF MergePatch, FlowIDLabels
      <3>2. o.labels.namespace = defs[cur].labels.namespace \/ o.labels.namespace = TRUE
        <4>1. o.labels.namespace = IF FlowIDLabels(obj).namespace = obj.labels.namespace
                                   THEN defs[cur].labels.namespace ELSE FlowIDLabels(obj).namespace
          BY <2>3 DEF MergePatch
        <4>2. FlowIDLabels(obj).namespace = TRUE
          BY DEF FlowIDLabels
        <4> HIDE DEF o
        <4> QED BY <4>1, <4>2, Zenon
      <3>3. defs[cur].labels.name \in Names(cur) \cup {Nil}
        BY <2>1, <2>4 DEF VersionOK
      <3> HIDE DEF o
      <3>4. HasID(defs[cur]) => o.labels.name # Nil /\ Exists(o)
        BY <2>1, <2>3, <2>4, <3>1 DEF HasID, Exists
      <3> QED BY <2>4, <3>1, <3>2, <3>3, <3>4, Zenon DEF HasID
    <2>6. o.flow.name \in Names(cur)
      BY <2>1, <2>3, <2>4 DEF VersionOK
    <2>7. /\ StoreDef(cur, o) /\ pc' = "status"
          /\ obj' = [o EXCEPT !.conds = IF o.conds = NoConds THEN obj.conds ELSE o.conds, !.og = o.gen]
          /\ UNCHANGED <<review, cache, cms, nextUid, cur>>
      BY <1>2 DEF PatchLabels, cacheVars
    <2>8. /\ obj'.uid = o.uid /\ obj'.rt = o.rt /\ obj'.flow = o.flow /\ obj'.labels = o.labels
          /\ defs'[cur] = o
      BY <2>1, <2>3, <2>7 DEF Object, StoreDef, TypeOK
    <2> HIDE DEF o
    <2>9. /\ StoreInv'
          /\ \A e \in Defs : Owned(e)' <=> Owned(e)
      BY <1>0, <2>1, <2>3, <2>5, <2>6, <2>7, StoreSameIncarnation
    <2>10. VersionOK(obj, cur)'
      <3>1. VersionOK(defs[cur], cur)'
        BY <2>1, <2>7, <2>9 DEF StoreInv
      <3> QED BY <2>7, <2>8, <3>1 DEF VersionOK, Exists
    <2>11. RestInv'
      BY <1>0, <2>7, <2>9, <2>10 DEF RestInv, WorkerInv, SingleRuntime
    <2> QED BY <2>9, <2>11, RuntimeInvParts
  <1>3. CASE PatchLabelsFails \/ WriteStatusFails
    <2>1. UNCHANGED <<review, defs, watch, cache, cms, nextUid>> /\ pc' = "idle"
      BY <1>3 DEF PatchLabelsFails, WriteStatusFails, Fail, Finish, apiVars, cacheVars
    <2>2. RestInv'
      BY <1>0, <2>1, StoreUntouched DEF RestInv, WorkerInv, SingleRuntime
    <2> QED BY <1>0, <2>1, <2>2, StoreUntouched, RuntimeInvParts
  <1>4. CASE CheckRuntimeConsistency
    <2>1. cur \in Defs /\ obj \in Object /\ pc = "check"
      BY <1>4, ExistsIsObject DEF CheckRuntimeConsistency, TypeOK, Stored
    <2>2. /\ UNCHANGED <<review, defs, watch, cache, cms, nextUid, cur>>
          /\ obj'.uid = obj.uid /\ obj'.rt = obj.rt /\ obj'.flow = obj.flow /\ obj'.labels = obj.labels
      BY <1>4, <2>1 DEF CheckRuntimeConsistency, Object, apiVars, cacheVars
    <2>3. pc' = "apply" => ~ConflictsWith(cur, obj.flow.name, obj.rt)
      BY <1>4 DEF CheckRuntimeConsistency
    <2>4. pc' \in {"apply", "runtime"}
      BY <1>4 DEF CheckRuntimeConsistency
    <2>5. ASSUME pc' = "apply", NEW e \in Defs \ {cur}, Owned(e), cms[e].wf = obj.flow.name
          PROVE  cms[e].rt = obj.rt
      BY <2>3, <2>5, OwnedIsLabelled DEF ConflictsWith
    <2>6. WorkerInv'
      BY <1>0, <2>1, <2>2, <2>4, <2>5, StoreUntouched DEF RestInv, WorkerInv
    <2>7. VersionOK(obj, cur)'
      BY <1>0, <2>1, <2>2, StoreUntouched DEF RestInv, VersionOK, Exists
    <2>8. RestInv'
      BY <1>0, <2>2, <2>6, <2>7, StoreUntouched DEF RestInv, SingleRuntime
    <2> QED BY <1>0, <2>2, <2>8, StoreUntouched, RuntimeInvParts
  <1>5. CASE ApplyConfigMap
    <2>1. cur \in Defs /\ obj \in Object /\ pc = "apply" /\ Exists(obj)
      BY <1>5, ExistsIsObject DEF ApplyConfigMap, TypeOK, Stored
    <2>2. /\ UNCHANGED <<review, defs, watch, cache, nextUid, cur>> /\ pc' = "runtime"
          /\ cms' = [cms EXCEPT ![cur] = Rendered(obj)]
          /\ obj'.uid = obj.uid /\ obj'.rt = obj.rt /\ obj'.flow = obj.flow /\ obj'.labels = obj.labels
      BY <1>5, <2>1 DEF ApplyConfigMap, StoreConfigMap, Object, cacheVars
    <2>3. /\ cms'[cur].owner = obj.uid /\ cms'[cur].rt = obj.rt /\ cms'[cur].wf = obj.flow.name
          /\ \A e \in Defs \ {cur} : cms'[e] = cms[e] /\ (Owned(e)' <=> Owned(e))
      BY <2>1, <2>2 DEF Rendered, TypeOK, Owned
    <2>4. \A x, e : (Current(x, e)' <=> Current(x, e)) /\ (VersionOK(x, e)' <=> VersionOK(x, e))
      BY <2>2 DEF Current, VersionOK, HasID, Exists, Names
    <2>5. LabelsStick'
      BY <1>0, <2>2, <2>4 DEF StoreInv, LabelsStick
    <2>6. VersionOK(obj, cur)
      BY <1>0, <2>1 DEF RestInv
    <2>7. Owned(cur)' => /\ Current(cache[cur], cur) /\ obj.rt = defs[cur].rt
                         /\ obj.flow.name \in Names(cur)
      BY <1>0, <2>1, <2>2, <2>3, <2>6 DEF RestInv, WorkerInv, VersionOK, Owned
    <2>8. OwnedInv'
      BY <1>0, <2>1, <2>2, <2>3, <2>4, <2>6, <2>7 DEF StoreInv, OwnedInv, VersionOK
    <2>9. \A e \in Defs \ {cur} : Owned(e)' /\ cms'[e].wf = cms'[cur].wf => cms'[e].rt = cms'[cur].rt
      BY <1>0, <2>1, <2>3 DEF RestInv, WorkerInv
    <2>10. SingleRuntime'
      BY <1>0, <2>3, <2>9 DEF RestInv, SingleRuntime
    <2>11. VersionOK(obj, cur)'
      BY <2>2, <2>6 DEF VersionOK, Exists, Names
    <2>12. RestInv'
      BY <1>0, <2>2, <2>10, <2>11 DEF RestInv, WorkerInv
    <2>13. StoreInv'
      BY <1>0, <2>2, <2>4, <2>5, <2>8 DEF StoreInv
    <2> QED BY <2>12, <2>13, RuntimeInvParts
  <1>6. CASE ApplyConfigMapFails \/ GetRuntime
    <2>1. cur \in Defs /\ obj \in Object /\ pc # "idle"
      BY <1>6, ExistsIsObject DEF ApplyConfigMapFails, GetRuntime, TypeOK, Stored
    <2>2. /\ UNCHANGED <<review, defs, watch, cache, cms, nextUid, cur>> /\ pc' \in {"runtime", "status"}
          /\ obj'.uid = obj.uid /\ obj'.rt = obj.rt /\ obj'.flow = obj.flow /\ obj'.labels = obj.labels
      BY <1>6, <2>1 DEF ApplyConfigMapFails, GetRuntime, Object, apiVars, cacheVars
    <2>3. VersionOK(obj, cur)'
      BY <1>0, <2>1, <2>2, StoreUntouched DEF RestInv, VersionOK, Exists
    <2>4. RestInv'
      BY <1>0, <2>2, <2>3, StoreUntouched DEF RestInv, WorkerInv, SingleRuntime
    <2> QED BY <1>0, <2>2, <2>4, StoreUntouched, RuntimeInvParts
  <1>7. CASE WriteStatus
    <2> DEFINE o == [cache[cur] EXCEPT !.conds = obj.conds, !.og = obj.og]
    <2>1. cur \in Defs /\ obj \in Object /\ cache[cur] \in Object /\ Exists(cache[cur])
      BY <1>7, ExistsIsObject DEF WriteStatus, TypeOK, Stored
    <2>2. /\ cache[cur] = defs[cur] /\ StoreDef(cur, o) /\ pc' = "idle"
          /\ UNCHANGED <<review, cache, cms, nextUid>>
      BY <1>7 DEF WriteStatus, Finish, cacheVars
    <2>3. /\ o \in Object /\ o.uid = defs[cur].uid /\ o.rt = defs[cur].rt
          /\ o.flow = defs[cur].flow /\ o.labels = defs[cur].labels
      BY <2>1, <2>2 DEF Object
    <2>4. /\ o.flow.name \in Names(cur) /\ o.labels.name \in Names(cur) \cup {Nil}
          /\ HasID(defs[cur]) => HasID(o)
      BY <1>0, <2>1, <2>2, <2>3 DEF StoreInv, VersionOK, HasID, Exists
    <2> HIDE DEF o
    <2>5. StoreInv' /\ \A e \in Defs : Owned(e)' <=> Owned(e)
      BY <1>0, <2>1, <2>2, <2>3, <2>4, StoreSameIncarnation
    <2>6. RestInv'
      BY <1>0, <2>2, <2>5 DEF RestInv, WorkerInv, SingleRuntime
    <2> QED BY <2>5, <2>6, RuntimeInvParts
  <1> QED BY <1>1, <1>2, <1>3, <1>4, <1>5, <1>6, <1>7 DEF Reconcile

\* A new process starts from the store itself.
LEMMA RestartRuntime ==
  ASSUME TypeOK, RuntimeInv, Restart
  PROVE  RuntimeInv'
  <1>0. StoreInv /\ RestInv
    BY RuntimeInvParts
  <1>1. /\ cache' = defs /\ watch' = <<>> /\ pc' = "idle"
        /\ UNCHANGED <<review, defs, cms, nextUid>>
    BY DEF Restart, Finish
  <1>2. \A x, e : (Current(x, e)' <=> Current(x, e)) /\ (VersionOK(x, e)' <=> VersionOK(x, e))
    BY <1>1 DEF Current, VersionOK, HasID, Exists, Names
  <1>3. Len(watch') = 0
    BY <1>1
  <1>4. LabelsStick'
    BY <1>1, <1>3 DEF LabelsStick, Current
  <1>5. \A e \in Defs : Owned(e)' <=> Owned(e)
    BY <1>1 DEF Owned
  <1>6. \A e \in Defs : Current(cache[e], e) => Current(defs[e], e)
    BY <1>0 DEF StoreInv, LabelsStick, Current
  <1>7. OwnedInv'
    BY <1>0, <1>1, <1>2, <1>5, <1>6 DEF StoreInv, OwnedInv
  <1>8. StoreInv'
    BY <1>0, <1>1, <1>2, <1>3, <1>4, <1>7 DEF StoreInv
  <1>9. RestInv'
    BY <1>0, <1>1, <1>5 DEF RestInv, WorkerInv, SingleRuntime
  <1> QED BY <1>8, <1>9, RuntimeInvParts

\* With the webhook in place, and definition names not reused for another
\* workflow, no interleaving of users, lagging cache, failed calls, restarts
\* and recreated definitions leaves versions of one workflow materialised on
\* two runtimes.
THEOREM OneRuntimePerWorkflow ==
  Admission /\ OneDocPerName => (Spec => []SingleRuntime)
  <1> SUFFICES ASSUME Admission, OneDocPerName PROVE Spec => []SingleRuntime
    OBVIOUS
  <1>1. Init => RuntimeInv
    <2> SUFFICES ASSUME Init PROVE RuntimeInv
      OBVIOUS
    <2>1. \A d \in Defs : defs[d] = Absent /\ cache[d] = Absent /\ cms[d] = NoConfigMap /\ review[d] = NoRequest
      BY DEF Init
    <2>2. Len(watch) = 0 /\ pc = "idle" /\ nextUid = 1 /\ ~Exists(Absent) /\ \A d \in Defs : ~Owned(d)
      BY <2>1 DEF Init, Exists, Absent, Owned
    <2>3. VersionsInv
      BY <2>1, <2>2 DEF VersionsInv, VersionOK
    <2>4. LabelsStick
      BY <2>1, <2>2 DEF LabelsStick, Current, HasID
    <2>5. OwnedInv
      BY <2>1, <2>2 DEF OwnedInv, NoConfigMap
    <2>6. WorkerInv /\ SingleRuntime
      BY <2>2 DEF WorkerInv, SingleRuntime
    <2> QED BY <2>3, <2>4, <2>5, <2>6 DEF RuntimeInv
  <1>2. TypeOK /\ RuntimeInv /\ [Next]_vars => RuntimeInv'
    <2> SUFFICES ASSUME TypeOK, RuntimeInv, [Next]_vars PROVE RuntimeInv'
      OBVIOUS
    <2>1. ASSUME NEW d \in Defs, UserStep(d) PROVE RuntimeInv'
      BY <2>1, UserRuntime
    <2>2. ASSUME NEW d \in Defs, CollectConfigMap(d) PROVE RuntimeInv'
      BY <2>2, ConfigMapGone DEF CollectConfigMap, StoreConfigMap, cacheVars, workerVars
    <2>3. CASE (\E r \in Ephemeral : ToggleRuntime(r)) \/ UNCHANGED vars
      <3>1. UNCHANGED <<review, defs, watch, cache, cms, nextUid, pc, cur, obj>>
        BY <2>3 DEF ToggleRuntime, vars, apiVars, cacheVars, workerVars
      <3>2. StoreInv /\ RestInv
        BY RuntimeInvParts
      <3>3. RestInv'
        BY <3>1, <3>2, StoreUntouched DEF RestInv, WorkerInv, SingleRuntime
      <3> QED BY <3>1, <3>2, <3>3, StoreUntouched, RuntimeInvParts
    <2> QED BY <2>1, <2>2, <2>3, TriggerRuntime, ReconcileRuntime, RestartRuntime DEF Next
  <1>3. RuntimeInv => SingleRuntime
    BY DEF RuntimeInv
  <1> QED BY <1>1, <1>2, <1>3, TypeCorrect, PTL DEF Spec

-----------------------------------------------------------------------------
(***************************************************************************)
(* What the LogicFlowDefinition controller never takes back, and what it   *)
(* never sleeps on.                                                        *)
(*                                                                         *)
(* A ConfigMap is rendered from an object that was read from the cache.    *)
(* Versions of a definition reach the cache in the order in which the API  *)
(* server stored them, so whatever is read later is at least as new.       *)
(*                                                                         *)
(* Whatever makes the ConfigMap or the reported status of a definition     *)
(* untrue also puts the definition's name into the work queue or an event  *)
(* into the watch stream; and the worker, when it returns without asking   *)
(* for a retry, has seen the object that is cached.                        *)
(***************************************************************************)

\* The definition with uid u in generation g is not newer than x, if x exists.
NotNewer(u, g, x) == Exists(x) => u < x.uid \/ (u = x.uid /\ g <= x.gen)

\* It is not newer than what cache, watch stream and server have of d.
Behind(u, g, d) ==
    /\ NotNewer(u, g, cache[d]) /\ NotNewer(u, g, defs[d])
    /\ \A i \in 1..Len(watch) : watch[i].name = d => NotNewer(u, g, watch[i].obj)

\* What the watch stream still has to deliver comes in the server's order.
InOrder ==
    \A i \in 1..Len(watch) : Exists(watch[i].obj) =>
        /\ watch[i].obj.uid < nextUid
        /\ NotNewer(watch[i].obj.uid, watch[i].obj.gen, defs[watch[i].name])
        /\ \A j \in (i+1)..Len(watch) : watch[j].name = watch[i].name =>
               NotNewer(watch[i].obj.uid, watch[i].obj.gen, watch[j].obj)

\* Cache, ConfigMaps and the object that the worker is about to render are
\* behind the server and the stream.
ForwardInv ==
    /\ InOrder
    /\ \A d \in Defs : /\ Exists(defs[d]) => defs[d].uid < nextUid
                       /\ Exists(cache[d]) => cache[d].uid < nextUid /\ Behind(cache[d].uid, cache[d].gen, d)
                       /\ cms[d] # NoConfigMap => cms[d].owner < nextUid /\ Behind(cms[d].owner, cms[d].gen, d)
    /\ pc \in {"check", "apply"} =>
          /\ obj.uid < nextUid /\ Behind(obj.uid, obj.gen, cur)
          /\ cms[cur] # NoConfigMap => NotNewer(cms[cur].owner, cms[cur].gen, obj)

-----------------------------------------------------------------------------
\* A write of the server's own next version leaves everything behind it.
LEMMA StoreForward ==
  ASSUME TypeOK, ForwardInv, NEW d \in Defs, NEW o \in Stored, StoreDef(d, o), UNCHANGED cache,
         \/ nextUid' = nextUid /\ ~Exists(o)
         \/ nextUid' = nextUid /\ Exists(defs[d]) /\ o.uid = defs[d].uid /\ o.gen >= defs[d].gen
         \/ nextUid' = nextUid + 1 /\ o.uid = nextUid
  PROVE  /\ InOrder'
         /\ \A e \in Defs : Exists(defs'[e]) => defs'[e].uid < nextUid'
         /\ \A e \in Defs : \A u, g \in Nat : u < nextUid /\ Behind(u, g, e) => u < nextUid' /\ Behind(u, g, e)'
  <1>1. /\ defs'[d] = o
        /\ \A e \in Defs \ {d} : defs'[e] = defs[e]
        /\ Len(watch) \in Nat /\ Len(watch') \in Nat /\ Len(watch) <= Len(watch')
        /\ \A i \in 1..Len(watch) : watch'[i] = watch[i] /\ watch[i] \in Change
        /\ \A i \in 1..Len(watch') : i > Len(watch) => watch'[i] = [name |-> d, obj |-> o]
    BY StoreDefEffect
  <1>2. nextUid \in Nat /\ nextUid' \in Nat /\ nextUid <= nextUid' /\ defs \in [Defs -> Stored]
    BY DEF TypeOK, Stored
  <1>3. \A x \in Stored : x.uid \in Nat /\ x.gen \in Nat
    BY DEF Stored, Object, Absent
  <1>4. \A u, g \in Nat : u < nextUid /\ NotNewer(u, g, defs[d]) => NotNewer(u, g, o)
    BY <1>2, <1>3 DEF NotNewer, Exists
  <1>5. Exists(o) => o.uid < nextUid'
    BY <1>2, <1>3 DEF ForwardInv
  <1>6. \A e \in Defs : Exists(defs'[e]) => defs'[e].uid < nextUid'
    BY <1>1, <1>2, <1>3, <1>5 DEF ForwardInv
  <1>7. ASSUME NEW e \in Defs, NEW u \in Nat, NEW g \in Nat, u < nextUid, Behind(u, g, e)
        PROVE  u < nextUid' /\ Behind(u, g, e)'
    <2>1. u < nextUid'
      BY <1>2, <1>7
    <2>2. NotNewer(u, g, cache'[e]) /\ NotNewer(u, g, defs'[e])
      BY <1>1, <1>4, <1>7 DEF Behind
    <2>3. ASSUME NEW i \in 1..Len(watch'), watch'[i].name = e PROVE NotNewer(u, g, watch'[i].obj)
      <3>1. CASE i <= Len(watch)
        BY <1>1, <1>7, <2>3, <3>1 DEF Behind
      <3>2. CASE i > Len(watch)
        BY <1>1, <1>4, <1>7, <2>3, <3>2 DEF Behind
      <3> QED BY <3>1, <3>2, <1>1
    <2> QED BY <2>1, <2>2, <2>3 DEF Behind, NotNewer, Exists
  <1>8. ASSUME NEW i \in 1..Len(watch'), Exists(watch'[i].obj)
        PROVE  /\ watch'[i].obj.uid < nextUid'
               /\ NotNewer(watch'[i].obj.uid, watch'[i].obj.gen, defs'[watch'[i].name])
               /\ \A j \in (i+1)..Len(watch') : watch'[j].name = watch'[i].name =>
                      NotNewer(watch'[i].obj.uid, watch'[i].obj.gen, watch'[j].obj)
    <2>1. CASE i <= Len(watch)
      <3> DEFINE u == watch[i].obj.uid
                 g == watch[i].obj.gen
                 n == watch[i].name
      <3>1. i \in 1..Len(watch) /\ watch'[i] = watch[i] /\ n \in Defs /\ u \in Nat /\ g \in Nat
        BY <2>1, <1>1, <1>3 DEF Change
      <3>2. /\ u < nextUid /\ NotNewer(u, g, defs[n])
            /\ \A j \in (i+1)..Len(watch) : watch[j].name = n => NotNewer(u, g, watch[j].obj)
        BY <1>8, <3>1 DEF ForwardInv, InOrder
      <3> HIDE DEF u, g, n
      <3>3. NotNewer(u, g, defs'[n])
        BY <1>1, <1>4, <3>1, <3>2
      <3>4. ASSUME NEW j \in (i+1)..Len(watch'), watch'[j].name = n PROVE NotNewer(u, g, watch'[j].obj)
        <4>1. CASE j <= Len(watch)
          BY <1>1, <3>2, <3>4, <4>1
        <4>2. CASE j > Len(watch)
          BY <1>1, <1>4, <3>1, <3>2, <3>4, <4>2
        <4> QED BY <4>1, <4>2, <1>1
      <3> QED BY <1>2, <3>1, <3>2, <3>3, <3>4 DEF u, g, n
    <2>2. CASE i > Len(watch)
      <3>1. watch'[i].obj = o /\ watch'[i].name = d
        BY <1>1, <2>2
      <3>2. \A j \in (i+1)..Len(watch') : watch'[j].obj = o
        BY <1>1, <2>2
      <3>3. NotNewer(o.uid, o.gen, o)
        BY <1>3 DEF NotNewer
      <3> QED BY <1>1, <1>5, <1>8, <3>1, <3>2, <3>3
    <2> QED BY <2>1, <2>2, <1>1
  <1>9. InOrder'
    BY <1>8 DEF InOrder, NotNewer, Exists
  <1> QED BY <1>6, <1>7, <1>9

\* The worker holds no other object that it may render than before.
SameRendering ==
    pc' \in {"check", "apply"} =>
        pc \in {"check", "apply"} /\ cur' = cur /\ obj'.uid = obj.uid /\ obj'.gen = obj.gen

LEMMA NumbersAreNat ==
  ASSUME TypeOK
  PROVE  /\ nextUid \in Nat
         /\ \A d \in Defs : /\ defs[d].uid \in Nat /\ defs[d].gen \in Nat
                           /\ cache[d].uid \in Nat /\ cache[d].gen \in Nat
                           /\ cms[d].owner \in Nat /\ cms[d].gen \in Nat
         /\ obj.uid \in Nat /\ obj.gen \in Nat
         /\ pc \in {"check", "apply"} => cur \in Defs
  BY DEF TypeOK, Object, Absent, ConfigMap, NoConfigMap

LEMMA StoreKeepsForward ==
  ASSUME TypeOK, ForwardInv, NEW d \in Defs, NEW o \in Stored, StoreDef(d, o), UNCHANGED <<cache, cms>>,
         SameRendering,
         \/ nextUid' = nextUid /\ ~Exists(o)
         \/ nextUid' = nextUid /\ Exists(defs[d]) /\ o.uid = defs[d].uid /\ o.gen >= defs[d].gen
         \/ nextUid' = nextUid + 1 /\ o.uid = nextUid
  PROVE  ForwardInv'
  <1>1. /\ InOrder'
        /\ \A e \in Defs : Exists(defs'[e]) => defs'[e].uid < nextUid'
        /\ \A e \in Defs : \A u, g \in Nat : u < nextUid /\ Behind(u, g, e) => u < nextUid' /\ Behind(u, g, e)'
    BY StoreForward
  <1>2. \A e \in Defs : Exists(cache'[e]) => cache'[e].uid < nextUid' /\ Behind(cache[e].uid, cache[e].gen, e)'
    BY <1>1, NumbersAreNat DEF ForwardInv, Exists
  <1>3. \A e \in Defs : cms'[e] # NoConfigMap => cms'[e].owner < nextUid' /\ Behind(cms[e].owner, cms[e].gen, e)'
    BY <1>1, NumbersAreNat DEF ForwardInv
  <1>4. ASSUME pc' \in {"check", "apply"}
        PROVE  /\ obj'.uid < nextUid' /\ Behind(obj.uid, obj.gen, cur)'
               /\ cms'[cur'] # NoConfigMap => NotNewer(cms'[cur'].owner, cms'[cur'].gen, obj')
    <2>1. pc \in {"check", "apply"} /\ cur' = cur /\ obj'.uid = obj.uid /\ obj'.gen = obj.gen
      BY <1>4 DEF SameRendering
    <2>2. /\ obj.uid < nextUid /\ Behind(obj.uid, obj.gen, cur)
          /\ cms[cur] # NoConfigMap => NotNewer(cms[cur].owner, cms[cur].gen, obj)
      BY <2>1 DEF ForwardInv
    <2>3. obj.uid < nextUid' /\ Behind(obj.uid, obj.gen, cur)'
      <3>1. PICK u \in Nat, g \in Nat, e \in Defs : u = obj.uid /\ g = obj.gen /\ e = cur
        BY <2>1, NumbersAreNat
      <3>2. u < nextUid' /\ Behind(u, g, e)'
        BY <1>1, <2>2, <3>1
      <3> QED BY <2>1, <3>1, <3>2 DEF Behind
    <2> QED BY <2>1, <2>2, <2>3 DEF NotNewer, Exists
  <1> QED BY <1>1, <1>2, <1>3, <1>4 DEF ForwardInv, Exists, NotNewer

LEMMA FrameKeepsForward ==
  ASSUME TypeOK, ForwardInv, UNCHANGED <<defs, watch, cache, nextUid>>, SameRendering,
         \A d \in Defs : cms'[d] \in {cms[d], NoConfigMap}
  PROVE  ForwardInv'
  <1>1. InOrder'
    BY DEF ForwardInv, InOrder, NotNewer, Exists
  <1>2. \A u, g, e : Behind(u, g, e)' <=> Behind(u, g, e)
    BY DEF Behind, NotNewer, Exists
  <1>3. \A e \in Defs : cms'[e] # NoConfigMap => cms'[e].owner < nextUid' /\ Behind(cms'[e].owner, cms'[e].gen, e)
    BY DEF ForwardInv
  <1>4. ASSUME pc' \in {"check", "apply"}
        PROVE  /\ obj'.uid < nextUid' /\ Behind(obj'.uid, obj'.gen, cur')
               /\ cms'[cur'] # NoConfigMap => NotNewer(cms'[cur'].owner, cms'[cur'].gen, obj')
    <2>1. pc \in {"check", "apply"} /\ cur' = cur /\ obj'.uid = obj.uid /\ obj'.gen = obj.gen
      BY <1>4 DEF SameRendering
    <2>2. /\ obj.uid < nextUid /\ Behind(obj.uid, obj.gen, cur) /\ cur \in Defs
          /\ cms[cur] # NoConfigMap => NotNewer(cms[cur].owner, cms[cur].gen, obj)
      BY <2>1, NumbersAreNat DEF ForwardInv
    <2> QED BY <2>1, <2>2 DEF NotNewer, Exists
  <1> QED BY <1>1, <1>2, <1>3, <1>4 DEF ForwardInv, Exists, NotNewer

\* What the stream delivers is in front of the rest of it.
LEMMA DeliverForward ==
  ASSUME TypeOK, ForwardInv, DeliverDefinition
  PROVE  ForwardInv'
  <1>1. watch \in Seq(Change) /\ watch # <<>>
    BY DEF DeliverDefinition, TypeOK, Stored, Change
  <1>h. PICK h \in Change : h = Head(watch)
    BY <1>1, HeadTailProperties
  <1>2. /\ h = watch[1] /\ 1 \in 1..Len(watch)
        /\ Len(watch) \in Nat /\ Len(Tail(watch)) = Len(watch) - 1
        /\ \A i \in 1..Len(Tail(watch)) : Tail(watch)[i] = watch[i+1]
    BY <1>1, <1>h, HeadTailProperties
  <1>3. /\ cache' = [cache EXCEPT ![h.name] = h.obj] /\ watch' = Tail(watch)
        /\ UNCHANGED <<defs, cms, nextUid, pc, cur, obj>>
    BY <1>h DEF DeliverDefinition, workerVars
  <1>4. h.name \in Defs /\ h.obj \in Stored /\ h.obj.uid \in Nat /\ h.obj.gen \in Nat
    BY DEF Change, Stored, Object, Absent
  <1>5. \A e \in Defs : cache'[e] = IF e = h.name THEN h.obj ELSE cache[e]
    BY <1>3, <1>4 DEF TypeOK
  <1>6. \A i \in 1..Len(watch') : i+1 \in 2..Len(watch) /\ i+1 \in 1..Len(watch) /\ watch'[i] = watch[i+1]
    BY <1>2, <1>3
  <1>7. \A u, g : \A e \in Defs : Behind(u, g, e) => Behind(u, g, e)'
    <2> SUFFICES ASSUME NEW u, NEW g, NEW e \in Defs, Behind(u, g, e) PROVE Behind(u, g, e)'
      OBVIOUS
    <2>1. NotNewer(u, g, cache'[e])
      BY <1>2, <1>5 DEF Behind
    <2>2. \A i \in 1..Len(watch') : watch'[i].name = e => NotNewer(u, g, watch'[i].obj)
      BY <1>6 DEF Behind
    <2> QED BY <1>3, <2>1, <2>2 DEF Behind, NotNewer, Exists
  <1>8. InOrder'
    <2> SUFFICES ASSUME NEW i \in 1..Len(watch'), Exists(watch'[i].obj)
                 PROVE  /\ watch'[i].obj.uid < nextUid
                        /\ NotNewer(watch'[i].obj.uid, watch'[i].obj.gen, defs[watch'[i].name])
                        /\ \A j \in (i+1)..Len(watch') : watch'[j].name = watch'[i].name =>
                               NotNewer(watch'[i].obj.uid, watch'[i].obj.gen, watch'[j].obj)
      BY <1>3 DEF InOrder, NotNewer, Exists
    <2>1. i+1 \in 1..Len(watch) /\ watch'[i] = watch[i+1]
      BY <1>6
    <2>2. /\ watch[i+1].obj.uid < nextUid
          /\ NotNewer(watch[i+1].obj.uid, watch[i+1].obj.gen, defs[watch[i+1].name])
          /\ \A j \in (i+2)..Len(watch) : watch[j].name = watch[i+1].name =>
                 NotNewer(watch[i+1].obj.uid, watch[i+1].obj.gen, watch[j].obj)
      BY <2>1 DEF ForwardInv, InOrder
    <2>3. \A j \in (i+1)..Len(watch') : j+1 \in (i+2)..Len(watch) /\ watch'[j] = watch[j+1]
      BY <1>2, <1>3, <1>6
    <2> QED BY <2>1, <2>2, <2>3
  <1>9. ASSUME Exists(h.obj)
        PROVE  h.obj.uid < nextUid /\ Behind(h.obj.uid, h.obj.gen, h.name)'
    <2>1. /\ h.obj.uid < nextUid /\ NotNewer(h.obj.uid, h.obj.gen, defs[h.name])
          /\ \A j \in 2..Len(watch) : watch[j].name = h.name => NotNewer(h.obj.uid, h.obj.gen, watch[j].obj)
      BY <1>2, <1>9 DEF ForwardInv, InOrder
    <2>2. \A i \in 1..Len(watch') : watch'[i].name = h.name => NotNewer(h.obj.uid, h.obj.gen, watch'[i].obj)
      BY <1>6, <2>1
    <2>3. NotNewer(h.obj.uid, h.obj.gen, h.obj)
      BY <1>4 DEF NotNewer
    <2> QED BY <1>3, <1>4, <1>5, <2>1, <2>2, <2>3 DEF Behind, NotNewer, Exists
  <1>10. \A e \in Defs : Exists(cache'[e]) => cache'[e].uid < nextUid /\ Behind(cache[e].uid, cache[e].gen, e)'
    <2> SUFFICES ASSUME NEW e \in Defs, Exists(cache'[e])
                 PROVE  cache'[e].uid < nextUid /\ Behind(cache[e].uid, cache[e].gen, e)'
      OBVIOUS
    <2>1. CASE e = h.name
      BY <1>5, <1>9, <2>1
    <2>2. CASE e # h.name
      BY <1>5, <1>7, <2>2 DEF ForwardInv
    <2> QED BY <2>1, <2>2
  <1>11. \A e \in Defs : cms[e] # NoConfigMap => cms[e].owner < nextUid /\ Behind(cms[e].owner, cms[e].gen, e)'
    BY <1>3, <1>7 DEF ForwardInv
  <1>12. ASSUME pc \in {"check", "apply"} PROVE obj.uid < nextUid /\ Behind(obj.uid, obj.gen, cur)'
    <2>1. PICK u \in Nat, g \in Nat, e \in Defs : u = obj.uid /\ g = obj.gen /\ e = cur
      BY <1>12, NumbersAreNat
    <2>2. Behind(u, g, e)'
      BY <1>7, <1>12, <2>1 DEF ForwardInv
    <2> QED BY <1>3, <1>12, <2>1, <2>2 DEF ForwardInv, Behind
  <1> QED BY <1>3, <1>8, <1>10, <1>11, <1>12 DEF ForwardInv, Exists, NotNewer

LEMMA UserForward ==
  ASSUME TypeOK, ForwardInv, NEW d \in Defs, UserStep(d) \/ CollectConfigMap(d)
  PROVE  ForwardInv'
  <1> USE DefinitionConstants
  <1>0. \A x \in Stored : Exists(x) => x.uid \in Nat /\ x.gen \in Nat /\ x \in Object
    BY ExistsIsObject DEF Object
  <1>1. CASE /\ UNCHANGED <<defs, watch, cache, nextUid, pc, cur, obj>>
             /\ \A e \in Defs : cms'[e] \in {cms[e], NoConfigMap}
    BY <1>1, FrameKeepsForward DEF SameRendering
  <1>2. ASSUME NEW b \in Bindings[d], NEW flow \in FlowsOf(b), Update(d, b[1], flow) PROVE ForwardInv'
    <2> DEFINE o == Edited(defs[d], defs[d].gen + 1, b[1], flow)
    <2>1. b[1] \in Runtimes /\ flow \in Flow /\ Exists(defs[d])
      BY <1>2 DEF FlowsOf, Flow, Update
    <2>2. defs[d] \in Object /\ defs[d].gen \in Nat
      BY <1>0, <2>1 DEF TypeOK, Stored
    <2>5. defs[d].gen + 1 \in Nat
      BY <2>2
    <2>6. o \in Object
      BY <2>1, <2>2, <2>5, EditedType
    <2>7. o.uid = defs[d].uid /\ o.gen = defs[d].gen + 1
      BY <2>2 DEF Edited, Object
    <2>3. o \in Object /\ o.uid = defs[d].uid /\ o.gen = defs[d].gen + 1
      BY <2>6, <2>7
    <2>4. StoreDef(d, o) /\ UNCHANGED <<cache, cms, nextUid, pc, cur, obj>>
      BY <1>2 DEF Update, cacheVars, workerVars
    <2> HIDE DEF o
    <2> QED BY <2>1, <2>2, <2>3, <2>4, StoreKeepsForward DEF SameRendering, Stored
  <1>3. CASE Create(d) /\ ~Exists(defs[d])
    <2> DEFINE o == NewObject(nextUid, review[d].rt, review[d].flow)
    <2>1. review[d] \in Requests
      BY <1>3 DEF Create, TypeOK
    <2>2. o \in Object /\ o.uid = nextUid
      BY <2>1, NewObjectType DEF TypeOK, Requests, NewObject
    <2>3. StoreDef(d, o) /\ nextUid' = nextUid + 1 /\ UNCHANGED <<cache, cms, pc, cur, obj>>
      BY <1>3 DEF Create, cacheVars, workerVars
    <2> HIDE DEF o
    <2> QED BY <2>2, <2>3, StoreKeepsForward DEF SameRendering, Stored
  <1>4. CASE Delete(d)
    <2>1. StoreDef(d, Absent) /\ ~Exists(Absent) /\ UNCHANGED <<cache, cms, nextUid, pc, cur, obj>>
      BY <1>4 DEF Delete, cacheVars, workerVars, Exists, Absent
    <2> QED BY <2>1, StoreKeepsForward DEF SameRendering, Stored
  <1>5. CASE DeleteConfigMap(d) \/ CollectConfigMap(d)
    <2>1. cms' = [cms EXCEPT ![d] = NoConfigMap] /\ UNCHANGED <<defs, watch, cache, nextUid, pc, cur, obj>>
      BY <1>5 DEF DeleteConfigMap, CollectConfigMap, StoreConfigMap, cacheVars, workerVars
    <2> QED BY <1>1, <2>1 DEF TypeOK
  <1>6. \A rt, flow : ValidateCreate(d, rt, flow) => UNCHANGED <<defs, watch, cache, nextUid, pc, cur, obj, cms>>
    BY DEF ValidateCreate, cacheVars, workerVars
  <1>7. Create(d) /\ Exists(defs[d]) => UNCHANGED <<defs, watch, cache, nextUid, pc, cur, obj, cms>>
    BY DEF Create, cacheVars, workerVars
  <1> QED BY <1>1, <1>2, <1>3, <1>4, <1>5, <1>6, <1>7 DEF UserStep

LEMMA ReconcileForward ==
  ASSUME TypeOK, ForwardInv, Reconcile
  PROVE  /\ ForwardInv'
         /\ \A d \in Defs : cms'[d] # cms[d] => d = cur /\ NotNewer(cms[d].owner, cms[d].gen, obj)
                                               /\ cms'[d].owner = obj.uid /\ cms'[d].gen = obj.gen
                                               /\ Exists(obj)
  <1>1. CASE UNCHANGED <<defs, watch, cache, nextUid, cms>> /\ SameRendering
    BY <1>1, FrameKeepsForward
  <1>2. ASSUME NEW d \in Defs, Begin(d), Exists(cache[d]) PROVE ForwardInv'
    <2>1. /\ UNCHANGED <<defs, watch, cache, nextUid, cms>> /\ cur' = d
          /\ obj'.uid = cache[d].uid /\ obj'.gen = cache[d].gen
      <3>1. cache[d] \in Object
        BY <1>2, ExistsIsObject DEF TypeOK, Stored
      <3> QED BY <1>2, <3>1 DEF Begin, apiVars, cacheVars, Object
    <2>2. /\ cache[d].uid < nextUid /\ Behind(cache[d].uid, cache[d].gen, d)
          /\ cms[d] # NoConfigMap => NotNewer(cms[d].owner, cms[d].gen, cache[d])
      BY <1>2 DEF ForwardInv, Behind
    <2>3. \A u, g, e : Behind(u, g, e)' <=> Behind(u, g, e)
      BY <2>1 DEF Behind, NotNewer, Exists
    <2>4. InOrder'
      BY <2>1 DEF ForwardInv, InOrder, NotNewer, Exists
    <2>5. NotNewer(cms[d].owner, cms[d].gen, obj') <=> NotNewer(cms[d].owner, cms[d].gen, cache[d])
      BY <2>1 DEF NotNewer, Exists
    <2> QED BY <2>1, <2>2, <2>3, <2>4, <2>5 DEF ForwardInv, NotNewer, Exists
  <1>3. CASE PatchLabels
    <2> DEFINE o == [defs[cur] EXCEPT !.labels = MergePatch(@, obj.labels, FlowIDLabels(obj))]
    <2>1. cur \in Defs /\ defs[cur] \in Object /\ obj \in Object /\ Exists(defs[cur])
      BY <1>3, ExistsIsObject DEF PatchLabels, TypeOK, Stored
    <2>2. MergePatch(defs[cur].labels, obj.labels, FlowIDLabels(obj)) \in Labels
      BY <2>1, FlowIDLabelsType, MergePatchType DEF Object
    <2>3. o \in Object /\ o.uid = defs[cur].uid /\ o.gen = defs[cur].gen /\ o.gen \in Nat
      BY <2>1, <2>2 DEF Object
    <2>4. StoreDef(cur, o) /\ pc' = "status" /\ UNCHANGED <<cache, cms, nextUid>>
      BY <1>3 DEF PatchLabels, cacheVars
    <2> HIDE DEF o
    <2> QED BY <2>1, <2>3, <2>4, StoreKeepsForward DEF SameRendering, Stored
  <1>4. CASE ApplyConfigMap
    <2>1. /\ cur \in Defs /\ obj \in Object /\ pc = "apply" /\ pc' = "runtime" /\ Exists(obj)
          /\ UNCHANGED <<defs, watch, cache, nextUid>> /\ cms' = [cms EXCEPT ![cur] = Rendered(obj)]
      BY <1>4, ExistsIsObject DEF ApplyConfigMap, StoreConfigMap, cacheVars, TypeOK, Stored
    <2>2. /\ cms'[cur].owner = obj.uid /\ cms'[cur].gen = obj.gen
          /\ \A e \in Defs \ {cur} : cms'[e] = cms[e]
      BY <2>1 DEF Rendered, TypeOK
    <2>3. \A u, g, e : Behind(u, g, e)' <=> Behind(u, g, e)
      BY <2>1 DEF Behind, NotNewer, Exists
    <2>4. InOrder'
      BY <2>1 DEF ForwardInv, InOrder, NotNewer, Exists
    <2>5. obj.uid < nextUid /\ Behind(obj.uid, obj.gen, cur)
      BY <2>1 DEF ForwardInv
    <2>6. \A e \in Defs : cms'[e] # NoConfigMap => cms'[e].owner < nextUid /\ Behind(cms'[e].owner, cms'[e].gen, e)
      BY <2>1, <2>2, <2>5 DEF ForwardInv
    <2>7. ForwardInv'
      BY <2>1, <2>3, <2>4, <2>6 DEF ForwardInv, Exists
    <2>8. cms[cur] # NoConfigMap => NotNewer(cms[cur].owner, cms[cur].gen, obj)
      BY <2>1 DEF ForwardInv
    <2>9. cms[cur] = NoConfigMap => NotNewer(cms[cur].owner, cms[cur].gen, obj)
      BY <2>1 DEF NotNewer, NoConfigMap, Exists, Object
    <2> QED BY <2>1, <2>2, <2>7, <2>8, <2>9
  <1>5. CASE WriteStatus
    <2> DEFINE o == [cache[cur] EXCEPT !.conds = obj.conds, !.og = obj.og]
    <2>1. /\ cur \in Defs /\ obj \in Object /\ cache[cur] \in Object /\ Exists(cache[cur])
          /\ cache[cur] = defs[cur] /\ StoreDef(cur, o) /\ pc' = "idle" /\ UNCHANGED <<cache, cms, nextUid>>
      BY <1>5, ExistsIsObject DEF WriteStatus, Finish, cacheVars, TypeOK, Stored
    <2>2. o \in Object /\ o.uid = defs[cur].uid /\ o.gen = defs[cur].gen /\ o.gen \in Nat
      BY <2>1 DEF Object
    <2> HIDE DEF o
    <2> QED BY <2>1, <2>2, StoreKeepsForward DEF SameRendering, Stored
  <1>6. CheckRuntimeConsistency => UNCHANGED <<defs, watch, cache, nextUid, cms>> /\ SameRendering
    <2> SUFFICES ASSUME CheckRuntimeConsistency
                 PROVE  UNCHANGED <<defs, watch, cache, nextUid, cms>> /\ SameRendering
      OBVIOUS
    <2>1. obj \in Object /\ pc = "check" /\ cur' = cur
      BY ExistsIsObject DEF CheckRuntimeConsistency, TypeOK, Stored
    <2> QED BY <2>1 DEF CheckRuntimeConsistency, SameRendering, apiVars, cacheVars, Object
  <1>7. PatchLabelsFails \/ WriteStatusFails \/ ApplyConfigMapFails \/ GetRuntime =>
          UNCHANGED <<defs, watch, cache, nextUid, cms>> /\ SameRendering
    BY DEF PatchLabelsFails, WriteStatusFails, ApplyConfigMapFails, GetRuntime, Fail, Finish, SameRendering,
           apiVars, cacheVars
  <1>8. \A d \in Defs : Begin(d) /\ ~Exists(cache[d]) => UNCHANGED <<defs, watch, cache, nextUid, cms>> /\ SameRendering
    BY DEF Begin, SameRendering, apiVars, cacheVars, workerVars
  <1>9. \A d \in Defs : Begin(d) => UNCHANGED cms
    BY DEF Begin, apiVars
  <1>10. PatchLabels \/ WriteStatus => UNCHANGED cms
    BY DEF PatchLabels, WriteStatus
  <1> QED BY <1>1, <1>2, <1>3, <1>4, <1>5, <1>6, <1>7, <1>8, <1>9, <1>10 DEF Reconcile

LEMMA RestartForward ==
  ASSUME TypeOK, ForwardInv, Restart
  PROVE  ForwardInv'
  <1>1. /\ cache' = defs /\ watch' = <<>> /\ pc' = "idle" /\ UNCHANGED <<defs, cms, nextUid>> /\ Len(watch') = 0
    BY DEF Restart, Finish
  <1>2. \A u, g, e : Behind(u, g, e) => Behind(u, g, e)'
    BY <1>1 DEF Behind, NotNewer, Exists
  <1>3. \A e \in Defs : Exists(defs[e]) => defs[e].uid < nextUid /\ Behind(defs[e].uid, defs[e].gen, e)'
    BY <1>1, NumbersAreNat DEF ForwardInv, Behind, NotNewer, Exists
  <1>4. \A e \in Defs : cms[e] # NoConfigMap => cms[e].owner < nextUid /\ Behind(cms[e].owner, cms[e].gen, e)'
    BY <1>1, <1>2 DEF ForwardInv
  <1>5. InOrder'
    BY <1>1 DEF InOrder
  <1>6. \A e \in Defs : Exists(cache'[e]) => cache'[e].uid < nextUid' /\ Behind(cache[e].uid, cache[e].gen, e)'
    BY <1>1, <1>3 DEF Exists
  <1> QED BY <1>1, <1>3, <1>4, <1>5, <1>6 DEF ForwardInv, Exists

\* A ConfigMap is never taken back, by no order of stale reads, failed calls,
\* recreated definitions and restarts.
THEOREM ConfigMapNeverGoesBack == Spec => ConfigMapMovesForward
  <1> DEFINE Forward == \A d \in Defs : cms[d] # NoConfigMap /\ cms'[d] # NoConfigMap =>
                          \/ cms'[d].owner > cms[d].owner
                          \/ cms'[d].owner = cms[d].owner /\ cms'[d].gen >= cms[d].gen
  <1>1. Init => ForwardInv
    <2> SUFFICES ASSUME Init PROVE ForwardInv
      OBVIOUS
    <2>1. /\ \A d \in Defs : ~Exists(defs[d]) /\ ~Exists(cache[d]) /\ cms[d] = NoConfigMap
          /\ Len(watch) = 0 /\ pc = "idle"
      BY DEF Init, Exists, Absent
    <2> QED BY <2>1 DEF ForwardInv, InOrder
  <1>2. TypeOK /\ ForwardInv /\ [Next]_vars => ForwardInv' /\ [Forward]_cms
    <2> SUFFICES ASSUME TypeOK, ForwardInv, [Next]_vars PROVE ForwardInv' /\ (Forward \/ cms' = cms)
      OBVIOUS
    <2>1. ASSUME NEW d \in Defs, UserStep(d) \/ CollectConfigMap(d) PROVE ForwardInv' /\ (Forward \/ cms' = cms)
      <3>1. \A e \in Defs : cms'[e] \in {cms[e], NoConfigMap}
        BY <2>1 DEF UserStep, ValidateCreate, Create, Update, Delete, DeleteConfigMap, CollectConfigMap,
                    StoreConfigMap, TypeOK
      <3> QED BY <2>1, <3>1, UserForward, NumbersAreNat
    <2>2. CASE Reconcile
      <3>1. ForwardInv'
        BY <2>2, ReconcileForward
      <3>2. Forward
        <4> SUFFICES ASSUME NEW d \in Defs, cms[d] # NoConfigMap, cms'[d] # NoConfigMap
                     PROVE  \/ cms'[d].owner > cms[d].owner
                            \/ cms'[d].owner = cms[d].owner /\ cms'[d].gen >= cms[d].gen
          OBVIOUS
        <4>1. cms'[d] # cms[d] => /\ NotNewer(cms[d].owner, cms[d].gen, obj) /\ Exists(obj)
                                  /\ cms'[d].owner = obj.uid /\ cms'[d].gen = obj.gen
          BY <2>2, ReconcileForward
        <4> QED BY <4>1, NumbersAreNat DEF NotNewer
      <3> QED BY <3>1, <3>2
    <2>3. CASE DeliverDefinition
      BY <2>3, DeliverForward DEF DeliverDefinition
    <2>4. CASE Restart
      BY <2>4, RestartForward DEF Restart
    <2>5. CASE \/ \E r \in Runtimes : DeliverRuntime(r) \/ ToggleRuntime(r)
               \/ Resync \/ UNCHANGED vars
      <3>1. UNCHANGED <<defs, watch, cache, nextUid, pc, cur, obj, cms>>
        BY <2>5 DEF DeliverRuntime, ToggleRuntime, Resync, vars, apiVars, cacheVars, workerVars
      <3> QED BY <3>1, FrameKeepsForward DEF SameRendering
    <2> QED BY <2>1, <2>2, <2>3, <2>4, <2>5, DefinitionConstants DEF Next, Trigger
  <1> QED BY <1>1, <1>2, TypeCorrect, PTL DEF Spec, ConfigMapMovesForward

-----------------------------------------------------------------------------
(* What the controller never sleeps on                                     *)

\* A Reconcile of d is due, or an event that leads to one is on its way.
Pending(d) ==
    \/ d \in queue \/ cache[d] # defs[d]
    \/ \E i \in 1..Len(watch) : watch[i].name = d

SomeFalse(o) == \E t \in CondTypes : IsFalse(o.conds[t])

\* What d reports is true of its ConfigMap.
Honest(d) ==
    Exists(defs[d]) =>
        /\ Materialised(d) \/ SomeFalse(defs[d])
        /\ (\A t \in CondTypes : defs[d].conds[t].st = "True") => defs[d].og = defs[d].gen

\* The in-memory object has a False condition that the steps to come do not overwrite.
Told == \E t \in CondTypes \ {"RuntimeRefValid"} : IsFalse(obj.conds[t])

\* The worker will ask for a retry, or what it is going to write is true: it
\* has rendered the cached object or found a reason not to.
WorkerHonest ==
    \/ after = "later" \/ pc = "label"
    \/ /\ Rendered(obj) = Rendered(cache[cur])
       /\ pc = "runtime" => Told \/ cms[cur] = Rendered(obj)
       /\ pc = "status"  => Told \/ (cms[cur] = Rendered(obj) /\ obj.og = obj.gen)

HonestInv ==
    /\ pc = "idle" => cur = Nil
    /\ after = "later" => pc = "status"
    /\ \A d \in Defs : Pending(d) \/ (IF cur = d THEN WorkerHonest ELSE Honest(d))

-----------------------------------------------------------------------------
\* A write to the store takes nothing off the stream and announces a change.
LEMMA StorePending ==
  ASSUME TypeOK, NEW d \in Defs, NEW o \in Stored, StoreDef(d, o), UNCHANGED cache, queue \subseteq queue'
  PROVE  /\ \A e \in Defs : Pending(e) => Pending(e)'
         /\ o # defs[d] => Pending(d)'
         /\ defs'[d] = o /\ \A e \in Defs \ {d} : defs'[e] = defs[e]
  <1>1. /\ defs'[d] = o
        /\ \A e \in Defs \ {d} : defs'[e] = defs[e]
        /\ Len(watch) \in Nat /\ Len(watch') \in Nat /\ Len(watch) <= Len(watch')
        /\ \A i \in 1..Len(watch) : watch'[i] = watch[i] /\ watch[i] \in Change
        /\ \A i \in 1..Len(watch') : i > Len(watch) => watch'[i] = [name |-> d, obj |-> o]
    BY StoreDefEffect
  <1>2. o # defs[d] => Pending(d)'
    <2> SUFFICES ASSUME o # defs[d] PROVE \E i \in 1..Len(watch') : watch'[i].name = d
      BY DEF Pending
    <2> DEFINE c == [name |-> d, obj |-> o]
    <2>1. watch' = Append(watch, c) /\ watch \in Seq(Change) /\ c \in Change
      BY DEF StoreDef, TypeOK, Stored, Change
    <2> HIDE DEF c
    <2>2. Len(watch') = Len(watch) + 1
      BY <2>1, AppendProperties
    <2>3. Len(watch') \in 1..Len(watch') /\ watch'[Len(watch')].name = d
      BY <1>1, <2>2
    <2> QED BY <2>3
  <1>3. ASSUME NEW e \in Defs, Pending(e) PROVE Pending(e)'
    <2>1. CASE e \in queue \/ \E i \in 1..Len(watch) : watch[i].name = e
      BY <1>1, <2>1 DEF Pending
    <2>2. CASE cache[e] # defs[e] /\ defs'[e] = defs[e]
      BY <2>2 DEF Pending
    <2>3. CASE defs'[e] # defs[e]
      BY <1>1, <1>2, <2>3
    <2> QED BY <1>3, <2>1, <2>2, <2>3 DEF Pending
  <1> QED BY <1>1, <1>2, <1>3

\* Whatever leaves the worker alone and announces what it changes.
LEMMA KeepsHonest ==
  ASSUME TypeOK, HonestInv, UNCHANGED <<pc, cur, obj, after>>,
         \A e \in Defs : Pending(e) => Pending(e)',
         \A e \in Defs : Pending(e)' \/ (defs'[e] = defs[e] /\ cms'[e] = cms[e] /\ cache'[e] = cache[e])
  PROVE  HonestInv'
  <1> SUFFICES ASSUME NEW e \in Defs, ~Pending(e)'
               PROVE  IF cur = e THEN WorkerHonest' ELSE Honest(e)'
    BY DEF HonestInv
  <1>1. defs'[e] = defs[e] /\ cms'[e] = cms[e] /\ cache'[e] = cache[e] /\ ~Pending(e)
    OBVIOUS
  <1>2. CASE cur = e
    <2>1. WorkerHonest
      BY <1>1, <1>2 DEF HonestInv
    <2> QED BY <1>1, <1>2, <2>1 DEF WorkerHonest, Told
  <1>3. CASE cur # e
    <2>1. Honest(e)
      BY <1>1, <1>3 DEF HonestInv
    <2> QED BY <1>1, <1>3, <2>1 DEF Honest, Materialised, SomeFalse, Exists
  <1> QED BY <1>2, <1>3

LEMMA DeliverHonest ==
  ASSUME TypeOK, HonestInv, DeliverDefinition
  PROVE  HonestInv'
  <1>0. watch \in Seq(Change) /\ watch # <<>>
    BY DEF DeliverDefinition, TypeOK, Stored, Change
  <1>1. PICK n \in Defs : n = Head(watch).name
    <2>1. Head(watch) \in Change
      BY <1>0, HeadTailProperties
    <2> QED BY <2>1 DEF Change
  <1>2. /\ watch \in Seq(Change) /\ watch # <<>> /\ n = watch[1].name /\ watch' = Tail(watch)
        /\ cache' = [cache EXCEPT ![n] = Head(watch).obj] /\ queue' = queue \cup {n}
        /\ UNCHANGED <<defs, cms, pc, cur, obj, after>>
    BY <1>1 DEF DeliverDefinition, TypeOK, Stored, Change, workerVars
  <1>3. /\ Len(watch) \in Nat /\ Len(watch') = Len(watch) - 1
        /\ \A i \in 1..Len(watch') : watch'[i] = watch[i+1]
    BY <1>2, HeadTailProperties
  <1>4. ASSUME NEW e \in Defs, e # n, NEW i \in 1..Len(watch), watch[i].name = e PROVE Pending(e)'
    <2>1. i # 1 /\ i-1 \in 1..Len(watch') /\ watch'[i-1] = watch[i]
      BY <1>2, <1>3, <1>4
    <2> QED BY <1>4, <2>1 DEF Pending
  <1>5. \A e \in Defs : e # n /\ (e \in queue \/ cache[e] # defs[e]) => Pending(e)'
    BY <1>2 DEF Pending, TypeOK
  <1>6. Pending(n)'
    BY <1>2 DEF Pending
  <1>7. \A e \in Defs : Pending(e) => Pending(e)'
    BY <1>4, <1>5, <1>6 DEF Pending
  <1>8. \A e \in Defs : e # n => defs'[e] = defs[e] /\ cms'[e] = cms[e] /\ cache'[e] = cache[e]
    BY <1>2 DEF TypeOK
  <1> QED BY <1>2, <1>6, <1>7, <1>8, KeepsHonest

LEMMA UserHonest ==
  ASSUME TypeOK, HonestInv, NEW d \in Defs, UserStep(d) \/ CollectConfigMap(d)
  PROVE  HonestInv'
  <1> USE DefinitionConstants
  <1>1. ASSUME NEW o \in Stored, StoreDef(d, o), UNCHANGED <<cache, cms, queue, workerVars>> PROVE HonestInv'
    BY <1>1, StorePending, KeepsHonest DEF workerVars
  <1>2. ASSUME NEW b \in Bindings[d], NEW flow \in FlowsOf(b), ValidateCreate(d, b[1], flow) PROVE HonestInv'
    BY <1>2, KeepsHonest DEF ValidateCreate, Pending, cacheVars, workerVars
  <1>3. ASSUME NEW b \in Bindings[d], NEW flow \in FlowsOf(b), Update(d, b[1], flow) PROVE HonestInv'
    <2>1. b[1] \in Runtimes /\ flow \in Flow
      BY DEF FlowsOf, Flow
    <2>2. defs[d] \in Object
      BY <1>3, ExistsIsObject DEF Update, TypeOK, Stored
    <2>3. defs[d].gen + 1 \in Nat
      BY <2>2 DEF Object
    <2>4. Edited(defs[d], defs[d].gen + 1, b[1], flow) \in Stored
      BY <2>1, <2>2, <2>3, EditedType DEF Stored
    <2> QED BY <1>1, <1>3, <2>4 DEF Update, cacheVars
  <1>4. CASE Create(d) /\ ~Exists(defs[d])
    <2>1. review[d] \in Requests
      BY <1>4 DEF Create, TypeOK
    <2>2. NewObject(nextUid, review[d].rt, review[d].flow) \in Stored
      BY <2>1, NewObjectType DEF TypeOK, Requests, Stored
    <2> QED BY <1>1, <1>4, <2>2 DEF Create, cacheVars
  <1>5. CASE Create(d) /\ Exists(defs[d])
    BY <1>5, KeepsHonest DEF Create, Pending, cacheVars, workerVars
  <1>6. CASE Delete(d)
    BY <1>1, <1>6 DEF Delete, Stored, cacheVars
  <1>7. CASE DeleteConfigMap(d) \/ CollectConfigMap(d)
    <2>1. /\ StoreConfigMap(d, NoConfigMap)
          /\ UNCHANGED <<defs, watch, cache, pc, cur, obj, after>>
      BY <1>7 DEF DeleteConfigMap, CollectConfigMap, cacheVars, workerVars
    <2>2. /\ queue \subseteq queue' /\ (cms'[d] # cms[d] => d \in queue')
          /\ \A e \in Defs \ {d} : cms'[e] = cms[e]
      BY <2>1 DEF StoreConfigMap, TypeOK
    <2> QED BY <2>1, <2>2, KeepsHonest DEF Pending
  <1> QED BY <1>2, <1>3, <1>4, <1>5, <1>6, <1>7 DEF UserStep

LEMMA RestartHonest ==
  ASSUME TypeOK, HonestInv, Restart
  PROVE  HonestInv'
  <1>1. \A e \in Defs : e \in queue' \/ ~Exists(defs'[e])
    BY DEF Restart
  <1>2. pc' = "idle" /\ after' = "done" /\ cur' = Nil /\ \A e \in Defs : cur' # e
    BY DefinitionConstants DEF Restart, Finish
  <1> QED BY <1>1, <1>2 DEF HonestInv, Pending, Honest

LEMMA ReconcileHonest ==
  ASSUME TypeOK, HonestInv, Reconcile
  PROVE  HonestInv'
  <1> USE DefinitionConstants
  <1>0. PICK k \in Defs \cup {Nil} : k = cur
    BY DEF TypeOK
  <1>1. pc # "idle" => k \in Defs /\ cur \in Defs /\ obj \in Object
    BY <1>0, ExistsIsObject DEF TypeOK, Stored
  \* Other definitions than the one in hand.
  <1>2. ASSUME \A e \in Defs : Pending(e) => Pending(e)', pc # "idle", pc' = "idle" => cur' = Nil,
               after' = "later" => pc' = "status",
               \A e \in Defs \ {k} : defs'[e] = defs[e] /\ cms'[e] = cms[e] /\ cur' # e,
               Pending(k)' \/ (cur' = k /\ WorkerHonest') \/ (cur' # k /\ Honest(k)')
        PROVE  HonestInv'
    <2>1. ASSUME NEW e \in Defs \ {k} PROVE Pending(e)' \/ Honest(e)'
      <3>1. Pending(e) \/ Honest(e)
        BY <1>0, <2>1 DEF HonestInv
      <3> QED BY <1>2, <2>1, <3>1 DEF Honest, Materialised, SomeFalse, Exists
    <2>2. \A e \in Defs \ {k} : Pending(e)' \/ (cur' # e /\ Honest(e)')
      BY <1>2, <2>1
    <2>3. \A e \in Defs : Pending(e)' \/ (cur' = e /\ WorkerHonest') \/ (cur' # e /\ Honest(e)')
      BY <1>2, <2>2
    <2> QED BY <1>2, <2>3 DEF HonestInv
  <1>3. pc # "idle" => Pending(k) \/ WorkerHonest
    BY <1>0, <1>1 DEF HonestInv
  \* A step that only works on the in-memory object.
  <1>4. UNCHANGED <<defs, watch, cache>> /\ queue \subseteq queue' => \A e \in Defs : Pending(e) => Pending(e)'
    BY DEF Pending
  <1>5. ASSUME NEW d \in Defs, Begin(d) PROVE HonestInv'
    <2>1. /\ pc = "idle" /\ cur = Nil /\ queue' = queue \ {d}
          /\ UNCHANGED <<defs, watch, cache, cms>>
      BY <1>5 DEF Begin, HonestInv, apiVars, cacheVars
    <2>2. \A e \in Defs \ {d} : (Pending(e) => Pending(e)') /\ (Honest(e) => Honest(e)')
      BY <2>1 DEF Pending, Honest, Materialised, SomeFalse, Exists
    <2>3. \A e \in Defs \ {d} : Pending(e)' \/ Honest(e)'
      BY <2>1, <2>2 DEF HonestInv
    <2>4. CASE ~Exists(cache[d])
      <3>1. pc' = pc /\ cur' = cur /\ after' = after
        BY <1>5, <2>4 DEF Begin, workerVars
      <3>2. Pending(d)' \/ Honest(d)'
        BY <2>1, <2>4 DEF Pending, Honest, Exists
      <3> QED BY <2>1, <2>3, <3>1, <3>2 DEF HonestInv
    <2>5. CASE Exists(cache[d])
      <3>1. cache[d] \in Object
        BY <2>5, ExistsIsObject DEF TypeOK, Stored
      <3>2. /\ cur' = d /\ after' = "done" /\ pc' \in {"status", "label", "check"}
            /\ pc' = "status" => ~Parses(cache[d].flow)
            /\ obj' = [cache[d] EXCEPT !.conds = SetCondition(cache[d].conds, "FlowParsed",
                          IF Parses(cache[d].flow) THEN "True" ELSE "False", cache[d].gen)]
        BY <1>5, <2>5 DEF Begin
      <3>3. Rendered(obj') = Rendered(cache[d])
        BY <3>1, <3>2 DEF Rendered, Object
      <3>4. pc' = "status" => IsFalse(obj'.conds["FlowParsed"])
        BY <3>1, <3>2 DEF SetCondition, IsFalse, Object, CondTypes
      <3>5. WorkerHonest'
        BY <2>1, <3>2, <3>3, <3>4 DEF WorkerHonest, Told, CondTypes
      <3> QED BY <2>3, <3>2, <3>5 DEF HonestInv
    <2> QED BY <2>4, <2>5
  <1>6. CASE PatchLabels
    <2> DEFINE o == [defs[cur] EXCEPT !.labels = MergePatch(@, obj.labels, FlowIDLabels(obj))]
    <2>1. cur \in Defs /\ defs[cur] \in Object /\ obj \in Object
      BY <1>1, <1>6, ExistsIsObject DEF PatchLabels, TypeOK, Stored
    <2>2. MergePatch(defs[cur].labels, obj.labels, FlowIDLabels(obj)) \in Labels
      BY <2>1, FlowIDLabelsType, MergePatchType DEF Object
    <2>3. o \in Stored
      BY <2>1, <2>2 DEF Object, Stored
    <2>4. /\ StoreDef(cur, o) /\ after' = "later" /\ pc = "label" /\ pc' = "status"
          /\ UNCHANGED <<cache, cms, queue, cur>>
      BY <1>6 DEF PatchLabels, cacheVars
    <2> HIDE DEF o
    <2>5. (\A e \in Defs : Pending(e) => Pending(e)') /\ \A e \in Defs \ {cur} : defs'[e] = defs[e]
      BY <2>1, <2>3, <2>4, StorePending
    <2>6. WorkerHonest'
      BY <2>4 DEF WorkerHonest
    <2> QED BY <1>0, <1>1, <1>2, <2>1, <2>4, <2>5, <2>6
  <1>7. CASE PatchLabelsFails \/ WriteStatusFails
    <2>1. /\ pc # "idle" /\ pc' = "idle" /\ after' = "done" /\ cur' = Nil /\ queue' = queue \cup {cur}
          /\ UNCHANGED <<defs, watch, cache, cms>>
      BY <1>7 DEF PatchLabelsFails, WriteStatusFails, Fail, Finish, apiVars, cacheVars
    <2> QED BY <1>0, <1>1, <1>2, <1>4, <2>1 DEF Pending
  <1>8. CASE CheckRuntimeConsistency
    <2>1. /\ pc = "check" /\ pc' \in {"runtime", "apply"} /\ UNCHANGED <<defs, watch, cache, cms, queue, cur, after>> /\ after # "later"
          /\ pc' = "runtime" => obj' = [obj EXCEPT !.conds = SetCondition(@, "RuntimeConsistent", "False", obj.gen)]
          /\ pc' = "apply" => obj' = [obj EXCEPT !.conds = SetCondition(@, "RuntimeConsistent", "True", obj.gen)]
      BY <1>8 DEF CheckRuntimeConsistency, apiVars, cacheVars, HonestInv
    <2>2. Rendered(obj') = Rendered(obj) /\ (pc' = "runtime" => IsFalse(obj'.conds["RuntimeConsistent"]))
      BY <1>1, <2>1 DEF Rendered, Object, SetCondition, IsFalse, CondTypes
    <2>3. WorkerHonest => WorkerHonest'
      BY <2>1, <2>2 DEF WorkerHonest, Told, CondTypes
    <2> QED BY <1>0, <1>1, <1>2, <1>3, <1>4, <2>1, <2>3
  <1>9. CASE ApplyConfigMap
    <2>1. /\ pc = "apply" /\ pc' = "runtime" /\ UNCHANGED <<defs, watch, cache, cur, after>> /\ after # "later"
          /\ obj' = [obj EXCEPT !.conds = SetCondition(@, "ConfigMapReady", "True", obj.gen)]
          /\ cms' = [cms EXCEPT ![cur] = Rendered(obj)] /\ queue \subseteq queue'
      BY <1>9 DEF ApplyConfigMap, StoreConfigMap, cacheVars, HonestInv
    <2>2. Rendered(obj') = Rendered(obj) /\ cms'[cur] = Rendered(obj)
          /\ \A e \in Defs \ {cur} : cms'[e] = cms[e]
      BY <1>1, <2>1 DEF Rendered, Object, TypeOK
    <2>3. WorkerHonest => WorkerHonest'
      BY <2>1, <2>2 DEF WorkerHonest
    <2> QED BY <1>0, <1>1, <1>2, <1>3, <1>4, <2>1, <2>2, <2>3
  <1>10. CASE ApplyConfigMapFails
    <2>1. /\ pc = "apply" /\ pc' = "runtime" /\ UNCHANGED <<defs, watch, cache, cms, queue, cur, after>> /\ after # "later"
          /\ obj' = [obj EXCEPT !.conds = SetCondition(@, "ConfigMapReady", "False", obj.gen)]
      BY <1>10 DEF ApplyConfigMapFails, apiVars, cacheVars, HonestInv
    <2>2. Rendered(obj') = Rendered(obj) /\ IsFalse(obj'.conds["ConfigMapReady"])
      BY <1>1, <2>1 DEF Rendered, Object, SetCondition, IsFalse, CondTypes
    <2>3. WorkerHonest => WorkerHonest'
      BY <2>1, <2>2 DEF WorkerHonest, Told, CondTypes
    <2> QED BY <1>0, <1>1, <1>2, <1>3, <1>4, <2>1, <2>3
  <1>11. CASE GetRuntime
    <2>1. /\ pc = "runtime" /\ pc' = "status" /\ UNCHANGED <<defs, watch, cache, cms, queue, cur>>
          /\ after = "done"
      BY <1>11 DEF GetRuntime, apiVars, cacheVars, TypeOK, HonestInv
    <2>2. /\ Rendered(obj') = Rendered(obj) /\ obj'.og = obj'.gen
          /\ \A t \in CondTypes \ {"RuntimeRefValid"} : obj'.conds[t] = obj.conds[t]
      BY <1>1, <1>11 DEF GetRuntime, Rendered, Object, SetCondition
    <2>3. WorkerHonest => WorkerHonest'
      BY <2>1, <2>2 DEF WorkerHonest, Told
    <2> QED BY <1>0, <1>1, <1>2, <1>3, <1>4, <2>1, <2>3
  <1>12. CASE WriteStatus
    <2> DEFINE o == [cache[cur] EXCEPT !.conds = obj.conds, !.og = obj.og]
    <2>1. /\ cur \in Defs /\ obj \in Object /\ cache[cur] \in Object /\ cache[cur] = defs[cur] /\ pc = "status"
          /\ StoreDef(cur, o) /\ pc' = "idle" /\ after' = "done" /\ cur' = Nil /\ UNCHANGED <<cache, cms>>
          /\ queue' = IF after = "later" THEN queue \cup {cur} ELSE queue
      BY <1>12, ExistsIsObject DEF WriteStatus, Finish, cacheVars, TypeOK, Stored
    <2>2. /\ o \in Stored /\ Rendered(o) = Rendered(cache[cur])
          /\ o.conds = obj.conds /\ o.og = obj.og /\ o.gen = cache[cur].gen
      BY <2>1 DEF Object, Stored, Rendered
    <2> HIDE DEF o
    <2>3. /\ \A e \in Defs : Pending(e) => Pending(e)'
          /\ defs'[cur] = o /\ \A e \in Defs \ {cur} : defs'[e] = defs[e]
      BY <2>1, <2>2, StorePending
    <2>4. after = "later" => Pending(k)'
      BY <1>0, <2>1 DEF Pending
    <2>5. after # "later" /\ WorkerHonest => Honest(k)'
      <3> SUFFICES ASSUME after # "later", WorkerHonest PROVE Honest(k)'
        OBVIOUS
      <3>1. Rendered(obj) = Rendered(cache[cur]) /\ (Told \/ (cms[cur] = Rendered(obj) /\ obj.og = obj.gen))
        BY <2>1 DEF WorkerHonest
      <3>2. obj.gen = cache[cur].gen
        BY <3>1 DEF Rendered
      <3>3. CASE Told
        <4>1. PICK t \in CondTypes : IsFalse(o.conds[t])
          BY <2>2, <3>3 DEF Told
        <4> QED BY <1>0, <2>3, <4>1 DEF Honest, SomeFalse, IsFalse
      <3>4. CASE cms[cur] = Rendered(obj) /\ obj.og = obj.gen
        BY <1>0, <2>1, <2>2, <2>3, <3>1, <3>2, <3>4 DEF Honest, Materialised
      <3> QED BY <3>1, <3>3, <3>4
    <2> QED BY <1>0, <1>2, <1>3, <2>1, <2>3, <2>4, <2>5
  <1> QED BY <1>5, <1>6, <1>7, <1>8, <1>9, <1>10, <1>11, <1>12 DEF Reconcile

\* The invariant holds, and it is all that the two theorems below need.
LEMMA HonestAlways == Spec => [](TypeOK /\ HonestInv)
  <1>1. Init => HonestInv
    BY DefinitionConstants DEF Init, HonestInv, Honest, Exists, Absent
  <1>2. TypeOK /\ HonestInv /\ [Next]_vars => HonestInv'
    <2> SUFFICES ASSUME TypeOK, HonestInv, [Next]_vars PROVE HonestInv'
      OBVIOUS
    <2>1. CASE \/ \E r \in Runtimes : DeliverRuntime(r) \/ ToggleRuntime(r)
               \/ Resync \/ UNCHANGED vars
      <3>1. UNCHANGED <<defs, watch, cache, pc, cur, obj, after, cms>> /\ queue \subseteq queue'
        BY <2>1 DEF DeliverRuntime, ToggleRuntime, Resync, vars, apiVars, cacheVars, workerVars
      <3> QED BY <3>1, KeepsHonest DEF Pending
    <2> QED BY <2>1, UserHonest, ReconcileHonest, DeliverHonest, RestartHonest, DefinitionConstants
            DEF Next, Trigger
  <1> QED BY <1>1, <1>2, TypeCorrect, PTL DEF Spec

LEMMA QuietMeansHonest == ASSUME TypeOK, HonestInv PROVE QuietIsHonest /\ QuietReadyIsCurrent
  <1> SUFFICES ASSUME NEW d \in Defs, Exists(defs[d]), Quiet(d)
               PROVE  /\ Materialised(d) \/ SomeFalse(defs[d])
                      /\ (\A t \in CondTypes : defs[d].conds[t].st = "True") =>
                            Materialised(d) /\ defs[d].og = defs[d].gen
    BY DEF QuietIsHonest, QuietReadyIsCurrent, SomeFalse
  <1>1. ~Pending(d) /\ cur # d
    BY DEF Quiet, Pending
  <1>2. Honest(d)
    BY <1>1 DEF HonestInv
  <1> QED BY <1>2 DEF Honest, SomeFalse, IsFalse

\* Reconcile returns without asking for a retry only if the ConfigMap is what
\* the spec says or the status tells of the failure: what a quiet definition
\* reports is true, whatever was deleted, recreated or failed before.
THEOREM SleepsHonestly == Spec => []QuietIsHonest
  BY HonestAlways, QuietMeansHonest, PTL

\* A quiet definition whose conditions are all True is materialised, and its
\* observedGeneration is the spec's.
THEOREM ReadyIsCurrent == Spec => []QuietReadyIsCurrent
  BY HonestAlways, QuietMeansHonest, PTL

=============================================================================
