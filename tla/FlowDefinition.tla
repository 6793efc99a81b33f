--------------------------- MODULE FlowDefinition ---------------------------
(***************************************************************************)
(* The LogicFlowDefinition controller and its admission webhook, with the  *)
(* parts of Kubernetes they run on: the API server's objects, the watch    *)
(* stream that feeds the informer cache, the work queue, the garbage       *)
(* collector.                                                              *)
(*                                                                         *)
(* A definition binds one version of a workflow to a runtime.  The         *)
(* controller labels it with its workflow's identity and materialises it   *)
(* as the ConfigMap lfd-<name>, which the runtime mounts.  All versions of *)
(* one workflow have to be bound to one runtime: nothing in the API server *)
(* enforces that, only a lookup by label in a cache that lags behind.      *)
(*                                                                         *)
(* One namespace is modelled: every lookup of the code is confined to one. *)
(* A ConfigMap is the (owner, runtime, workflow, version, generation) it   *)
(* was rendered from.                                                      *)
(***************************************************************************)
EXTENDS Conditions, Sequences

CONSTANTS
    Defs,        \* names of LogicFlowDefinition objects
    Runtimes,    \* names of LogicFlowRuntime objects
    Workflows,   \* values of flow.document.name
    Versions,    \* values of flow.document.version
    Bindings,    \* Bindings[d]: the (runtime, workflow) pairs users put into an object named d
    Nil,         \* an absent label, an unparsable document, no object name
    Admission,   \* is the validating webhook registered with the API server?  (Every
                 \* deployment manifest does; a locally run operator and envtest do not.)
    Ephemeral,   \* the runtimes that users create and delete; the others are there to stay
    MaxUid,      \* bound: definitions ever created
    MaxGen,      \* bound: generations of one definition
    MaxLag,      \* bound: changes of definitions the informer is behind when users act
    MaxFaults    \* bound: failed API calls, operator crashes and tampered ConfigMaps

ASSUME DefinitionConstants ==
    /\ Nil \notin Defs \cup Runtimes \cup Workflows \cup Versions
    /\ Bindings \in [Defs -> SUBSET (Runtimes \X Workflows)]
    /\ Admission \in BOOLEAN
    /\ Ephemeral \subseteq Runtimes
    /\ MaxUid \in Nat /\ MaxGen \in Nat /\ MaxFaults \in Nat /\ MaxLag \in Nat

VARIABLES
    review,      \* review[d]: a create request the webhook has let through, not stored yet
    defs,        \* the API server's definitions
    watch,       \* changes of definitions the informer has not seen yet, oldest first
    cache,       \* the informer's definitions, read by controller and webhook
    cms,         \* the API server's ConfigMaps, by the definition they are named after
    rts,         \* the API server's runtimes
    rtCache,     \* the informer's runtimes
    queue,       \* names to be reconciled, at once or later: the work queue, RequeueAfter,
                 \* backoff and undelivered ConfigMap events are one set, because a name
                 \* in the work queue may wait as long as any of them
    pc, cur, obj, after,   \* the worker: its next step, the request, the in-memory
                           \* object and what Reconcile returns if the status is written
    nextUid, faults

apiVars    == <<review, defs, watch, cms, rts, nextUid>>
cacheVars  == <<cache, rtCache>>
workerVars == <<pc, cur, obj, after>>
vars == <<apiVars, cacheVars, queue, workerVars, faults>>

-----------------------------------------------------------------------------
CondTypes == {"FlowParsed", "RuntimeConsistent", "ConfigMapReady", "RuntimeRefValid"}

Flow   == [name : Workflows \cup {Nil}, version : Versions]
Labels == [name : Workflows \cup {Nil}, version : Versions \cup {Nil},
           namespace : BOOLEAN, runtime : Runtimes \cup {Nil}]

NoLabels == [name |-> Nil, version |-> Nil, namespace |-> FALSE, runtime |-> Nil]
NoConds  == [t \in CondTypes |-> NoCond]
NoFlow   == [name |-> Nil, version |-> Nil]

\* uid 0 is the object that does not exist.  observedGeneration is og.
Object == [uid : Nat \ {0}, gen : Nat, rt : Runtimes, flow : Flow, labels : Labels,
           conds : [CondTypes -> Cond], og : Nat]
Absent == [uid |-> 0, gen |-> 0, rt |-> Nil, flow |-> NoFlow, labels |-> NoLabels,
           conds |-> NoConds, og |-> 0]
Exists(o) == o.uid # 0

\* A definition as it is created, and one whose spec is edited.
NewObject(uid, rt, flow) == [uid |-> uid, gen |-> 1, rt |-> rt, flow |-> flow,
                             labels |-> NoLabels, conds |-> NoConds, og |-> 0]
Edited(o, gen, rt, flow) == [o EXCEPT !.gen = gen, !.rt = rt, !.flow = flow]

ConfigMap == [owner : Nat \ {0}, rt : Runtimes, wf : Workflows \cup {Nil}, version : Versions, gen : Nat]
NoConfigMap == [owner |-> 0, rt |-> Nil, wf |-> Nil, version |-> Nil, gen |-> 0]

Requests  == [rt : Runtimes, flow : Flow]
NoRequest == [rt |-> Nil, flow |-> NoFlow]

\* spec.ParseFlow succeeds.
Parses(flow) == flow.name # Nil

\* The ConfigMap rendered from a definition.
Rendered(o) == [owner |-> o.uid, rt |-> o.rt, wf |-> o.flow.name,
                version |-> o.flow.version, gen |-> o.gen]

\* The identity labels the controller wants on a definition.
FlowIDLabels(o) == [name |-> o.flow.name, version |-> o.flow.version,
                    namespace |-> TRUE, runtime |-> o.rt]

\* A JSON merge patch carries only the labels that differ between the cached
\* object and the wanted one; the others stay what they are on the server.
MergePatch(server, from, to) ==
    LET pick(s, f, t) == IF t = f THEN s ELSE t
    IN [name      |-> pick(server.name, from.name, to.name),
        version   |-> pick(server.version, from.version, to.version),
        namespace |-> pick(server.namespace, from.namespace, to.namespace),
        runtime   |-> pick(server.runtime, from.runtime, to.runtime)]

\* Lookup by labels, in the cache: the definitions labelled as versions of wf.
Labelled(wf) == {d \in Defs : /\ Exists(cache[d])
                              /\ cache[d].labels.name = wf
                              /\ cache[d].labels.namespace}

\* Another version of wf is seen on a runtime other than rt.
ConflictsWith(d, wf, rt) == \E e \in Labelled(wf) \ {d} : cache[e].rt # rt

Init ==
    /\ review = [d \in Defs |-> NoRequest]
    /\ defs = [d \in Defs |-> Absent] /\ cache = defs /\ watch = <<>>
    /\ cms = [d \in Defs |-> NoConfigMap]
    /\ rts = Runtimes \ Ephemeral /\ rtCache = rts
    /\ queue = {}
    /\ pc = "idle" /\ cur = Nil /\ obj = Absent /\ after = "done"
    /\ nextUid = 1 /\ faults = MaxFaults

-----------------------------------------------------------------------------
(* Writes to the API server.  A write that changes nothing has no event.   *)

StoreDef(d, o) ==
    /\ defs' = [defs EXCEPT ![d] = o]
    /\ watch' = IF o = defs[d] THEN watch ELSE Append(watch, [name |-> d, obj |-> o])

\* Mutant: without Owns(ConfigMap) a lost ConfigMap is nobody's business.
StoreConfigMapUnwatched(d, cm) ==
    /\ cms' = [cms EXCEPT ![d] = cm]
    /\ UNCHANGED queue

\* Owns(ConfigMap): a change of the ConfigMap requeues its definition.
StoreConfigMap(d, cm) ==
    /\ cms' = [cms EXCEPT ![d] = cm]
    /\ queue' = IF cm = cms[d] THEN queue ELSE queue \cup {d}

-----------------------------------------------------------------------------
(* Users, and the webhook that reviews what they ask for.                  *)

\* ValidateCreate: the document parses and no cached version of the workflow
\* is on another runtime.  The object is stored later.
ValidateCreate(d, rt, flow) ==
    /\ review[d] = NoRequest /\ nextUid <= MaxUid
    /\ Admission => Parses(flow) /\ ~ConflictsWith(d, flow.name, rt)
    /\ review' = [review EXCEPT ![d] = [rt |-> rt, flow |-> flow]]
    /\ UNCHANGED <<defs, watch, cms, rts, nextUid, cacheVars, queue, workerVars, faults>>

\* The API server stores the reviewed object, or refuses a name already taken.
Create(d) ==
    /\ review[d] # NoRequest /\ nextUid <= MaxUid
    /\ review' = [review EXCEPT ![d] = NoRequest]
    /\ IF Exists(defs[d])
       THEN UNCHANGED <<defs, watch, nextUid>>
       ELSE /\ StoreDef(d, NewObject(nextUid, review[d].rt, review[d].flow))
            /\ nextUid' = nextUid + 1
    /\ UNCHANGED <<cms, rts, cacheVars, queue, workerVars, faults>>

\* ValidateUpdate: the runtime and the document's name are immutable.  An edit changes at
\* least the body of the document, which is in the ConfigMap as its generation.
Update(d, rt, flow) ==
    /\ Exists(defs[d]) /\ defs[d].gen < MaxGen
    /\ Admission => /\ rt = defs[d].rt
                    /\ Parses(flow) /\ Parses(defs[d].flow)
                    /\ flow.name = defs[d].flow.name
    /\ StoreDef(d, Edited(defs[d], defs[d].gen + 1, rt, flow))
    /\ UNCHANGED <<review, cms, rts, nextUid, cacheVars, queue, workerVars, faults>>

Delete(d) ==
    /\ Exists(defs[d])
    /\ StoreDef(d, Absent)
    /\ UNCHANGED <<review, cms, rts, nextUid, cacheVars, queue, workerVars, faults>>

\* Runtimes come and go as their own users please.
ToggleRuntime(r) ==
    /\ rts' = IF r \in rts THEN rts \ {r} ELSE rts \cup {r}
    /\ UNCHANGED <<review, defs, watch, cms, nextUid, cacheVars, queue, workerVars, faults>>

\* Somebody deletes an operator-managed ConfigMap.
DeleteConfigMap(d) ==
    /\ cms[d] # NoConfigMap /\ faults > 0
    /\ StoreConfigMap(d, NoConfigMap)
    /\ faults' = faults - 1
    /\ UNCHANGED <<review, defs, watch, rts, nextUid, cacheVars, workerVars>>

\* Garbage collection: the owner, identified by uid, is gone.
CollectConfigMap(d) ==
    /\ cms[d] # NoConfigMap /\ cms[d].owner # defs[d].uid
    /\ StoreConfigMap(d, NoConfigMap)
    /\ UNCHANGED <<review, defs, watch, rts, nextUid, cacheVars, workerVars, faults>>

-----------------------------------------------------------------------------
(* Informers and triggers (SetupWithManager).                              *)

\* The oldest unseen change of a definition reaches the cache.
DeliverDefinition ==
    /\ watch # <<>>
    /\ LET e == Head(watch)
       IN /\ cache' = [cache EXCEPT ![e.name] = e.obj]
          /\ queue' = queue \cup {e.name}
    /\ watch' = Tail(watch)
    /\ UNCHANGED <<review, defs, cms, rts, nextUid, rtCache, workerVars, faults>>

\* Mutant: runtimes are read but not watched.
DeliverRuntimeUnwatched(r) ==
    /\ rtCache' = IF r \in rts THEN rtCache \cup {r} ELSE rtCache \ {r}
    /\ UNCHANGED <<apiVars, cache, queue, workerVars, faults>>

\* Watches(Runtime) with mapRuntimeToDefinitions: any event of a runtime, a
\* status update included, requeues the cached definitions labelled with it.
DeliverRuntime(r) ==
    /\ rtCache' = IF r \in rts THEN rtCache \cup {r} ELSE rtCache \ {r}
    /\ queue' = queue \cup {d \in Defs : Exists(cache[d]) /\ cache[d].labels.runtime = r}
    /\ UNCHANGED <<apiVars, cache, workerVars, faults>>

\* The periodic resync of the informer requeues everything in the cache.
Resync ==
    /\ queue' = queue \cup {d \in Defs : Exists(cache[d])}
    /\ UNCHANGED <<apiVars, cacheVars, workerVars, faults>>

-----------------------------------------------------------------------------
(* The worker: one Reconcile at a time, one step per API call.             *)

Finish == pc' = "idle" /\ cur' = Nil /\ obj' = Absent /\ after' = "done"

\* Reconcile returns an error: the request is retried with backoff.
Fail == Finish /\ queue' = queue \cup {cur}

Fault == faults > 0 /\ faults' = faults - 1

\* Mutant: NotFound is not handled.
BeginOnAnything(d) ==
    /\ pc = "idle" /\ d \in queue
    /\ queue' = queue \ {d}
    /\ cur' = d /\ obj' = cache[d] /\ after' = "done"
    /\ pc' = IF Parses(cache[d].flow) THEN "label" ELSE "status"
    /\ UNCHANGED <<apiVars, cacheVars, faults>>

\* Mutant: the informer's event of a spec change is taken for the
\* controller's own status update.
BeginUnlessReady(d) ==
    /\ pc = "idle" /\ d \in queue
    /\ queue' = queue \ {d}
    /\ LET o == cache[d]
           ready == \A t \in CondTypes : o.conds[t].st = "True"
       IN IF ~Exists(o) \/ ready
          THEN UNCHANGED workerVars
          ELSE /\ cur' = d /\ after' = "done"
               /\ obj' = [o EXCEPT !.conds = SetCondition(o.conds, "FlowParsed",
                               IF Parses(o.flow) THEN "True" ELSE "False", o.gen)]
               /\ pc' = CASE ~Parses(o.flow)              -> "status"
                          [] o.labels # FlowIDLabels(o)   -> "label"
                          [] OTHER                        -> "check"
    /\ UNCHANGED <<apiVars, cacheVars, faults>>

\* Get, ParseFlow and the comparison of labels that decides what comes next.
Begin(d) ==
    /\ pc = "idle" /\ d \in queue
    /\ queue' = queue \ {d}
    /\ LET o == cache[d]
           parsed == [o EXCEPT !.conds = SetCondition(o.conds, "FlowParsed",
                         IF Parses(o.flow) THEN "True" ELSE "False", o.gen)]
       IN IF ~Exists(o)
          THEN UNCHANGED workerVars
          ELSE /\ cur' = d /\ obj' = parsed /\ after' = "done"
               /\ pc' = CASE ~Parses(o.flow)              -> "status"
                          [] o.labels # FlowIDLabels(o)   -> "label"
                          [] OTHER                        -> "check"
    /\ UNCHANGED <<apiVars, cacheVars, faults>>

\* Mutant: Reconcile goes on after patching, before the cache has the labels.
PatchLabelsAndGoOn ==
    /\ pc = "label" /\ Exists(defs[cur])
    /\ LET o == [defs[cur] EXCEPT !.labels = MergePatch(@, obj.labels, FlowIDLabels(obj))]
       IN StoreDef(cur, o) /\ obj' = o
    /\ pc' = "check" /\ after' = "done"
    /\ UNCHANGED <<review, cms, rts, nextUid, cacheVars, queue, cur, faults>>

\* updateFlowIDLabels.  The patch goes to whatever object has the name now.
\* The server's answer is decoded over the in-memory object: its conditions
\* take the place of those in memory, but when the object has none yet the
\* ones in memory stay, be they those of a deleted predecessor.  updateStatus
\* follows.
PatchLabels ==
    /\ pc = "label" /\ Exists(defs[cur])
    /\ LET o == [defs[cur] EXCEPT !.labels = MergePatch(@, obj.labels, FlowIDLabels(obj))]
           conds == IF o.conds = NoConds THEN obj.conds ELSE o.conds
       IN /\ StoreDef(cur, o)
          /\ obj' = [o EXCEPT !.conds = conds, !.og = o.gen]
    /\ pc' = "status" /\ after' = "later"
    /\ UNCHANGED <<review, cms, rts, nextUid, cacheVars, queue, cur, faults>>

PatchLabelsFails ==
    /\ pc = "label"
    /\ \/ ~Exists(defs[cur]) /\ UNCHANGED faults
       \/ Fault
    /\ Fail
    /\ UNCHANGED <<apiVars, cacheVars>>

\* checkRuntimeConsistency: the lookup is made when the object has already
\* been read, so the cache may have moved on.
CheckRuntimeConsistency ==
    /\ pc = "check"
    /\ LET conflict == ConflictsWith(cur, obj.flow.name, obj.rt)
       IN /\ obj' = [obj EXCEPT !.conds = SetCondition(@, "RuntimeConsistent",
                         IF conflict THEN "False" ELSE "True", obj.gen)]
          /\ pc' = IF conflict THEN "runtime" ELSE "apply"
    /\ UNCHANGED <<apiVars, cacheVars, queue, cur, after, faults>>

\* Mutant: an existing ConfigMap keeps its owner reference.
ApplyConfigMapKeepOwner ==
    /\ pc = "apply"
    /\ StoreConfigMap(cur, IF cms[cur] = NoConfigMap THEN Rendered(obj)
                           ELSE [Rendered(obj) EXCEPT !.owner = cms[cur].owner])
    /\ obj' = [obj EXCEPT !.conds = SetCondition(@, "ConfigMapReady", "True", obj.gen)]
    /\ pc' = "runtime"
    /\ UNCHANGED <<review, defs, watch, rts, nextUid, cacheVars, cur, after, faults>>

\* applyConfigMap, a server-side apply with the in-memory object's uid as owner.
ApplyConfigMap ==
    /\ pc = "apply"
    /\ StoreConfigMap(cur, Rendered(obj))
    /\ obj' = [obj EXCEPT !.conds = SetCondition(@, "ConfigMapReady", "True", obj.gen)]
    /\ pc' = "runtime"
    /\ UNCHANGED <<review, defs, watch, rts, nextUid, cacheVars, cur, after, faults>>

\* A failed apply is recorded in the condition and Reconcile goes on.
ApplyConfigMapFails ==
    /\ pc = "apply" /\ Fault
    /\ obj' = [obj EXCEPT !.conds = SetCondition(@, "ConfigMapReady", "False", obj.gen)]
    /\ pc' = "runtime"
    /\ UNCHANGED <<apiVars, cacheVars, queue, cur, after>>

\* Get of the runtime; a missing one is looked for again later.
GetRuntime ==
    /\ pc = "runtime"
    /\ LET found == obj.rt \in rtCache
       IN /\ obj' = [obj EXCEPT !.og = obj.gen,
                         !.conds = SetCondition(@, "RuntimeRefValid",
                                       IF found THEN "True" ELSE "False", obj.gen)]
          /\ after' = IF found THEN "done" ELSE "later"
    /\ pc' = "status"
    /\ UNCHANGED <<apiVars, cacheVars, queue, cur, faults>>

\* updateStatusWithConflictRetry: the cached object gets the computed status
\* and is written back; the write goes through when the cached object is the
\* server's (equal here means same resourceVersion: no change of an object is
\* ever undone while an older version of it is still cached).
WriteStatus ==
    /\ pc = "status" /\ Exists(cache[cur]) /\ cache[cur] = defs[cur]
    /\ StoreDef(cur, [cache[cur] EXCEPT !.conds = obj.conds, !.og = obj.og])
    /\ queue' = IF after = "later" THEN queue \cup {cur} ELSE queue
    /\ Finish
    /\ UNCHANGED <<review, cms, rts, nextUid, cacheVars, faults>>

\* The definition is gone from the cache, every retry met a newer object on
\* the server, or the call failed.
WriteStatusFails ==
    /\ pc = "status"
    /\ \/ cache[cur] # defs[cur] /\ UNCHANGED faults
       \/ ~Exists(cache[cur]) /\ UNCHANGED faults
       \/ Fault
    /\ Fail
    /\ UNCHANGED <<apiVars, cacheVars>>

\* The operator process dies and is started again: memory is lost, the caches
\* are filled with the current objects and every one of them is queued.
Restart ==
    /\ Fault /\ Finish
    /\ cache' = defs /\ watch' = <<>> /\ rtCache' = rts
    /\ queue' = {d \in Defs : Exists(defs[d]) \/ cms[d] # NoConfigMap}
    /\ UNCHANGED <<review, defs, cms, rts, nextUid>>

-----------------------------------------------------------------------------
\* What users write into an object named d; without admission the document
\* need not parse.
FlowsOf(b) == [name : IF Admission THEN {b[2]} ELSE {b[2], Nil}, version : Versions]

UserStep(d) ==
    /\ Len(watch) < MaxLag
    /\ \/ \E b \in Bindings[d] : \E flow \in FlowsOf(b) :
              ValidateCreate(d, b[1], flow) \/ Update(d, b[1], flow)
       \/ Create(d) \/ Delete(d) \/ DeleteConfigMap(d)

Reconcile ==
    \/ \E d \in Defs : Begin(d)
    \/ PatchLabels \/ PatchLabelsFails
    \/ CheckRuntimeConsistency
    \/ ApplyConfigMap \/ ApplyConfigMapFails
    \/ GetRuntime
    \/ WriteStatus \/ WriteStatusFails

Trigger ==
    \/ DeliverDefinition
    \/ \E r \in Runtimes : DeliverRuntime(r)

Next ==
    \/ \E d \in Defs : UserStep(d) \/ CollectConfigMap(d)
    \/ \E r \in Ephemeral : ToggleRuntime(r)
    \/ Trigger \/ Resync
    \/ Reconcile \/ Restart

Spec == Init /\ [][Next]_vars

\* What runs without anybody's help: the informers deliver, timers fire, the
\* worker goes on, the garbage collector collects.  Users, faults and runtime
\* events that report no change are not forced.
Fairness ==
    /\ WF_vars(DeliverDefinition)
    /\ \A d \in Defs : WF_vars(CollectConfigMap(d)) /\ WF_vars(Create(d)) /\ SF_vars(Begin(d))
    /\ \A r \in Runtimes : WF_vars(DeliverRuntime(r) /\ rtCache' # rtCache)
    /\ WF_vars(PatchLabels) /\ WF_vars(CheckRuntimeConsistency) /\ WF_vars(ApplyConfigMap)
    /\ WF_vars(GetRuntime) /\ WF_vars(WriteStatus)
    /\ WF_vars(PatchLabelsFails /\ faults' = faults)
    /\ WF_vars(WriteStatusFails /\ faults' = faults)

FairSpec == Spec /\ Fairness

-----------------------------------------------------------------------------
(* Properties                                                              *)

TypeOK ==
    /\ review \in [Defs -> Requests \cup {NoRequest}]
    /\ defs \in [Defs -> Object \cup {Absent}]
    /\ watch \in Seq([name : Defs, obj : Object \cup {Absent}])
    /\ cache \in [Defs -> Object \cup {Absent}]
    /\ cms \in [Defs -> ConfigMap \cup {NoConfigMap}]
    /\ queue \subseteq Defs
    /\ rts \subseteq Runtimes /\ rtCache \subseteq Runtimes
    /\ pc \in {"idle", "label", "check", "apply", "runtime", "status"}
    /\ after \in {"done", "later"}
    /\ obj \in Object \cup {Absent}
    /\ cur \in Defs \cup {Nil} /\ (pc # "idle" => cur \in Defs /\ Exists(obj))
    /\ nextUid \in Nat \ {0} /\ faults \in Nat

\* Assumption under which the labels can be relied on: users do not reuse the
\* name of a definition for another workflow.
OneDocPerName == \A d \in Defs : \A b, c \in Bindings[d] : b[2] = c[2]

\* A ConfigMap that its owner, by uid, still stands for.
Owned(d) == cms[d] # NoConfigMap /\ cms[d].owner = defs[d].uid

\* Versions of one workflow never run on two runtimes: of the ConfigMaps that
\* applyConfigMap made and whose definition still exists, those of one workflow
\* carry one runtime-ref label.  validateSameRuntime and
\* checkRuntimeConsistency are both lookups in a cache that may be behind.
SingleRuntime ==
    \A d, e \in Defs : Owned(d) /\ Owned(e) /\ cms[d].wf = cms[e].wf => cms[d].rt = cms[e].rt

\* Reconciling from a stale cache never takes a ConfigMap back: neither to an
\* earlier definition of the same name nor to an earlier generation of it.
ConfigMapMovesForward ==
    [][\A d \in Defs : cms[d] # NoConfigMap /\ cms'[d] # NoConfigMap =>
          \/ cms'[d].owner > cms[d].owner
          \/ cms'[d].owner = cms[d].owner /\ cms'[d].gen >= cms[d].gen]_cms

\* The definition's ConfigMap is what its current spec says.
Materialised(d) == cms[d] = Rendered(defs[d])

\* Nothing that could lead to a Reconcile of d is under way.
Quiet(d) ==
    /\ cache = defs /\ watch = <<>>
    /\ d \notin queue
    /\ cur # d

\* The controller never goes to sleep on a definition that is not
\* materialised without a condition that says so: whatever order changes,
\* patches, collected ConfigMaps, errors and restarts came in, no trigger of
\* SetupWithManager is missed.
QuietIsHonest ==
    \A d \in Defs : Exists(defs[d]) /\ Quiet(d) =>
        \/ Materialised(d)
        \/ \E t \in CondTypes : IsFalse(defs[d].conds[t])

\* And the other way round, when it sleeps and reports generation g with every
\* condition True, generation g is the current one and what is mounted.
QuietReadyIsCurrent ==
    \A d \in Defs :
        /\ Exists(defs[d]) /\ Quiet(d)
        /\ \A t \in CondTypes : defs[d].conds[t].st = "True"
        => Materialised(d) /\ defs[d].og = defs[d].gen

\* The definitions a sibling on another runtime keeps from being materialised.
InConflict(d) == \E e \in Defs \ {d} : /\ Exists(defs[e])
                                        /\ defs[e].flow.name = defs[d].flow.name
                                        /\ defs[e].rt # defs[d].rt

Settled ==
    \A d \in Defs :
        /\ Exists(defs[d]) /\ Parses(defs[d].flow) /\ ~InConflict(d) => Materialised(d)
        /\ ~Exists(defs[d]) => cms[d] = NoConfigMap

\* A definition whose ConfigMap could not be applied says so.
Reported(d) == IsFalse(defs[d].conds["ConfigMapReady"])

\* Settled, but for definitions that report a failed apply.
SettledOrReported ==
    \A d \in Defs :
        /\ Exists(defs[d]) /\ Parses(defs[d].flow) /\ ~InConflict(d) => Materialised(d) \/ Reported(d)
        /\ ~Exists(defs[d]) => cms[d] = NoConfigMap

\* Once users, faults and crashes stop, a definition that parses and whose
\* siblings agree on the runtime ends up materialised, or reports the failed
\* apply that was the last, and no ConfigMap of a deleted definition is left.
\* No resync is needed for that; where the informer's resync does come, every
\* such definition ends up materialised.
EventuallySettled ==
    /\ <>[]SettledOrReported
    /\ WF_vars(Resync) => <>[]Settled

\* RuntimeRefValid ends up telling whether the runtime is there: a runtime that
\* appears after the definition is noticed, and so is one that goes away.
RuntimeRefFollowsRuntime ==
    \A d \in Defs :
        /\ <>[](Exists(defs[d]) /\ Parses(defs[d].flow) /\ defs[d].rt \in rts)
              => <>[](defs[d].conds["RuntimeRefValid"].st = "True")
        /\ <>[](Exists(defs[d]) /\ Parses(defs[d].flow) /\ defs[d].rt \notin rts)
              => <>[](defs[d].conds["RuntimeRefValid"].st = "False")

=============================================================================
