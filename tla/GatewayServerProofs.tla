------------------------- MODULE GatewayServerProofs -------------------------
(***************************************************************************)
(* The gateway's HTTP server is well typed, keeps the instances it has     *)
(* handed out, and implements module RequestRouting: each request is       *)
(* routed by what was known at one moment of it.                           *)
(*                                                                         *)
(* The argument for the last: the one decision that is prepared by a read  *)
(* of its own is the one for a pod, and what that read found is still in   *)
(* the instance cache when the lease is looked up, because an entry is     *)
(* written once, for an id that has never been handed out before.          *)
(***************************************************************************)
EXTENDS GatewayServer, FiniteSetTheorems, SequenceTheorems, TLAPS

\* What the watcher's informer tells.
Event == [name : Platforms, st : States]

LEMMA EventsType ==
  ASSUME TypeOK, NEW e \in EventsAbout(Existing)
  PROVE  e \in Seq(Event)
  <1> USE WatcherConstants
  <1>1. IsFiniteSet(Platforms)
    BY FS_Union DEF Platforms
  <1>2. IsFiniteSet(Existing)
    BY <1>1, FS_Subset DEF Existing
  <1>3. PICK n \in Nat : n = Cardinality(Existing)
    BY <1>2, FS_CardinalityType
  <1>4. PICK f \in [1..n -> Existing] : e = [i \in 1..n |-> [name |-> f[i], st |-> platforms[f[i]]]]
    BY <1>3 DEF EventsAbout
  <1>5. \A i \in 1..n : [name |-> f[i], st |-> platforms[f[i]]] \in Event
    BY <1>4 DEF Event, Existing, TypeOK
  <1>6. e \in [1..n -> Event]
    BY <1>4, <1>5
  <1> QED BY <1>3, <1>6

\* The watcher by itself keeps its types.
LEMMA WatcherType == ASSUME TypeOK, Next PROVE TypeOK'
  <1> USE WatcherConstants
  <1>0. events \in Seq(Event)
    BY DEF TypeOK, Event
  <1>1. ASSUME NEW p \in Platforms, NEW st \in States, ChangePlatform(p, st) PROVE TypeOK'
    <2>1. [name |-> p, st |-> st] \in Event
      BY DEF Event
    <2>2. events' \in Seq(Event)
      BY <1>0, <1>1, <2>1, AppendProperties DEF ChangePlatform
    <2>3. changes' \in Nat
      BY <1>1 DEF ChangePlatform, TypeOK
    <2> QED BY <1>1, <2>2, <2>3 DEF ChangePlatform, TypeOK, Event
  <1>2. CASE Resync
    <2>1. events' \in Seq(Event)
      BY <1>2, EventsType DEF Resync
    <2> QED BY <1>2, <2>1 DEF Resync, TypeOK, Event
  <1>3. CASE AddEventHandler
    <2>1. events' \in Seq(Event)
      BY <1>3, EventsType DEF AddEventHandler
    <2> QED BY <1>3, <2>1 DEF AddEventHandler, TypeOK, Event
  <1>4. CASE DoSyncList
    <2>1. \A p \in Own : dataIndexEndpoint(p, platforms[p]) \in (Own \X Endpoints) \cup {Nil}
      BY DEF dataIndexEndpoint
    <2>2. listed' \in (Own \X Endpoints) \cup {Nil}
      BY <1>4, <2>1 DEF DoSyncList
    <2> QED BY <1>4, <2>2 DEF DoSyncList, TypeOK
  <1>5. CASE DoSyncListFails \/ DoSyncStore
    BY <1>5 DEF DoSyncListFails, DoSyncStore, TypeOK
  <1>6. CASE Handle
    <2>1. events # <<>> /\ events' = Tail(events)
      BY <1>6 DEF Handle, SyncEndpoint, ClearEndpoint
    <2>2. events' \in Seq(Event)
      BY <1>0, <2>1, HeadTailProperties
    <2>3. store' \in (Own \X Endpoints) \cup {Nil}
      BY <1>6 DEF Handle, SyncEndpoint, ClearEndpoint, dataIndexEndpoint, TypeOK
    <2> QED BY <1>6, <2>2, <2>3 DEF Handle, SyncEndpoint, ClearEndpoint, TypeOK, Event
  <1> QED BY <1>1, <1>2, <1>3, <1>4, <1>5, <1>6 DEF Next, Start, States

-----------------------------------------------------------------------------
(* Requests in flight                                                      *)

Places == {"idle", "resolve", "lease", "table", "document", "upstream", "answered"}
Found == Leases \cup Pods \cup Definitions \cup {Nil}
Status == {Nil, 200, 202, 404, 502, 503}

Slot == [pc : Places, op : Operations \cup {Nil}, version : Versions \cup {Nil}, id : Instances \cup {Nil},
         found : Found, routed : Decision \cup {Nil}, status : Status]

\* What the request in slot s has read and decided belongs to where it is.
Coherent(s) ==
    /\ s.pc # "idle" => s.op \in Operations
    /\ s.pc = "idle" => s.op = Nil
    /\ s.op = "instance" => s.id # Nil
    /\ s.pc \in {"idle", "resolve", "lease", "table", "document"} => s.routed = Nil
    /\ s.pc \in {"upstream", "answered"} => s.routed # Nil
    /\ s.pc = "upstream" => s.routed # Refused
    /\ s.pc = "document" => s.found \in Definitions
    /\ s.pc = "lease" => s.op = "instance" /\ s.found # Nil /\ instances[s.id] = s.found

WorldType ==
    /\ table \in Tables /\ leases \in [Leases -> Pods \cup {Nil}]
    /\ instances \in [Instances -> Leases \cup Pods \cup {Nil}] /\ issued \subseteq Instances
    /\ cached \in [Definitions -> Versions \cup {Nil}] /\ documents \in [Definitions -> Versions \cup {Nil}]
    /\ ops \in [Requests -> SUBSET Operations]

\* An entry of the instance cache is about an id that has been handed out.
ServerInv ==
    /\ TypeOK /\ WorldType
    /\ slot \in [Requests -> Slot]
    /\ \A r \in Requests : Coherent(slot[r])
    /\ \A i \in Instances : instances[i] # Nil => i \in issued

World == <<vars, table, leases, instances, issued, cached, documents, ops>>

\* The ways in which a handler edits its slot leave a slot.
LEMMA SlotEdits ==
  ASSUME NEW s \in Slot, NEW pc \in Places
  PROVE  /\ \A d \in Decision \cup {Nil} : [s EXCEPT !.pc = pc, !.routed = d] \in Slot
         /\ \A d \in Decision \cup {Nil}, st \in Status :
               [s EXCEPT !.pc = pc, !.routed = d, !.status = st] \in Slot
         /\ \A f \in Found : [s EXCEPT !.pc = pc, !.found = f] \in Slot
         /\ \A st \in Status, i \in Instances : [s EXCEPT !.pc = pc, !.status = st, !.id = i] \in Slot
  BY DEF Slot

LEMMA AllStatus == {200, 202, 404, 502, 503} \subseteq Status
  BY DEF Status

LEMMA IdleIsCoherent == Idle \in Slot /\ Coherent(Idle) /\ Coherent(Idle)'
  BY ServerConstants DEF Idle, Slot, Places, Found, Status, Coherent, Operations, RuntimeOps, Executions, Queries

\* A handler that changes nothing but its own slot.
LEMMA SlotStep ==
  ASSUME ServerInv, NEW r \in Requests, NEW s \in Slot, slot' = [slot EXCEPT ![r] = s], Coherent(s),
         UNCHANGED World
  PROVE  ServerInv'
  <1>1. TypeOK' /\ WorldType'
    BY DEF ServerInv, TypeOK, WorldType, World, vars
  <1>2. slot' \in [Requests -> Slot] /\ slot'[r] = s /\ \A q \in Requests \ {r} : slot'[q] = slot[q]
    BY DEF ServerInv
  <1>3. \A q \in Requests : Coherent(slot'[q])
    BY <1>2 DEF ServerInv
  <1>4. \A q \in Requests : Coherent(slot[q])' /\ UNCHANGED <<instances, issued>>
    BY <1>3 DEF Coherent, World
  <1> QED BY <1>1, <1>2, <1>4 DEF ServerInv

\* What the table offers is a decision.
LEMMA ResolveType ==
  ASSUME WorldType, NEW v \in Versions \cup {Nil}, NEW d \in ResolveExecution(v)
  PROVE  d \in Decision
  BY ServerConstants DEF WorldType, Tables, ResolveExecution, Lookup, LookupLatest, Decision

LEMMA ReplyStep ==
  ASSUME ServerInv, NEW r \in Requests, NEW d \in Decision, NEW status \in Status,
         slot[r].pc # "idle", Reply(r, d, status), UNCHANGED World
  PROVE  ServerInv'
  <1> USE ServerConstants
  <1> DEFINE s == [slot[r] EXCEPT !.pc = "answered", !.routed = d, !.status = status]
  <1>1. slot \in [Requests -> Slot] /\ slot[r] \in Slot /\ Coherent(slot[r])
    BY DEF ServerInv
  <1>2. slot' = [slot EXCEPT ![r] = s]
    BY <1>1 DEF Reply
  <1>3. s \in Slot
    <2>1. "answered" \in Places /\ d \in Decision \cup {Nil}
      BY DEF Places
    <2> QED BY <1>1, <2>1, SlotEdits
  <1>4. Coherent(s)
    BY <1>1 DEF Slot, Coherent
  <1> HIDE DEF s
  <1> QED BY <1>2, <1>3, <1>4, SlotStep

LEMMA ToStep ==
  ASSUME ServerInv, NEW r \in Requests, NEW pc, NEW d,
         slot[r].pc # "idle", To(r, pc, d), UNCHANGED World,
         \/ pc = "upstream" /\ d \in Decision \ {Refused}
         \/ pc = "table" /\ d = Nil
  PROVE  ServerInv'
  <1> USE ServerConstants
  <1> DEFINE s == [slot[r] EXCEPT !.pc = pc, !.routed = d]
  <1>1. slot \in [Requests -> Slot] /\ slot[r] \in Slot /\ Coherent(slot[r])
    BY DEF ServerInv
  <1>2. slot' = [slot EXCEPT ![r] = s]
    BY <1>1 DEF To
  <1>3. s \in Slot
    <2>1. pc \in Places /\ d \in Decision \cup {Nil}
      BY DEF Places
    <2> QED BY <1>1, <2>1, SlotEdits
  <1>4. Coherent(s)
    BY <1>1 DEF Slot, Coherent
  <1> HIDE DEF s
  <1> QED BY <1>2, <1>3, <1>4, SlotStep

LEMMA ForwardStep ==
  ASSUME ServerInv, NEW r \in Requests, NEW d \in Decision,
         slot[r].pc # "idle", Forward(r, d), UNCHANGED World
  PROVE  ServerInv'
  BY AllStatus, ReplyStep, ToStep DEF Forward

\* A read whose result is kept until the next read.
LEMMA FoundStep ==
  ASSUME ServerInv, NEW r \in Requests, NEW pc \in {"lease", "table", "document"},
         NEW f \in Found,
         slot[r].pc = "resolve", slot' = [slot EXCEPT ![r] = [@ EXCEPT !.pc = pc, !.found = f]], UNCHANGED World,
         pc = "document" => f \in Definitions,
         pc = "lease" => slot[r].op = "instance" /\ f # Nil /\ instances[slot[r].id] = f
  PROVE  ServerInv'
  <1> USE ServerConstants
  <1> DEFINE s == [slot[r] EXCEPT !.pc = pc, !.found = f]
  <1>1. slot \in [Requests -> Slot] /\ slot[r] \in Slot /\ Coherent(slot[r])
    BY DEF ServerInv
  <1>2. slot' = [slot EXCEPT ![r] = s]
    BY <1>1
  <1>3. s \in Slot
    <2>1. pc \in Places
      BY DEF Places
    <2> QED BY <1>1, <2>1, SlotEdits
  <1>4. Coherent(s)
    BY <1>1 DEF Slot, Coherent
  <1> HIDE DEF s
  <1> QED BY <1>2, <1>3, <1>4, SlotStep

LEMMA HandlersInv ==
  ASSUME ServerInv, NEW r \in Requests, Handlers(r)
  PROVE  ServerInv'
  <1> USE ServerConstants
  <1>0. /\ UNCHANGED World /\ slot[r] \in Slot /\ Coherent(slot[r]) /\ WorldType /\ TypeOK
    BY DEF Handlers, World, ServerInv
  <1>1. CASE resolveWorkflow(r)
    <2>1. PICK d \in ResolveExecution(slot[r].version) : Forward(r, d)
      BY <1>1 DEF resolveWorkflow
    <2>2. d \in Decision /\ slot[r].pc # "idle"
      BY <1>0, <1>1, <2>1, ResolveType DEF Slot, resolveWorkflow, At
    <2> QED BY <1>0, <2>1, <2>2, ForwardStep
  <1>2. CASE LookupInstance(r)
    <2> DEFINE leaseID == instances[slot[r].id]
               pc == IF leaseID # Nil THEN "lease" ELSE "table"
    <2>1. slot[r].pc = "resolve" /\ slot[r].op = "instance" /\ slot[r].id \in Instances
      BY <1>0, <1>2 DEF LookupInstance, At, Slot, Coherent
    <2>2. leaseID \in Found /\ pc \in {"lease", "table", "document"}
      BY <1>0, <2>1 DEF WorldType, Found
    <2>3. slot' = [slot EXCEPT ![r] = [@ EXCEPT !.pc = pc, !.found = leaseID]]
      BY <1>2 DEF LookupInstance
    <2>4. pc # "document" /\ (pc = "lease" => leaseID # Nil)
      OBVIOUS
    <2> QED BY <1>0, <2>1, <2>2, <2>3, <2>4, FoundStep
  <1>3. CASE PodFor(r)
    <2>1. slot[r].pc = "lease"
      BY <1>3 DEF PodFor, At
    <2>2. CASE To(r, "table", Nil)
      BY <1>0, <2>1, <2>2, ToStep
    <2>3. CASE /\ slot[r].found \in Leases /\ leases[slot[r].found] # Nil
               /\ To(r, "upstream", <<"pod", leases[slot[r].found]>>)
      <3>1. leases[slot[r].found] \in Pods
        BY <1>0, <2>3 DEF WorldType
      <3>2. <<"pod", leases[slot[r].found]>> \in Decision \ {Refused}
        BY <3>1 DEF Decision, Refused
      <3> QED BY <1>0, <2>1, <2>3, <3>2, ToStep
    <2> QED BY <1>3, <2>2, <2>3 DEF PodFor
  <1>4. CASE FallBack(r)
    <2>1. PICK d \in ResolveExecution(Nil) : Forward(r, d)
      BY <1>4 DEF FallBack
    <2>2. d \in Decision /\ slot[r].pc # "idle"
      BY <1>0, <1>4, <2>1, ResolveType DEF FallBack, At
    <2> QED BY <1>0, <2>1, <2>2, ForwardStep
  <1>5. CASE proxyInstanceOperation(r) \/ executeSyncHandler(r)
    <2>1. slot[r].pc = "upstream"
      BY <1>5 DEF proxyInstanceOperation, executeSyncHandler, At
    <2>2. PICK st \in {200, 502} : Reply(r, slot[r].routed, st)
      BY <1>5 DEF proxyInstanceOperation, executeSyncHandler, Proxied
    <2>3. slot[r].routed \in Decision
      BY <1>0, <2>1 DEF Coherent, Slot
    <2> QED BY <1>0, <2>1, <2>2, <2>3, AllStatus, ReplyStep
  <1>6. CASE listInstancesHandler(r) \/ getInstanceHandler(r)
    <2>1. CASE slot[r].pc = "resolve" /\ Query(r)
      <3>1. CASE store = Nil
        <4>1. Reply(r, Refused, 503) /\ Refused \in Decision
          BY <2>1, <3>1 DEF Query, resolveEndpoint, Decision
        <4> QED BY <1>0, <2>1, <4>1, AllStatus, ReplyStep
      <3>2. CASE store # Nil
        <4>1. <<"index", store>> \in Decision \ {Refused}
          BY <1>0, <3>2 DEF TypeOK, Decision, Refused
        <4>2. To(r, "upstream", <<"index", store>>)
          BY <2>1, <3>2, <4>1 DEF Query, resolveEndpoint
        <4> QED BY <1>0, <2>1, <4>1, <4>2, ToStep
      <3> QED BY <3>1, <3>2
    <2>2. CASE slot[r].pc = "upstream" /\ \E st \in {200, 404, 502} : Reply(r, slot[r].routed, st)
      <3>1. PICK st \in {200, 404, 502} : Reply(r, slot[r].routed, st)
        BY <2>2
      <3>2. slot[r].routed \in Decision
        BY <1>0, <2>2 DEF Coherent, Slot
      <3> QED BY <1>0, <2>2, <3>1, <3>2, AllStatus, ReplyStep
    <2> QED BY <1>6, <2>1, <2>2 DEF listInstancesHandler, getInstanceHandler, At, post
  <1>7. CASE listDefinitionsHandler(r)
    <2>1. slot[r].pc = "resolve" /\ Reply(r, <<"versions", Snapshot>>, 200)
      BY <1>7 DEF listDefinitionsHandler, At
    <2>2. <<"versions", Snapshot>> \in Decision
      BY DEF Decision, Snapshot
    <2> QED BY <1>0, <2>1, <2>2, AllStatus, ReplyStep
  <1>8. CASE FindDefinition(r)
    <2> DEFINE items == {d \in Definitions : cached[d] = slot[r].version}
    <2>1. slot[r].pc = "resolve"
      BY <1>8 DEF FindDefinition, At
    <2>2. CASE items = {}
      <3>1. Reply(r, Refused, 404) /\ Refused \in Decision
        BY <1>8, <2>2 DEF FindDefinition, Decision
      <3> QED BY <1>0, <2>1, <3>1, AllStatus, ReplyStep
    <2>3. CASE items # {}
      <3>1. PICK d \in Definitions : slot' = [slot EXCEPT ![r] = [@ EXCEPT !.pc = "document", !.found = d]]
        BY <1>8, <2>3 DEF FindDefinition
      <3>2. d \in Found
        BY DEF Found
      <3> QED BY <1>0, <2>1, <3>1, <3>2, FoundStep
    <2> QED BY <2>2, <2>3
  <1>9. CASE ReadDefinition(r)
    <2> DEFINE doc == documents[slot[r].found]
    <2>1. slot[r].pc = "document" /\ doc \in Versions \cup {Nil}
      BY <1>0, <1>9 DEF ReadDefinition, At, Coherent, WorldType
    <2>2. <<"failed">> \in Decision /\ (doc # Nil => <<"document", doc>> \in Decision)
      BY <2>1 DEF Decision
    <2>3. (doc # Nil /\ Reply(r, <<"document", doc>>, 200)) \/ Reply(r, <<"failed">>, 502)
      BY <1>9 DEF ReadDefinition
    <2> QED BY <1>0, <2>1, <2>2, <2>3, AllStatus, ReplyStep
  <1>10. CASE Close(r)
    BY <1>0, <1>10, IdleIsCoherent, SlotStep DEF Close
  <1> QED BY <1>1, <1>2, <1>3, <1>4, <1>5, <1>6, <1>7, <1>8, <1>9, <1>10
          DEF Handlers, suspendHandler, getDefinitionHandler

LEMMA ExecuteAsyncInv ==
  ASSUME ServerInv, NEW r \in Requests, executeAsyncHandler(r)
  PROVE  ServerInv'
  <1> USE ServerConstants
  <1>0. slot \in [Requests -> Slot] /\ slot[r] \in Slot /\ Coherent(slot[r])
    BY DEF ServerInv
  <1>1. CASE NotAccepted(r)
    <2>1. PICK st \in {202, 502} : Reply(r, slot[r].routed, st)
      BY <1>1 DEF NotAccepted
    <2>2. slot[r].pc = "upstream" /\ UNCHANGED World
      BY <1>1 DEF NotAccepted, At, executeAsyncHandler, World
    <2>3. slot[r].routed \in Decision
      BY <1>0, <2>2 DEF Coherent, Slot
    <2> QED BY <2>1, <2>2, <2>3, AllStatus, ReplyStep
  <1>2. ASSUME NEW id \in Instances \ issued, Tell(r, id), At(r, "upstream", {"async"}),
               instances' = instances \/ \E podName \in Leases \cup Pods : CacheInstance(id, podName)
        PROVE  ServerInv'
    <2>0. PICK st \in Status : st = 202
      BY AllStatus
    <2>1. /\ issued' = issued \cup {id}
          /\ slot' = [slot EXCEPT ![r] = [@ EXCEPT !.pc = "answered", !.status = st, !.id = id]]
      BY <1>2, <2>0 DEF Tell
    <2>2. slot[r].pc = "upstream" /\ slot[r].op = "async" /\ id # Nil
      BY <1>2 DEF At
    <2> DEFINE s == [slot[r] EXCEPT !.pc = "answered", !.status = st, !.id = id]
    <2>3. s \in Slot
      <3>1. "answered" \in Places
        BY DEF Places
      <3> QED BY <1>0, <3>1, SlotEdits
    <2>4. slot' \in [Requests -> Slot] /\ slot'[r] = s /\ \A q \in Requests \ {r} : slot'[q] = slot[q]
      BY <1>0, <2>1, <2>3
    <2>5. /\ instances' \in [Instances -> Leases \cup Pods \cup {Nil}]
          /\ \A i \in Instances \ {id} : instances'[i] = instances[i]
          /\ instances[id] = Nil
      BY <1>2 DEF ServerInv, WorldType, CacheInstance
    <2>6. TypeOK' /\ WorldType'
      BY <2>1, <2>5 DEF ServerInv, TypeOK, WorldType, executeAsyncHandler, vars
    <2>7. \A i \in Instances : instances'[i] # Nil => i \in issued'
      BY <2>1, <2>5 DEF ServerInv
    <2>8. Coherent(slot[r])'
      <3>1. /\ s.pc = "answered" /\ s.op = "async" /\ s.id = id /\ s.routed = slot[r].routed
        BY <1>0, <2>2 DEF Slot
      <3>2. s.routed # Nil
        BY <1>0, <2>2, <3>1 DEF Coherent
      <3> HIDE DEF s
      <3>3. "async" \in Operations
        BY DEF Operations, RuntimeOps, Executions
      <3> QED BY <2>2, <2>4, <3>1, <3>2, <3>3 DEF Coherent
    <2>9. ASSUME NEW q \in Requests \ {r} PROVE Coherent(slot[q])'
      <3>1. Coherent(slot[q]) /\ slot[q] \in Slot /\ slot'[q] = slot[q]
        BY <2>4 DEF ServerInv
      <3>2. slot[q].id \in Instances => instances[slot[q].id] = Nil \/ instances'[slot[q].id] = instances[slot[q].id]
        BY <2>5
      <3>3. slot[q].id \in Instances \cup {Nil}
        BY <3>1 DEF Slot
      <3> QED BY <3>1, <3>2, <3>3 DEF Coherent
    <2> QED BY <2>4, <2>6, <2>7, <2>8, <2>9 DEF ServerInv
  <1>3. CASE Accepted(r)
    BY <1>2, <1>3 DEF Accepted
  <1>4. CASE AcceptedUncached(r)
    BY <1>2, <1>4 DEF AcceptedUncached
  <1> QED BY <1>1, <1>3, <1>4 DEF executeAsyncHandler

LEMMA ArriveInv ==
  ASSUME ServerInv, NEW r \in Requests, Arrive(r)
  PROVE  ServerInv'
  <1> USE ServerConstants
  <1>1. PICK op \in ops[r], version \in Versions \cup {Nil}, id \in Instances \cup {Nil} : Begin(r, op, version, id)
    BY DEF Arrive
  <1> DEFINE s == [Idle EXCEPT !.pc = "resolve", !.op = op, !.version = version, !.id = id]
  <1>2. op \in Operations /\ UNCHANGED World /\ slot' = [slot EXCEPT ![r] = s] /\ ((op = "instance") = (id # Nil))
    BY <1>1 DEF Begin, Arrive, ServerInv, WorldType, World
  <1>3. Idle \in Slot /\ Idle.routed = Nil
    BY IdleIsCoherent DEF Idle
  <1>4. "resolve" \in Places
    BY DEF Places
  <1>5. s \in Slot /\ s.pc = "resolve" /\ s.op = op /\ s.id = id /\ s.routed = Nil
    BY <1>2, <1>3, <1>4 DEF Slot
  <1> HIDE DEF s
  <1>6. Coherent(s)
    BY <1>2, <1>5 DEF Coherent
  <1> QED BY <1>2, <1>5, <1>6, SlotStep

LEMMA LearnsInv ==
  ASSUME ServerInv, Learns \/ (Next /\ UNCHANGED server)
  PROVE  ServerInv'
  <1>1. UNCHANGED <<instances, issued, slot, ops>>
    BY DEF Learns, Replace, LeaseChanges, DefinitionChanges, CacheFollows, Quietly, server
  <1>2. TypeOK'
    BY WatcherType DEF Learns, Replace, LeaseChanges, DefinitionChanges, CacheFollows, Quietly, ServerInv, TypeOK, vars
  <1>3. WorldType'
    <2>1. CASE Learns
      BY <1>1, <2>1 DEF Learns, Replace, LeaseChanges, DefinitionChanges, CacheFollows, WorldType, ServerInv
    <2>2. CASE UNCHANGED server
      BY <2>2 DEF server, WorldType, ServerInv
    <2> QED BY <2>1, <2>2
  <1> QED BY <1>1, <1>2, <1>3 DEF ServerInv, Coherent

LEMMA RestartInv ==
  ASSUME ServerInv, Restart
  PROVE  ServerInv'
  <1> USE ServerConstants
  <1>1. /\ slot' = [r \in Requests |-> Idle] /\ \A i \in Instances : instances'[i] = Nil
    BY DEF Restart, NoInstances
  <1>2. TypeOK'
    <2>1. <<>> \in Seq(Event)
      OBVIOUS
    <2>2. events' \in Seq(Event)
      BY <2>1 DEF Restart
    <2> QED BY <2>2 DEF Restart, ServerInv, TypeOK, Event
  <1>3. WorldType'
    BY DEF Restart, ServerInv, WorldType, Tables, NoInstances
  <1>4. slot' \in [Requests -> Slot] /\ \A r \in Requests : slot'[r] = Idle
    BY <1>1, IdleIsCoherent
  <1>5. \A r \in Requests : Coherent(slot[r])'
    BY <1>4, IdleIsCoherent DEF Coherent
  <1> QED BY <1>1, <1>2, <1>3, <1>4, <1>5 DEF ServerInv

LEMMA ServerInvariant == ServerSpec => []ServerInv
  <1> USE ServerConstants, WatcherConstants
  <1>1. ServerInit => ServerInv
    <2> SUFFICES ASSUME ServerInit PROVE ServerInv
      OBVIOUS
    <2>1. TypeOK
      <3>1. <<>> \in Seq(Event)
        OBVIOUS
      <3>2. events \in Seq(Event)
        BY <3>1 DEF ServerInit, Init
      <3> QED BY <3>2 DEF ServerInit, Init, TypeOK, Event, States
    <2>2. WorldType
      BY DEF ServerInit, WorldType, Tables, NoInstances
    <2>3. slot \in [Requests -> Slot] /\ \A r \in Requests : slot[r] = Idle
      BY IdleIsCoherent DEF ServerInit
    <2>4. \A i \in Instances : instances[i] = Nil
      BY DEF ServerInit, NoInstances
    <2> QED BY <2>1, <2>2, <2>3, <2>4, IdleIsCoherent DEF ServerInv
  <1>2. ServerInv /\ [ServerNext]_svars => ServerInv'
    <2> SUFFICES ASSUME ServerInv, [ServerNext]_svars PROVE ServerInv'
      OBVIOUS
    <2>1. CASE UNCHANGED svars
      BY <2>1 DEF svars, server, vars, ServerInv, TypeOK, WorldType, Coherent
    <2> QED BY <2>1, HandlersInv, ExecuteAsyncInv, ArriveInv, LearnsInv, RestartInv DEF ServerNext
  <1> QED BY <1>1, <1>2, PTL DEF ServerSpec

\* The gateway's state is well typed in every state that requests, restarts
\* and everything it is told can lead to; the endpoint of another namespace's
\* platform never gets into the store.
THEOREM ServerTypeCorrect == ServerSpec => []ServerTypeOK
  <1>1. ServerInv => ServerTypeOK
    BY DEF ServerInv, ServerTypeOK, WorldType, Slot, Places, Status
  <1> QED BY <1>1, ServerInvariant, PTL

-----------------------------------------------------------------------------
(* The promise is kept                                                     *)

\* A request in flight asks something.
LEMMA AsksType ==
  ASSUME NEW s \in Slot, Coherent(s), s.pc # "idle"
  PROVE  Asks(s) \in Question /\ Asks(s) # Nil
  BY ServerConstants DEF Slot, Coherent, Asks, Question

\* Nothing that the promise speaks of changes, except what the gateway is told.
LEMMA NothingDecided ==
  ASSUME \A r \in Requests : Asks(slot'[r]) = Asks(slot[r]) /\ slot'[r].routed = slot[r].routed,
         instances' = instances
  PROVE  Promise!Learn
  BY DEF Promise!Learn, Asks

\* One request is decided, by what is known in this step.
LEMMA Decided ==
  ASSUME ServerInv, NEW r \in Requests, UNCHANGED World, slot[r].pc # "idle", slot[r].routed = Nil,
         slot'[r].routed \in Promise!Permitted(Asks(slot[r])), Asks(slot'[r]) = Asks(slot[r]),
         \A q \in Requests \ {r} : slot'[q] = slot[q]
  PROVE  Promise!Decide(r)
  <1>1. slot[r] \in Slot /\ Coherent(slot[r])
    BY DEF ServerInv
  <1>2. Asks(slot[r]) # Nil
    BY <1>1, AsksType
  <1>3. [q \in Requests |-> slot'[q].routed] = [[q \in Requests |-> slot[q].routed] EXCEPT ![r] = slot'[r].routed]
    OBVIOUS
  <1>4. [q \in Requests |-> Asks(slot'[q])] = [q \in Requests |-> Asks(slot[q])]
    OBVIOUS
  <1>5. /\ [q \in Requests |-> Asks(slot[q])][r] = Asks(slot[r])
        /\ [q \in Requests |-> slot[q].routed][r] = slot[r].routed
    OBVIOUS
  <1>6. UNCHANGED <<table, leases, store, cached, documents, instances>>
    BY DEF World, vars
  <1>7. [q \in Requests |-> Asks(slot[q])]' = [q \in Requests |-> Asks(slot'[q])]
    BY DEF Asks
  <1> QED BY <1>2, <1>3, <1>4, <1>5, <1>6, <1>7 DEF Promise!Decide, Promise!World

\* What a handler that routes or answers does to the slots.
LEMMA RouteEffect ==
  ASSUME ServerInv, NEW r \in Requests, NEW d, slot[r].pc # "idle",
         \/ \E st : Reply(r, d, st)
         \/ \E pc \in Places \ {"idle"} : To(r, pc, d)
         \/ Forward(r, d)
  PROVE  /\ slot'[r].routed = d /\ Asks(slot'[r]) = Asks(slot[r])
         /\ \A q \in Requests \ {r} : slot'[q] = slot[q]
  <1>0. slot \in [Requests -> Slot] /\ slot[r] \in Slot
    BY DEF ServerInv
  <1>1. ASSUME NEW st, Reply(r, d, st)
        PROVE  /\ slot'[r].routed = d /\ Asks(slot'[r]) = Asks(slot[r])
               /\ \A q \in Requests \ {r} : slot'[q] = slot[q]
    <2>1. /\ slot'[r] = [slot[r] EXCEPT !.pc = "answered", !.routed = d, !.status = st]
          /\ \A q \in Requests \ {r} : slot'[q] = slot[q]
      BY <1>0, <1>1 DEF Reply
    <2> QED BY <1>0, <2>1 DEF Asks, Slot
  <1>2. ASSUME NEW pc, pc # "idle", To(r, pc, d)
        PROVE  /\ slot'[r].routed = d /\ Asks(slot'[r]) = Asks(slot[r])
               /\ \A q \in Requests \ {r} : slot'[q] = slot[q]
    <2>1. /\ slot'[r] = [slot[r] EXCEPT !.pc = pc, !.routed = d]
          /\ \A q \in Requests \ {r} : slot'[q] = slot[q]
      BY <1>0, <1>2 DEF To
    <2> QED BY <1>0, <1>2, <2>1 DEF Asks, Slot
  <1> QED BY <1>1, <1>2 DEF Forward

\* Each operation may be decided as its handler decides it.
LEMMA PermitExecution ==
  ASSUME WorldType, NEW v \in Versions \cup {Nil}, NEW d \in ResolveExecution(v)
  PROVE  d \in Promise!OrRefused(Promise!Services(v))
  <1> USE ServerConstants
  <1>1. CASE d = Refused
    <2>1. (IF v # Nil THEN Lookup(v) ELSE LookupLatest) = {}
      BY <1>1 DEF ResolveExecution, Refused
    <2>2. \A u \in Versions : table[u] # Nil => v \notin {u, Nil}
      BY <2>1 DEF Lookup, LookupLatest
    <2>3. Promise!Services(v) = {}
      BY <2>2 DEF Promise!Services
    <2> QED BY <1>1, <2>3 DEF Promise!OrRefused, Promise!Refused, Refused
  <1>2. CASE d # Refused
    <2>1. PICK u \in (IF v # Nil THEN Lookup(v) ELSE LookupLatest) : d = <<"service", u>>
      BY <1>2 DEF ResolveExecution
    <2>2. PICK w \in Versions : u = table[w] /\ table[w] # Nil /\ v \in {w, Nil}
      BY <2>1 DEF Lookup, LookupLatest
    <2>3. d \in Promise!Services(v)
      BY <2>1, <2>2 DEF Promise!Services
    <2> QED BY <2>3 DEF Promise!OrRefused
  <1> QED BY <1>1, <1>2

LEMMA PermitOf ==
  ASSUME NEW q \in Question
  PROVE  /\ q.op \in Executions => Promise!Permitted(q) = Promise!OrRefused(Promise!Services(q.version))
         /\ q.op = "instance" =>
               Promise!Permitted(q) = Promise!PodOf(q.id) \cup Promise!OrRefused(Promise!Services(Nil))
         /\ q.op \in Queries => Promise!Permitted(q) = {resolveEndpoint}
         /\ q.op = "catalog" => Promise!Permitted(q) = {<<"versions", Snapshot>>}
         /\ q.op = "definition" => /\ <<"failed">> \in Promise!Permitted(q)
                                   /\ \A d \in DOMAIN documents : documents[d] # Nil =>
                                         <<"document", documents[d]>> \in Promise!Permitted(q)
                                   /\ (\A d \in DOMAIN cached : cached[d] # q.version) =>
                                         Refused \in Promise!Permitted(q)
  <1>1. q.op \in Executions => Promise!Permitted(q) = Promise!OrRefused(Promise!Services(q.version))
    BY DEF Promise!Permitted, Executions
  <1>2. q.op = "instance" =>
               Promise!Permitted(q) = Promise!PodOf(q.id) \cup Promise!OrRefused(Promise!Services(Nil))
    BY DEF Promise!Permitted
  <1>3. q.op \in Queries => Promise!Permitted(q) = {resolveEndpoint}
    BY DEF Promise!Permitted, Promise!Refused, Refused, Queries, resolveEndpoint
  <1>4. q.op = "catalog" => Promise!Permitted(q) = {<<"versions", Snapshot>>}
    BY DEF Promise!Permitted, Snapshot
  <1>5. q.op = "definition" => /\ <<"failed">> \in Promise!Permitted(q)
                               /\ \A d \in DOMAIN documents : documents[d] # Nil =>
                                     <<"document", documents[d]>> \in Promise!Permitted(q)
                               /\ (\A d \in DOMAIN cached : cached[d] # q.version) =>
                                     Refused \in Promise!Permitted(q)
    BY DEF Promise!Permitted, Promise!Refused, Refused
  <1> QED BY <1>1, <1>2, <1>3, <1>4, <1>5

LEMMA HandlersKeepPromise ==
  ASSUME ServerInv, NEW r \in Requests, Handlers(r)
  PROVE  Promise!Learn \/ Promise!Decide(r) \/ Promise!Close(r)
  <1> USE ServerConstants
  <1>0. /\ UNCHANGED World /\ slot \in [Requests -> Slot] /\ slot[r] \in Slot /\ Coherent(slot[r]) /\ WorldType
    BY DEF Handlers, World, ServerInv
  <1> DEFINE q == Asks(slot[r])
  <1>1. slot[r].pc # "idle" =>
          /\ q \in Question /\ q.op = slot[r].op /\ q.version = slot[r].version
          /\ q.op = "instance" => q.id = slot[r].id
    BY <1>0, AsksType DEF Asks
  <1> HIDE DEF q
  \* The request is decided for d.
  <1>2. ASSUME NEW d, slot[r].pc # "idle", slot[r].routed = Nil, d \in Promise!Permitted(q),
               \/ \E st : Reply(r, d, st)
               \/ \E pc \in Places \ {"idle"} : To(r, pc, d)
               \/ Forward(r, d)
        PROVE  Promise!Decide(r)
    <2>1. /\ slot'[r].routed = d /\ Asks(slot'[r]) = Asks(slot[r])
          /\ \A p \in Requests \ {r} : slot'[p] = slot[p]
      BY <1>2, RouteEffect
    <2> QED BY <1>0, <1>2, <2>1, Decided DEF q
  \* It has been decided before, or is still open.
  <1>3. ASSUME slot[r].pc # "idle",
               \/ \E st : Reply(r, slot[r].routed, st)
               \/ \E pc \in Places \ {"idle"} : To(r, pc, slot[r].routed)
        PROVE  Promise!Learn
    <2>1. /\ slot'[r].routed = slot[r].routed /\ Asks(slot'[r]) = Asks(slot[r])
          /\ \A p \in Requests \ {r} : slot'[p] = slot[p]
      BY <1>3, RouteEffect
    <2>2. instances' = instances
      BY <1>0 DEF World
    <2> QED BY <2>1, <2>2, NothingDecided
  <1>4. ASSUME slot[r].pc # "idle", NEW pc, pc # "idle", NEW f,
               slot' = [slot EXCEPT ![r] = [@ EXCEPT !.pc = pc, !.found = f]]
        PROVE  Promise!Learn
    <2>1. slot'[r] = [slot[r] EXCEPT !.pc = pc, !.found = f] /\ \A p \in Requests \ {r} : slot'[p] = slot[p]
      BY <1>0, <1>4
    <2>2. slot'[r].routed = slot[r].routed /\ Asks(slot'[r]) = Asks(slot[r])
      BY <1>0, <1>4, <2>1 DEF Asks, Slot
    <2>3. instances' = instances
      BY <1>0 DEF World
    <2> QED BY <2>1, <2>2, <2>3, NothingDecided
  <1>5. slot[r].pc \in {"resolve", "lease", "table", "document"} => slot[r].routed = Nil
    BY <1>0 DEF Coherent
  <1>6. CASE resolveWorkflow(r)
    <2>1. PICK d \in ResolveExecution(slot[r].version) : Forward(r, d)
      BY <1>6 DEF resolveWorkflow
    <2>2. slot[r].pc = "resolve" /\ slot[r].op \in Executions
      BY <1>6 DEF resolveWorkflow, At
    <2>3. d \in Promise!OrRefused(Promise!Services(slot[r].version))
      BY <1>0, PermitExecution DEF Slot
    <2>4. d \in Promise!Permitted(q)
      BY <1>1, <2>2, <2>3, PermitOf
    <2> QED BY <1>2, <1>5, <2>1, <2>2, <2>4
  <1>7. CASE LookupInstance(r)
    BY <1>4, <1>7 DEF LookupInstance, At
  <1>8. CASE PodFor(r)
    <2>1. slot[r].pc = "lease" /\ slot[r].op = "instance" /\ slot[r].routed = Nil
      BY <1>5, <1>8 DEF PodFor, At
    <2>2. CASE To(r, "table", Nil)
      BY <1>3, <2>1, <2>2 DEF Places
    <2>3. CASE /\ slot[r].found \in Leases /\ leases[slot[r].found] # Nil
               /\ To(r, "upstream", <<"pod", leases[slot[r].found]>>)
      <3>1. instances[slot[r].id] = slot[r].found /\ DOMAIN leases = Leases
        BY <1>0, <2>1 DEF Coherent, WorldType
      <3>2. <<"pod", leases[slot[r].found]>> \in Promise!PodOf(q.id)
        BY <1>1, <2>1, <2>3, <3>1 DEF Promise!PodOf
      <3>3. <<"pod", leases[slot[r].found]>> \in Promise!Permitted(q)
        BY <1>1, <2>1, <3>2, PermitOf
      <3> QED BY <1>2, <2>1, <2>3, <3>3 DEF Places
    <2> QED BY <1>8, <2>2, <2>3 DEF PodFor
  <1>9. CASE FallBack(r)
    <2>1. PICK d \in ResolveExecution(Nil) : Forward(r, d)
      BY <1>9 DEF FallBack
    <2>2. slot[r].pc = "table" /\ slot[r].op = "instance"
      BY <1>9 DEF FallBack, At
    <2>3. d \in Promise!OrRefused(Promise!Services(Nil))
      BY <1>0, PermitExecution
    <2>4. d \in Promise!Permitted(q)
      BY <1>1, <2>2, <2>3, PermitOf
    <2> QED BY <1>2, <1>5, <2>1, <2>2, <2>4
  <1>10. CASE proxyInstanceOperation(r) \/ executeSyncHandler(r)
    BY <1>3, <1>10 DEF proxyInstanceOperation, executeSyncHandler, At, Proxied
  <1>11. CASE listInstancesHandler(r) \/ getInstanceHandler(r)
    <2>1. CASE slot[r].pc = "resolve" /\ slot[r].op \in Queries /\ Query(r)
      <3>1. resolveEndpoint \in Promise!Permitted(q)
        BY <1>1, <2>1, PermitOf
      <3>2. Reply(r, resolveEndpoint, 503) \/ To(r, "upstream", resolveEndpoint)
        BY <2>1 DEF Query
      <3> QED BY <1>2, <1>5, <2>1, <3>1, <3>2 DEF Places
    <2>2. CASE slot[r].pc = "upstream" /\ \E st : Reply(r, slot[r].routed, st)
      BY <1>3, <2>2
    <2> QED BY <1>11, <2>1, <2>2 DEF listInstancesHandler, getInstanceHandler, At, Queries
  <1>12. CASE listDefinitionsHandler(r)
    <2>1. slot[r].pc = "resolve" /\ slot[r].op = "catalog" /\ Reply(r, <<"versions", Snapshot>>, 200)
      BY <1>12 DEF listDefinitionsHandler, At
    <2>2. <<"versions", Snapshot>> \in Promise!Permitted(q)
      BY <1>1, <2>1, PermitOf
    <2> QED BY <1>2, <1>5, <2>1, <2>2
  <1>13. CASE FindDefinition(r)
    <2> DEFINE items == {d \in Definitions : cached[d] = slot[r].version}
    <2>1. slot[r].pc = "resolve" /\ slot[r].op = "definition"
      BY <1>13 DEF FindDefinition, At
    <2>2. CASE items = {}
      <3>1. Reply(r, Refused, 404)
        BY <1>13, <2>2 DEF FindDefinition
      <3>2. \A d \in DOMAIN cached : cached[d] # slot[r].version
        BY <1>0, <2>2 DEF WorldType
      <3>3. Refused \in Promise!Permitted(q)
        BY <1>1, <2>1, <3>2, PermitOf
      <3> QED BY <1>2, <1>5, <2>1, <3>1, <3>3
    <2>3. CASE items # {}
      <3>1. PICK d : slot' = [slot EXCEPT ![r] = [@ EXCEPT !.pc = "document", !.found = d]]
        BY <1>13, <2>3 DEF FindDefinition
      <3> QED BY <1>4, <2>1, <3>1
    <2> QED BY <2>2, <2>3
  <1>14. CASE ReadDefinition(r)
    <2>1. /\ slot[r].pc = "document" /\ slot[r].op = "definition"
          /\ slot[r].found \in Definitions /\ DOMAIN documents = Definitions
      BY <1>0, <1>14 DEF ReadDefinition, At, Coherent, WorldType
    <2>2. CASE Reply(r, <<"failed">>, 502)
      <3>1. <<"failed">> \in Promise!Permitted(q)
        BY <1>1, <2>1, PermitOf
      <3> QED BY <1>2, <1>5, <2>1, <2>2, <3>1
    <2>3. CASE documents[slot[r].found] # Nil /\ Reply(r, <<"document", documents[slot[r].found]>>, 200)
      <3>1. <<"document", documents[slot[r].found]>> \in Promise!Permitted(q)
        BY <1>1, <2>1, <2>3, PermitOf
      <3> QED BY <1>2, <1>5, <2>1, <2>3, <3>1
    <2> QED BY <1>14, <2>2, <2>3 DEF ReadDefinition
  <1>15. CASE Close(r)
    <2>1. slot[r].pc = "answered" /\ slot'[r] = Idle /\ \A p \in Requests \ {r} : slot'[p] = slot[p]
      BY <1>0, <1>15 DEF Close
    <2>2. slot[r].routed # Nil /\ Asks(slot[r]) # Nil /\ Asks(Idle) = Nil /\ Idle.routed = Nil
      BY <1>0, <2>1, AsksType DEF Coherent, Asks, Idle
    <2>3. /\ [p \in Requests |-> Asks(slot'[p])] = [[p \in Requests |-> Asks(slot[p])] EXCEPT ![r] = Nil]
          /\ [p \in Requests |-> slot'[p].routed] = [[p \in Requests |-> slot[p].routed] EXCEPT ![r] = Nil]
      BY <2>1, <2>2
    <2>4. [p \in Requests |-> Asks(slot[p])]' = [p \in Requests |-> Asks(slot'[p])]
      BY DEF Asks
    <2>5. UNCHANGED <<table, leases, store, cached, documents, instances>>
      BY <1>0 DEF World, vars
    <2>6. /\ [p \in Requests |-> Asks(slot[p])][r] # Nil /\ [p \in Requests |-> slot[p].routed][r] # Nil
      BY <2>2
    <2> QED BY <2>3, <2>4, <2>5, <2>6 DEF Promise!Close, Promise!World
  <1> QED BY <1>6, <1>7, <1>8, <1>9, <1>10, <1>11, <1>12, <1>13, <1>14, <1>15
          DEF Handlers, suspendHandler, getDefinitionHandler

LEMMA ArriveAsks ==
  ASSUME ServerInv, NEW r \in Requests, Arrive(r)
  PROVE  Promise!Ask(r)
  <1> USE ServerConstants
  <1>0. slot \in [Requests -> Slot] /\ ServerInv' /\ UNCHANGED World
    BY ArriveInv DEF ServerInv, Arrive, World
  <1>1. PICK op \in ops[r], version \in Versions \cup {Nil}, id \in Instances \cup {Nil} : Begin(r, op, version, id)
    BY DEF Arrive
  <1>2. /\ slot[r].pc = "idle" /\ \A p \in Requests \ {r} : slot'[p] = slot[p]
        /\ slot'[r] = [Idle EXCEPT !.pc = "resolve", !.op = op, !.version = version, !.id = id]
    BY <1>0, <1>1 DEF Begin
  <1>3. slot'[r] \in Slot /\ slot'[r].pc = "resolve" /\ slot'[r].routed = Nil /\ slot'[r].op \in Operations
    <2>1. Idle \in Slot /\ Idle.routed = Nil /\ op \in Operations /\ "resolve" \in Places
      BY IdleIsCoherent DEF Idle, ServerInv, WorldType, Places
    <2> HIDE DEF Idle
    <2> QED BY <1>2, <2>1 DEF Slot
  <1>4. PICK q : q = Asks(slot'[r])
    OBVIOUS
  <1>5. q \in Question
    BY <1>3, <1>4 DEF Asks, Question, Slot
  <1>6. slot[r].routed = Nil /\ Asks(slot[r]) = Nil
    BY <1>2 DEF ServerInv, Coherent, Asks
  <1>7. /\ [p \in Requests |-> Asks(slot'[p])] = [[p \in Requests |-> Asks(slot[p])] EXCEPT ![r] = q]
        /\ [p \in Requests |-> slot'[p].routed] = [p \in Requests |-> slot[p].routed]
        /\ [p \in Requests |-> Asks(slot[p])][r] = Nil
    <2>1. \A p \in Requests : /\ Asks(slot'[p]) = IF p = r THEN q ELSE Asks(slot[p])
                              /\ slot'[p].routed = slot[p].routed
      BY <1>2, <1>3, <1>4, <1>6
    <2> QED BY <1>6, <2>1
  <1>8. [p \in Requests |-> Asks(slot[p])]' = [p \in Requests |-> Asks(slot'[p])]
    BY DEF Asks
  <1>9. UNCHANGED <<table, leases, store, cached, documents, instances>> /\ DOMAIN instances = Instances
    BY <1>0 DEF World, vars, ServerInv, WorldType
  <1>10. q \in [op : {"async", "sync", "instance", "list", "get", "catalog", "definition"},
                version : Versions \cup {Nil}, id : DOMAIN instances \cup {Nil}]
    BY <1>5, <1>9 DEF Question, Operations, RuntimeOps, Executions, Queries
  <1> QED BY <1>7, <1>8, <1>9, <1>10 DEF Promise!Ask, Promise!World

LEMMA ExecuteAsyncKeepsPromise ==
  ASSUME ServerInv, NEW r \in Requests, executeAsyncHandler(r)
  PROVE  Promise!Learn \/ Promise!Accept(r)
  <1> USE ServerConstants
  <1>0. /\ slot \in [Requests -> Slot] /\ slot[r] \in Slot /\ Coherent(slot[r])
        /\ instances \in [Instances -> Leases \cup Pods \cup {Nil}]
        /\ slot[r].pc = "upstream" /\ slot[r].op = "async"
    <2>1. slot[r].pc = "upstream" /\ slot[r].op = "async"
      BY DEF executeAsyncHandler, Accepted, AcceptedUncached, NotAccepted, At
    <2> QED BY <2>1 DEF ServerInv, WorldType
  <1>1. CASE NotAccepted(r)
    <2>1. PICK st : Reply(r, slot[r].routed, st)
      BY <1>1 DEF NotAccepted
    <2>2. /\ slot'[r].routed = slot[r].routed /\ Asks(slot'[r]) = Asks(slot[r])
          /\ \A p \in Requests \ {r} : slot'[p] = slot[p]
      BY <1>0, <2>1, RouteEffect
    <2> QED BY <1>1, <2>2, NothingDecided DEF NotAccepted
  <1>2. CASE Accepted(r)
    <2>1. PICK id \in Instances \ issued, podName \in Leases \cup Pods : \E st :
             /\ instances' = [instances EXCEPT ![id] = podName]
             /\ slot' = [slot EXCEPT ![r] = [@ EXCEPT !.pc = "answered", !.status = st, !.id = id]]
      BY <1>2 DEF Accepted, CacheInstance, Tell
    <2>2. PICK st : slot' = [slot EXCEPT ![r] = [@ EXCEPT !.pc = "answered", !.status = st, !.id = id]]
      BY <2>1
    <2>3. /\ slot'[r] = [slot[r] EXCEPT !.pc = "answered", !.status = st, !.id = id]
          /\ \A p \in Requests \ {r} : slot'[p] = slot[p]
      BY <1>0, <2>2
    <2>4. slot'[r].routed = slot[r].routed /\ Asks(slot'[r]) = Asks(slot[r]) /\ Asks(slot[r]).op = "async"
      BY <1>0, <2>3 DEF Asks, Slot
    <2>5. Asks(slot[r]) # Nil
      BY <1>0, AsksType
    <2>6. slot[r].routed \notin {Nil, Promise!Refused}
      BY <1>0 DEF Coherent, Promise!Refused, Refused
    <2>7. /\ id \in DOMAIN instances /\ instances[id] = Nil /\ DOMAIN instances' = DOMAIN instances
          /\ \A j \in DOMAIN instances \ {id} : instances'[j] = instances[j]
      BY <1>0, <2>1 DEF ServerInv
    <2>8. /\ [p \in Requests |-> Asks(slot'[p])] = [p \in Requests |-> Asks(slot[p])]
          /\ [p \in Requests |-> slot'[p].routed] = [p \in Requests |-> slot[p].routed]
          /\ [p \in Requests |-> Asks(slot[p])][r] = Asks(slot[r])
          /\ [p \in Requests |-> slot[p].routed][r] = slot[r].routed
      BY <2>3, <2>4
    <2>9. [p \in Requests |-> Asks(slot[p])]' = [p \in Requests |-> Asks(slot'[p])]
      BY DEF Asks
    <2>10. UNCHANGED <<table, leases, store, cached, documents>>
      BY DEF executeAsyncHandler, vars
    <2> QED BY <2>4, <2>5, <2>6, <2>7, <2>8, <2>9, <2>10 DEF Promise!Accept, Promise!World
  <1>3. CASE AcceptedUncached(r)
    <2>1. PICK id, st : slot' = [slot EXCEPT ![r] = [@ EXCEPT !.pc = "answered", !.status = st, !.id = id]]
      BY <1>3 DEF AcceptedUncached, Tell
    <2>2. /\ slot'[r] = [slot[r] EXCEPT !.pc = "answered", !.status = st, !.id = id]
          /\ \A p \in Requests \ {r} : slot'[p] = slot[p]
      BY <1>0, <2>1
    <2>3. slot'[r].routed = slot[r].routed /\ Asks(slot'[r]) = Asks(slot[r])
      BY <1>0, <2>2 DEF Asks, Slot
    <2> QED BY <1>3, <2>2, <2>3, NothingDecided DEF AcceptedUncached
  <1> QED BY <1>1, <1>2, <1>3 DEF executeAsyncHandler

\* The server implements the promise of module RequestRouting: although the
\* handlers read instance cache, lease and table one after the other, each
\* request is routed by what was known at one moment of it.
THEOREM ServerKeepsPromise == ServerSpec => KeepsPromise
  <1>1. ServerInit => Promise!Init
    <2> SUFFICES ASSUME ServerInit PROVE Promise!Init
      OBVIOUS
    <2>1. \A r \in Requests : Asks(slot[r]) = Nil /\ slot[r].routed = Nil
      BY DEF ServerInit, Idle, Asks
    <2>2. instances \in [DOMAIN instances -> {Nil}]
      BY DEF ServerInit, NoInstances
    <2> QED BY <2>1, <2>2 DEF Promise!Init
  <1>2. ServerInv /\ [ServerNext]_svars => [Promise!Next]_(Promise!vars)
    <2> SUFFICES ASSUME ServerInv, [ServerNext]_svars PROVE Promise!Next
      OBVIOUS
    <2>1. CASE Learns \/ UNCHANGED server
      <3>1. UNCHANGED <<slot, instances>>
        BY <2>1 DEF server, Learns, Replace, LeaseChanges, DefinitionChanges, CacheFollows, Quietly
      <3> QED BY <3>1, NothingDecided DEF Promise!Next
    <2>2. CASE Restart
      <3>1. /\ \A r \in Requests : Asks(slot'[r]) = Nil /\ slot'[r].routed = Nil
            /\ instances' = [i \in DOMAIN instances |-> Nil]
        BY <2>2 DEF Restart, Idle, Asks, NoInstances, ServerInv, WorldType
      <3>2. [r \in Requests |-> Asks(slot[r])]' = [r \in Requests |-> Asks(slot'[r])]
        BY DEF Asks
      <3> QED BY <3>1, <3>2 DEF Promise!Restart, Promise!Next
    <2>3. CASE UNCHANGED svars
      BY <2>1, <2>3 DEF svars
    <2> QED BY <2>1, <2>2, <2>3, HandlersKeepPromise, ArriveAsks, ExecuteAsyncKeepsPromise DEF ServerNext, Promise!Next
  <1> QED BY <1>1, <1>2, ServerInvariant, PTL DEF ServerSpec, KeepsPromise, Promise!Spec

=============================================================================
