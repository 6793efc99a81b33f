---------------------------- MODULE GatewayServer ----------------------------
(***************************************************************************)
(* The gateway's HTTP server, with the resolver, the instance cache, the   *)
(* lease resolver, the data index client and the definition reader behind  *)
(* it.  Every request runs in a goroutine of its own, and between any two  *)
(* of its reads the routing table is replaced, leases change hands, the    *)
(* platform watcher (module PlatformWatcher) moves the endpoint, and other *)
(* requests fill the instance cache.                                       *)
(*                                                                         *)
(* The requests ask for one workflow of one namespace: those for others    *)
(* read other keys.  The table is built by module GatewayCatalog; here it  *)
(* is any table.                                                           *)
(***************************************************************************)
EXTENDS PlatformWatcher

CONSTANTS
    Requests,     \* places for requests in flight
    Versions,     \* versions of the workflow
    URLs,         \* execution endpoints
    Instances,    \* instance ids that the runners hand out
    Leases,       \* leases of the runners' pools
    Pods,         \* pods of the runners
    Definitions,  \* names of LogicFlowDefinitions
    Scenarios,    \* for each place, the operations that clients ask for there
    MaxLearned,   \* bound: changes of table, leases and definitions
    MaxRestarts   \* bound: restarts of the gateway

Executions == {"async", "sync"}
Queries == {"list", "get"}
RuntimeOps == Executions \cup {"instance", "catalog"}
Operations == RuntimeOps \cup Queries \cup {"definition"}

\* What is asked, and what can be decided about it.
Question == [op : Operations, version : Versions \cup {Nil}, id : Instances \cup {Nil}]
Refused == <<"refused">>
Decision ==
    {Refused, <<"failed">>} \cup ({"service"} \X URLs) \cup ({"pod"} \X Pods)
        \cup ({"index"} \X (Own \X Endpoints)) \cup ({"versions"} \X SUBSET Versions)
        \cup ({"document"} \X Versions)

ASSUME ServerConstants ==
    /\ Nil \notin Versions \cup URLs \cup Leases \cup Pods \cup Instances
    /\ Nil \notin Operations \cup Question \cup Decision
    /\ Leases \cap Pods = {}
    /\ Scenarios \subseteq [Requests -> SUBSET Operations]
    /\ MaxLearned \in Nat /\ MaxRestarts \in Nat

VARIABLES
    table,      \* the routing table: version -> URL, or Nil
    leases,     \* the cached leases: name -> holder, Nil if absent or without holder
    instances,  \* the instance store: id -> identity, or Nil
    issued,     \* ids that runners have handed out
    cached,     \* the cached definitions: name -> version label, or Nil
    documents,  \* the definitions of the API server
    slot,       \* the requests in flight
    ops,        \* the scenario of this behaviour
    learned, restarts

server == <<table, leases, instances, issued, cached, documents, slot, ops, learned, restarts>>
svars == <<vars, server>>

-----------------------------------------------------------------------------
(* Requests                                                                *)

\* Is one of these asked for?  If not, what only they read need not change.
Asked(S) == \E r \in Requests : ops[r] \cap S # {}

\* pc: idle, resolve, lease, table, document, upstream, answered
Idle == [pc |-> "idle", op |-> Nil, version |-> Nil, id |-> Nil, found |-> Nil,
         routed |-> Nil, status |-> Nil]

\* The request goes on at pc, decided for d; or is answered with a status.
To(r, pc, d) == slot' = [slot EXCEPT ![r] = [@ EXCEPT !.pc = pc, !.routed = d]]
Reply(r, d, status) ==
    slot' = [slot EXCEPT ![r] = [@ EXCEPT !.pc = "answered", !.routed = d, !.status = status]]

At(r, pc, S) == slot[r].pc = pc /\ slot[r].op \in S

-----------------------------------------------------------------------------
Tables == [Versions -> URLs \cup {Nil}]
NoInstances == [i \in Instances |-> Nil]

ServerInit ==
    /\ Init
    /\ ops \in Scenarios
    /\ Asked(Queries) \/ platforms = [p \in Platforms |-> Nil]
    /\ table = [v \in Versions |-> Nil]
    /\ leases \in [Leases -> IF Asked({"instance"}) THEN Pods \cup {Nil} ELSE {Nil}]
    /\ instances = NoInstances /\ issued = {}
    /\ documents \in [Definitions -> IF Asked({"definition"}) THEN Versions \cup {Nil} ELSE {Nil}]
    /\ cached = documents
    /\ slot = [r \in Requests |-> Idle]
    /\ learned = 0 /\ restarts = 0

-----------------------------------------------------------------------------
(* What the gateway learns                                                 *)

Learn == learned < MaxLearned /\ learned' = learned + 1
Quietly == UNCHANGED <<vars, instances, issued, slot, ops, restarts>>

\* The catalog watcher publishes a table.
Replace(t) ==
    /\ Learn /\ Asked(RuntimeOps) /\ t # table
    /\ table' = t
    /\ Quietly /\ UNCHANGED <<leases, cached, documents>>

\* A lease is taken, handed over, released or deleted.
LeaseChanges(l, h) ==
    /\ Learn /\ Asked({"instance"}) /\ h # leases[l]
    /\ leases' = [leases EXCEPT ![l] = h]
    /\ Quietly /\ UNCHANGED <<table, cached, documents>>

\* A definition is created, given another version, or deleted.
DefinitionChanges(d, v) ==
    /\ Learn /\ Asked({"definition"}) /\ v # documents[d]
    /\ documents' = [documents EXCEPT ![d] = v]
    /\ Quietly /\ UNCHANGED <<table, leases, cached>>

\* The cache hears of it later.
CacheFollows(d) ==
    /\ cached[d] # documents[d]
    /\ cached' = [cached EXCEPT ![d] = documents[d]]
    /\ Quietly /\ UNCHANGED <<table, leases, documents, learned>>

-----------------------------------------------------------------------------
(* Handlers: one action per read of shared state                           *)

Begin(r, op, version, id) ==
    /\ slot[r].pc = "idle" /\ op \in ops[r]
    /\ op \in Executions \/ (op = "definition" /\ version # Nil) \/ version = Nil
    /\ (op = "instance") = (id # Nil)
    /\ slot' = [slot EXCEPT ![r] = [Idle EXCEPT !.pc = "resolve", !.op = op,
                                                !.version = version, !.id = id]]

Lookup(version) == {table[version]} \ {Nil}

\* The first that the iteration of the map meets.
LookupLatest == {table[v] : v \in Versions} \ {Nil}

ResolveExecution(version) ==
    LET found == IF version # Nil THEN Lookup(version) ELSE LookupLatest
    IN IF found = {} THEN {Refused} ELSE {<<"service", u>> : u \in found}

\* The request is proxied, or is answered with 404.
Forward(r, d) == IF d = Refused THEN Reply(r, d, 404) ELSE To(r, "upstream", d)

resolveWorkflow(r) ==
    /\ At(r, "resolve", Executions)
    /\ \E d \in ResolveExecution(slot[r].version) : Forward(r, d)

\* ResolveInstance: is the instance in the cache?
LookupInstance(r) ==
    /\ At(r, "resolve", {"instance"})
    /\ LET leaseID == instances[slot[r].id]
       IN slot' = [slot EXCEPT ![r] = [@ EXCEPT !.pc = IF leaseID # Nil THEN "lease" ELSE "table",
                                               !.found = leaseID]]

\* Mutant: a lease that gives no pod ends the request.
PodForOrRefused(r) ==
    /\ At(r, "lease", {"instance"})
    /\ LET leaseID == slot[r].found
       IN \/ /\ leaseID \in Leases /\ leases[leaseID] # Nil
             /\ To(r, "upstream", <<"pod", leases[leaseID]>>)
          \/ Reply(r, Refused, 404)

\* The pod that holds the lease of that name; a lease that is missing, has no
\* holder or cannot be read sends the request to the service.
PodFor(r) ==
    /\ At(r, "lease", {"instance"})
    /\ LET leaseID == slot[r].found
       IN \/ /\ leaseID \in Leases /\ leases[leaseID] # Nil
             /\ To(r, "upstream", <<"pod", leases[leaseID]>>)
          \/ To(r, "table", Nil)

\* The instance's version is not looked at.
FallBack(r) ==
    /\ At(r, "table", {"instance"})
    /\ \E d \in ResolveExecution(Nil) : Forward(r, d)

\* An answer of the runner, or the proxy's own 502 if there is none.
Proxied(r) == \E status \in {200, 502} : Reply(r, slot[r].routed, status)

proxyInstanceOperation(r) == At(r, "upstream", {"instance"}) /\ Proxied(r)

\* suspend, resume and cancel differ in nothing but the path they pass on.
suspendHandler(r) ==
    LookupInstance(r) \/ PodFor(r) \/ FallBack(r) \/ proxyInstanceOperation(r)

\* The answer is passed on as it is, and nothing is cached.
executeSyncHandler(r) == At(r, "upstream", {"sync"}) /\ Proxied(r)

\* CacheInstance: the runner names itself, by a lease or by its pod.
CacheInstance(id, podName) == instances' = [instances EXCEPT ![id] = podName]

\* The client is told the id of the instance that was started.
Tell(r, id) ==
    /\ issued' = issued \cup {id}
    /\ slot' = [slot EXCEPT ![r] = [@ EXCEPT !.pc = "answered", !.status = 202, !.id = id]]

\* The runner accepts and tells instance and application: the id is cached
\* before the answer goes out.
Accepted(r) ==
    /\ At(r, "upstream", {"async"})
    /\ \E id \in Instances \ issued, podName \in Leases \cup Pods :
           CacheInstance(id, podName) /\ Tell(r, id)

\* The runner accepts without naming the application: the answer, id and all,
\* is passed on, but the instance is not in the cache.
AcceptedUncached(r) ==
    /\ At(r, "upstream", {"async"})
    /\ \E id \in Instances \ issued : Tell(r, id)
    /\ UNCHANGED instances

\* The runner does not accept, or its answer names no instance.
NotAccepted(r) ==
    /\ At(r, "upstream", {"async"})
    /\ \E status \in {202, 502} : Reply(r, slot[r].routed, status)
    /\ UNCHANGED <<instances, issued>>

\* Instances are read from the data index, wherever it is now.
resolveEndpoint == IF store = Nil THEN Refused ELSE <<"index", store>>

Query(r) ==
    IF resolveEndpoint = Refused THEN Reply(r, Refused, 503) ELSE To(r, "upstream", resolveEndpoint)

\* Unreachable, no JSON, GraphQL errors, silence for 10 s: all the same error.
post == {200, 502}

listInstancesHandler(r) ==
    \/ At(r, "resolve", {"list"}) /\ Query(r)
    \/ At(r, "upstream", {"list"}) /\ \E status \in post : Reply(r, slot[r].routed, status)

\* An answer without an instance is a 404.
getInstanceHandler(r) ==
    \/ At(r, "resolve", {"get"}) /\ Query(r)
    \/ At(r, "upstream", {"get"}) /\ \E status \in post \cup {404} : Reply(r, slot[r].routed, status)

\* One snapshot of the table, also for /debug/routes.
Snapshot == {v \in Versions : table[v] # Nil}

listDefinitionsHandler(r) ==
    At(r, "resolve", {"catalog"}) /\ Reply(r, <<"versions", Snapshot>>, 200)

\* FetchDefinition: a cached definition with the labels, the first of a list
\* without order ...
FindDefinition(r) ==
    /\ At(r, "resolve", {"definition"})
    /\ LET items == {d \in Definitions : cached[d] = slot[r].version}
       IN IF items = {} THEN Reply(r, Refused, 404)
          ELSE \E d \in items :
                   slot' = [slot EXCEPT ![r] = [@ EXCEPT !.pc = "document", !.found = d]]

\* ... is read again from the API server, by name.
ReadDefinition(r) ==
    /\ At(r, "document", {"definition"})
    /\ LET doc == documents[slot[r].found]
       IN \/ doc # Nil /\ Reply(r, <<"document", doc>>, 200)
          \/ Reply(r, <<"failed">>, 502)

getDefinitionHandler(r) == FindDefinition(r) \/ ReadDefinition(r)

\* The answer is written and the handler returns.
Close(r) ==
    /\ slot[r].pc = "answered"
    /\ slot' = [slot EXCEPT ![r] = Idle]

-----------------------------------------------------------------------------
\* The process ends and starts again: table, caches and requests are gone.
Restart ==
    /\ restarts < MaxRestarts /\ restarts' = restarts + 1
    /\ table' = [v \in Versions |-> Nil] /\ instances' = NoInstances /\ cached' = documents
    /\ slot' = [r \in Requests |-> Idle]
    /\ registered' = FALSE /\ events' = <<>> /\ store' = Nil /\ boot' = "register" /\ listed' = Nil
    /\ UNCHANGED <<platforms, changes, leases, issued, documents, ops, learned>>

Handlers(r) ==
    /\ resolveWorkflow(r) \/ executeSyncHandler(r) \/ suspendHandler(r)
          \/ listInstancesHandler(r) \/ getInstanceHandler(r)
          \/ listDefinitionsHandler(r) \/ getDefinitionHandler(r) \/ Close(r)
    /\ UNCHANGED <<vars, table, leases, instances, issued, cached, documents, ops, learned, restarts>>

executeAsyncHandler(r) ==
    /\ Accepted(r) \/ AcceptedUncached(r) \/ NotAccepted(r)
    /\ UNCHANGED <<vars, table, leases, cached, documents, ops, learned, restarts>>

Arrive(r) ==
    /\ \E op \in ops[r], version \in Versions \cup {Nil}, id \in Instances \cup {Nil} :
           Begin(r, op, version, id)
    /\ UNCHANGED <<vars, table, leases, instances, issued, cached, documents, ops, learned, restarts>>

Learns ==
    \/ \E t \in Tables : Replace(t)
    \/ \E l \in Leases, h \in Pods \cup {Nil} : LeaseChanges(l, h)
    \/ \E d \in Definitions : CacheFollows(d) \/ \E v \in Versions \cup {Nil} : DefinitionChanges(d, v)

ServerNext ==
    \/ Asked(Queries) /\ Next /\ UNCHANGED server
    \/ Learns \/ Restart
    \/ \E r \in Requests : Arrive(r) \/ Handlers(r) \/ executeAsyncHandler(r)

\* As for the watcher; the handler of a query goes on, as the data index
\* client has a timeout.
ServerSpec ==
    /\ ServerInit /\ [][ServerNext]_svars
    /\ WF_svars(Start /\ UNCHANGED server) /\ WF_svars(Handle /\ UNCHANGED server)
    /\ WF_svars(Resync /\ UNCHANGED server)
    /\ \A r \in Requests : WF_svars((listInstancesHandler(r) \/ getInstanceHandler(r) \/ Close(r)) /\ Handlers(r))

-----------------------------------------------------------------------------
(* Properties                                                              *)

\* Types; a request that is decided for a pod is decided for a pod's name, and
\* an endpoint in the store is one of the gateway's own namespace.
ServerTypeOK ==
    /\ TypeOK
    /\ table \in Tables /\ leases \in [Leases -> Pods \cup {Nil}]
    /\ instances \in [Instances -> Leases \cup Pods \cup {Nil}] /\ issued \subseteq Instances
    /\ cached \in [Definitions -> Versions \cup {Nil}] /\ documents \in [Definitions -> Versions \cup {Nil}]
    /\ \A r \in Requests :
          /\ slot[r].pc \in {"idle", "resolve", "lease", "table", "document", "upstream", "answered"}
          /\ slot[r].routed \in Decision \cup {Nil}
          /\ slot[r].status \in {Nil, 200, 202, 404, 502, 503}

\* What the request in a slot asks; only an operation on an instance names one.
Asks(s) ==
    IF s.pc = "idle" THEN Nil
    ELSE [op |-> s.op, version |-> s.version, id |-> IF s.op = "instance" THEN s.id ELSE Nil]

\* The handlers keep the promise of module RequestRouting.
Promise ==
    INSTANCE RequestRouting WITH
        asked <- [r \in Requests |-> Asks(slot[r])],
        routed <- [r \in Requests |-> slot[r].routed]

\* Every request is routed by what was known at one moment of it: to the holder
\* of the lease then, to a URL of the table then, and refused only if there
\* was none then, although three stores are read one after the other.
KeepsPromise == Promise!Spec

\* Once the platform of the namespace stays, queries are sent to the endpoint
\* that it reports, and are refused only if it reports none.
QueriesReachTheIndex ==
    \A p \in Own :
        <>[](platforms[p] # Nil /\ \A q \in Own \ {p} : platforms[q] = Nil)
            => <>[](\A r \in Requests : slot[r].op \in Queries /\ slot[r].routed # Nil =>
                        slot[r].routed = IF platforms[p] \in Endpoints
                                         THEN <<"index", <<p, platforms[p]>>>> ELSE Refused)

=============================================================================
