--------------------------- MODULE GatewayCatalog ---------------------------
(***************************************************************************)
(* The workflow gateway's routing table and what keeps it up to date: the  *)
(* catalog watcher with its debounce timer, the recompute that lists       *)
(* definitions and services one after the other and replaces the table,    *)
(* and the process around it, from startup to shutdown.                    *)
(*                                                                         *)
(* Threads are main, the watcher's Start ("boot") and the goroutines that  *)
(* expired timers start.  A timer that has expired cannot be stopped any   *)
(* more, so several goroutines may be in doRecompute at once.              *)
(***************************************************************************)
EXTENDS Integers, FiniteSets

CONSTANTS
    Defs,         \* names of LogicFlowDefinitions
    Svcs,         \* names of LogicFlowServices
    Workflows, Versions, Runtimes,
    URLs,         \* values of a service's status.url
    External,     \* the URLs that ValidateExternalURL accepts
    Definitions,  \* the definition objects that come up in this instance
    Services,     \* and the service objects
    Goroutines,   \* bound: timer goroutines alive at a time
    Nil,          \* no label, no URL, no object, no thread
    MaxChanges,   \* bound: changes of objects
    MaxFaults     \* bound: failing lists

Keys == Workflows \X Versions
Definition == [key : Keys \cup {Nil}, rt : Runtimes \cup {Nil}]
Service == [url : URLs \cup {Nil}, default : Defs \cup {Nil}, traffic : SUBSET Defs]

ASSUME CatalogConstants ==
    /\ Nil \notin Defs \cup Svcs \cup Workflows \cup Versions \cup Runtimes \cup URLs \cup Goroutines
    /\ Nil \notin Keys \cup Definition \cup Service
    /\ External \subseteq URLs
    /\ Definitions \subseteq Definition /\ Services \subseteq Service
    /\ IsFiniteSet(Defs) /\ IsFiniteSet(Svcs)
    /\ "boot" \notin Goroutines /\ Nil # "boot"
    /\ MaxChanges \in Nat /\ MaxFaults \in Nat

VARIABLES
    defs, svcs,    \* the shared informer cache
    version,       \* how often the cache has changed
    registered,    \* the informers the watcher's handler is registered with
    events,        \* events[i]: notifications of informer i not handled yet
    timer,         \* is the debounce timer running?
    lock,          \* who holds recomputeMu
    th,            \* th[t]: where thread t is in doRecompute, and its two lists
    table,         \* the endpoint store
    tableAt,       \* the version of the cache the table's definitions were listed at
    failed,        \* did the latest recompute give up because a list failed?
    startFailed,   \* history: did the one that Start makes itself give up?
    initialSync,   \* is the initialSync channel closed?
    main, ready,   \* the main thread, the readiness flag
    faults

cacheVars == <<defs, svcs, version>>
tableVars == <<table, tableAt, failed, startFailed>>
mainVars  == <<main, ready>>
vars == <<cacheVars, registered, events, timer, lock, th, tableVars, initialSync, mainVars, faults>>

-----------------------------------------------------------------------------
(* Building the table (build.go)                                           *)

RuntimeURL(rt) == [via |-> "runtime", host |-> rt]
ServiceURL(u)  == [via |-> "service", host |-> u]
Endpoints == {RuntimeURL(rt) : rt \in Runtimes} \cup {ServiceURL(u) : u \in URLs}
NoRoute == [via |-> "none", host |-> Nil]

\* A default definition hides the traffic list.
referencedDefinitions(svc) == IF svc.default # Nil THEN {svc.default} ELSE svc.traffic

\* workflowKeyFromLabels succeeds on d and gives k.
HasKey(ds, d, k) == ds[d] # Nil /\ ds[d].key = k

\* The definitions that route k to their runtime's Service.
RuntimeOffers(ds, k) == {d \in Defs : HasKey(ds, d, k) /\ ds[d].rt # Nil}

\* The gateway sends requests only to hosts outside the cluster.
ValidateExternalURL(u) == u \in External

\* Mutant: a service without a URL yet is not skipped.
ServiceOffersEmptyURL(ds, ss, k) ==
    {s \in Svcs : /\ ss[s] # Nil /\ ss[s].url \in External \cup {Nil}
                  /\ \E d \in referencedDefinitions(ss[s]) : HasKey(ds, d, k)}

\* The services whose usable URL is offered for k, by way of a listed definition.
ServiceOffers(ds, ss, k) ==
    {s \in Svcs : /\ ss[s] # Nil /\ ss[s].url # Nil /\ ValidateExternalURL(ss[s].url)
                  /\ \E d \in referencedDefinitions(ss[s]) : HasKey(ds, d, k)}

\* Lists of the informer cache come in no particular order, and the first
\* object in the list wins a key.
Orders(S) == {r \in [S -> 1..Cardinality(S)] : \A x, y \in S : r[x] = r[y] => x = y}
First(S, order) == CHOOSE x \in S : \A y \in S : order[x] <= order[y]

\* A service's URL is laid over the runtime's.
Build(ds, ss, dorder, sorder) ==
    [k \in Keys |->
        LET services == ServiceOffers(ds, ss, k)
            runtimes == RuntimeOffers(ds, k)
        IN IF services # {} THEN ServiceURL(ss[First(services, sorder)].url)
           ELSE IF runtimes # {} THEN RuntimeURL(ds[First(runtimes, dorder)].rt)
           ELSE NoRoute]

\* The tables that doRecompute may compute from these two lists.
Builds(ds, ss) == {Build(ds, ss, dorder, sorder) : dorder \in Orders(Defs), sorder \in Orders(Svcs)}

-----------------------------------------------------------------------------
Threads == {"boot"} \cup Goroutines

NoDefs == [d \in Defs |-> Nil]
NoSvcs == [s \in Svcs |-> Nil]
NoTable == [k \in Keys |-> NoRoute]
Idle == [pc |-> "idle", defs |-> NoDefs, svcs |-> NoSvcs, at |-> 0]

Init ==
    /\ defs \in [Defs -> Definitions \cup {Nil}] /\ svcs \in [Svcs -> Services \cup {Nil}]
    /\ version = 0
    /\ registered = {} /\ events = [i \in {"defs", "svcs"} |-> 0] /\ timer = FALSE
    /\ lock = Nil /\ th = [t \in Threads |-> Idle]
    /\ table = NoTable /\ tableAt = 0
    /\ failed = FALSE /\ startFailed = FALSE
    /\ initialSync = FALSE
    /\ main = "starting" /\ ready = FALSE
    /\ faults = MaxFaults

\* The process is there.
Up == main \notin {"exited", "stopped"}

\* The cache changes first; the handlers of that informer hear of it later.
Notify(i) == events' = IF i \in registered THEN [events EXCEPT ![i] = @ + 1] ELSE events

ChangeDefinition(d, o) ==
    /\ Up /\ version < MaxChanges /\ defs[d] # o
    /\ defs' = [defs EXCEPT ![d] = o] /\ version' = version + 1
    /\ Notify("defs")
    /\ UNCHANGED <<svcs, registered, timer, lock, th, tableVars, initialSync, mainVars, faults>>

ChangeService(s, o) ==
    /\ Up /\ version < MaxChanges /\ svcs[s] # o
    /\ svcs' = [svcs EXCEPT ![s] = o] /\ version' = version + 1
    /\ Notify("svcs")
    /\ UNCHANGED <<defs, registered, timer, lock, th, tableVars, initialSync, mainVars, faults>>

\* The informer's resync repeats an update of what is cached.
Resync(i) ==
    /\ Up /\ i \in registered /\ events[i] = 0
    /\ Notify(i)
    /\ UNCHANGED <<cacheVars, registered, timer, lock, th, tableVars, initialSync, mainVars, faults>>

-----------------------------------------------------------------------------
(* The watcher (watcher.go)                                                *)

Goto(t, from, to) == th[t].pc = from /\ th' = [th EXCEPT ![t].pc = to]

\* How many objects informer i has cached.
Cached(i) == IF i = "defs" THEN Cardinality({d \in Defs : defs[d] # Nil})
                           ELSE Cardinality({s \in Svcs : svcs[s] # Nil})

\* setupWatchers registers the handler with one informer and then with the
\* other; a new handler first hears of every object that is cached already.
SetupWatchers(i) ==
    /\ Up /\ th["boot"].pc = "idle" /\ ~initialSync
    /\ i \notin registered /\ (i = "svcs" => "defs" \in registered)
    /\ registered' = registered \cup {i} /\ events' = [events EXCEPT ![i] = Cached(i)]
    /\ th' = [th EXCEPT !["boot"].pc = IF i = "svcs" THEN "lock" ELSE "idle"]
    /\ UNCHANGED <<cacheVars, timer, lock, tableVars, initialSync, mainVars, faults>>

\* Mutant: an event that finds a recompute running is taken as covered by it.
ScheduleUnlessBusy(i) ==
    /\ Up /\ events[i] > 0
    /\ events' = [events EXCEPT ![i] = @ - 1]
    /\ timer' = (timer \/ lock = Nil)
    /\ UNCHANGED <<cacheVars, registered, lock, th, tableVars, initialSync, mainVars, faults>>

\* Mutant: once the first table is there, events are not looked at any more.
ScheduleOnce(i) ==
    /\ Up /\ events[i] > 0
    /\ events' = [events EXCEPT ![i] = @ - 1]
    /\ timer' = (timer \/ ~initialSync)
    /\ UNCHANGED <<cacheVars, registered, lock, th, tableVars, initialSync, mainVars, faults>>

\* Handling an event (re)starts the debounce timer.
ScheduleRecompute(i) ==
    /\ Up /\ events[i] > 0
    /\ events' = [events EXCEPT ![i] = @ - 1]
    /\ timer' = TRUE
    /\ UNCHANGED <<cacheVars, registered, lock, th, tableVars, initialSync, mainVars, faults>>

\* The timer expires and starts a goroutine.
Expire(g) ==
    /\ Up /\ timer
    /\ timer' = FALSE
    /\ Goto(g, "idle", "lock")
    /\ UNCHANGED <<cacheVars, registered, events, lock, tableVars, initialSync, mainVars, faults>>

\* Mutant: doRecompute does not lock.
LockUnguarded(t) ==
    /\ Up
    /\ Goto(t, "lock", "defs") /\ lock' = t
    /\ UNCHANGED <<cacheVars, registered, events, timer, tableVars, initialSync, mainVars, faults>>

Lock(t) ==
    /\ Up /\ lock = Nil
    /\ Goto(t, "lock", "defs") /\ lock' = t
    /\ UNCHANGED <<cacheVars, registered, events, timer, tableVars, initialSync, mainVars, faults>>

ListDefinitions(t) ==
    /\ Up /\ th[t].pc = "defs"
    /\ th' = [th EXCEPT ![t].pc = "svcs", ![t].defs = defs, ![t].at = version]
    /\ UNCHANGED <<cacheVars, registered, events, timer, lock, tableVars, initialSync, mainVars, faults>>

ListServices(t) ==
    /\ Up /\ th[t].pc = "svcs"
    /\ th' = [th EXCEPT ![t].pc = "publish", ![t].svcs = svcs]
    /\ UNCHANGED <<cacheVars, registered, events, timer, lock, tableVars, initialSync, mainVars, faults>>

\* doRecompute returns, with a table or without: the lock is free, and Start,
\* after its own, closes initialSync.
Return(t) ==
    /\ th' = [th EXCEPT ![t] = Idle] /\ lock' = Nil
    /\ initialSync' = (initialSync \/ t = "boot")

ListFails(t) ==
    /\ Up /\ th[t].pc \in {"defs", "svcs"} /\ faults > 0
    /\ failed' = TRUE /\ faults' = faults - 1
    /\ startFailed' = (startFailed \/ t = "boot")
    /\ Return(t)
    /\ UNCHANGED <<cacheVars, registered, events, timer, table, tableAt, mainVars>>

Publish(t) ==
    /\ Up /\ th[t].pc = "publish"
    /\ table' \in Builds(th[t].defs, th[t].svcs)
    /\ tableAt' = th[t].at /\ failed' = FALSE
    /\ Return(t)
    /\ UNCHANGED <<cacheVars, registered, events, timer, startFailed, mainVars, faults>>

-----------------------------------------------------------------------------
(* The main thread (cmd/main.go)                                           *)

\* Mutant: main waits for the cache but not for the table.
SetReadyOnCacheSync ==
    /\ main = "starting"
    /\ main' = "serving" /\ ready' = TRUE
    /\ UNCHANGED <<cacheVars, registered, events, timer, lock, th, tableVars, initialSync, faults>>

\* Both waits are over in time.
SetReady ==
    /\ main = "starting" /\ initialSync
    /\ main' = "serving" /\ ready' = TRUE
    /\ UNCHANGED <<cacheVars, registered, events, timer, lock, th, tableVars, initialSync, faults>>

\* Thirty seconds are over first: exit status 1.
ReadinessTimeout ==
    /\ main = "starting" /\ ~initialSync
    /\ main' = "exited"
    /\ UNCHANGED <<cacheVars, registered, events, timer, lock, th, tableVars, initialSync, ready, faults>>

\* SIGTERM.  One that came during startup has waited in the channel until now.
Drain ==
    /\ main = "serving"
    /\ main' = "draining" /\ ready' = FALSE
    /\ UNCHANGED <<cacheVars, registered, events, timer, lock, th, tableVars, initialSync, faults>>

\* Requests are served to the end, or the shutdown timeout passes first.
Shutdown ==
    /\ main = "draining"
    /\ main' \in {"stopped", "exited"}
    /\ UNCHANGED <<cacheVars, registered, events, timer, lock, th, tableVars, initialSync, ready, faults>>

-----------------------------------------------------------------------------
Recompute(t) == Lock(t) \/ ListDefinitions(t) \/ ListServices(t) \/ Publish(t)

Boot == SetupWatchers("defs") \/ SetupWatchers("svcs")

Change ==
    \/ \E d \in Defs, o \in Definitions \cup {Nil} : ChangeDefinition(d, o)
    \/ \E s \in Svcs, o \in Services \cup {Nil} : ChangeService(s, o)

Next ==
    \/ Change \/ Boot
    \/ \E i \in {"defs", "svcs"} : Resync(i) \/ ScheduleRecompute(i)
    \/ \E g \in Goroutines : Expire(g)
    \/ \E t \in Threads : Recompute(t) \/ ListFails(t)
    \/ SetReady \/ ReadinessTimeout \/ Drain \/ Shutdown

Spec == Init /\ [][Next]_vars

\* Informers deliver, timers expire (there are pauses of half a second in the
\* stream of events), threads go on.  The timeout and signals are not forced.
Fairness ==
    /\ WF_vars(Boot)
    /\ \A i \in {"defs", "svcs"} : WF_vars(ScheduleRecompute(i)) /\ WF_vars(Resync(i))
    /\ WF_vars(\E g \in Goroutines : Expire(g))
    /\ \A t \in Threads : SF_vars(Lock(t)) /\ WF_vars(Recompute(t))
    /\ WF_vars(SetReady) /\ WF_vars(Shutdown)

FairSpec == Spec /\ Fairness

-----------------------------------------------------------------------------
(* Properties                                                              *)

TypeOK ==
    /\ defs \in [Defs -> Definitions \cup {Nil}] /\ svcs \in [Svcs -> Services \cup {Nil}]
    /\ version \in Nat
    /\ registered \subseteq {"defs", "svcs"} /\ events \in [{"defs", "svcs"} -> Nat]
    /\ timer \in BOOLEAN /\ initialSync \in BOOLEAN
    /\ failed \in BOOLEAN /\ startFailed \in BOOLEAN
    /\ lock \in Threads \cup {Nil}
    /\ th \in [Threads -> [pc : {"idle", "lock", "defs", "svcs", "publish"},
                           defs : [Defs -> Definitions \cup {Nil}],
                           svcs : [Svcs -> Services \cup {Nil}], at : Nat]]
    /\ table \in [Keys -> Endpoints \cup {NoRoute}] /\ tableAt \in Nat
    /\ main \in {"starting", "serving", "draining", "stopped", "exited"}
    /\ ready \in BOOLEAN
    /\ faults \in Nat

\* A recompute is on its way: an event, the timer or a goroutine will see to it.
Pending ==
    \/ events["defs"] > 0 \/ events["svcs"] > 0
    \/ timer
    \/ \E t \in Threads : th[t].pc # "idle"
    \/ ~initialSync

\* No change is lost between cache, event, timer and lock: when no recompute
\* is on its way, the table is what the cache says, unless the last list failed.
QuietTableIsCurrent == ~Pending /\ ~failed => table \in Builds(defs, svcs)

\* recomputeMu: a recompute that listed earlier never replaces the table of
\* one that listed later, however the goroutines of expired timers overlap.
TableMovesForward == [][tableAt' >= tableAt]_tableAt

\* The gateway reports ready only when what was cached at startup is routed,
\* even if the events about it are still being debounced and lists of other
\* recomputes failed.  With one exception: Start closes initialSync after its
\* own recompute even if a list of that one failed, and the table may then
\* still be the empty one.
ReadyMeansRouted ==
    ready /\ version = 0 =>
        \/ table \in Builds(defs, svcs)
        \/ startFailed /\ table = NoTable

\* Once the objects stop changing the table follows them for good, unless the
\* process has ended.
TableConverges == <>[](table \in Builds(defs, svcs) \/ ~Up)

=============================================================================
