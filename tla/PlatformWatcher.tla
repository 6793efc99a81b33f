-------------------------- MODULE PlatformWatcher --------------------------
(***************************************************************************)
(* The gateway's platform watcher: it keeps the data index endpoint that   *)
(* the LogicPlatform of the gateway's own namespace reports.  The shared   *)
(* cache is not confined to a namespace, so the handlers hear of every     *)
(* platform of the cluster.                                                *)
(*                                                                         *)
(* Start registers the handlers, lists the cache and writes the store in   *)
(* one goroutine, and the informer calls the handlers in another.          *)
(***************************************************************************)
EXTENDS Naturals, Sequences, FiniteSets

CONSTANTS
    Own,         \* platforms of the gateway's namespace
    Elsewhere,   \* platforms of other namespaces
    Endpoints,   \* what a platform can report as its GraphQL endpoint
    Nil,         \* no platform, no endpoint
    MaxChanges   \* bound: changes of platforms

Platforms == Own \cup Elsewhere
Unset == "unset"    \* a platform that reports no endpoint

ASSUME WatcherConstants ==
    /\ Own \cap Elsewhere = {} /\ IsFiniteSet(Own) /\ IsFiniteSet(Elsewhere)
    /\ Nil \notin Endpoints /\ Unset \notin Endpoints /\ Nil # Unset
    /\ MaxChanges \in Nat

VARIABLES
    platforms,   \* the shared cache
    registered,  \* are the handlers registered?
    events,      \* platforms as they were, whose handler has not been called yet
    store,       \* the platform store: an endpoint, or Nil
    boot,        \* where Start is
    listed,      \* the endpoint that doSync has found
    changes

vars == <<platforms, registered, events, store, boot, listed, changes>>

-----------------------------------------------------------------------------
\* Endpoints of different platforms are different URLs.
dataIndexEndpoint(p, st) == IF st \in Endpoints THEN <<p, st>> ELSE Nil

\* The events about the platforms of S, in an order of the informer's own.
EventsAbout(S) ==
    {[i \in 1..Cardinality(S) |-> [name |-> f[i], st |-> platforms[f[i]]]] :
        f \in {g \in [1..Cardinality(S) -> S] : \A i, j \in DOMAIN g : g[i] = g[j] => i = j}}

Existing == {p \in Platforms : platforms[p] # Nil}

Init ==
    /\ platforms \in [Platforms -> Endpoints \cup {Unset, Nil}]
    /\ registered = FALSE /\ events = <<>>
    /\ store = Nil /\ boot = "register" /\ listed = Nil /\ changes = 0

\* A platform is created, changed or deleted; the cache knows first.
ChangePlatform(p, st) ==
    /\ platforms[p] # st /\ changes < MaxChanges
    /\ platforms' = [platforms EXCEPT ![p] = st] /\ changes' = changes + 1
    /\ events' = IF registered THEN Append(events, [name |-> p, st |-> st]) ELSE events
    /\ UNCHANGED <<registered, store, boot, listed>>

\* The informer's resync repeats an update of everything cached.
Resync ==
    /\ registered /\ events = <<>>
    /\ events' \in EventsAbout(Existing)
    /\ UNCHANGED <<platforms, registered, store, boot, listed, changes>>

-----------------------------------------------------------------------------
(* Start                                                                   *)

\* A new handler hears of everything that is cached already.
AddEventHandler ==
    /\ boot = "register"
    /\ registered' = TRUE /\ events' \in EventsAbout(Existing)
    /\ boot' = "list"
    /\ UNCHANGED <<platforms, store, listed, changes>>

\* doSync takes the first endpoint of a list without order.
DoSyncList ==
    /\ boot = "list"
    /\ LET found == {dataIndexEndpoint(p, platforms[p]) : p \in Own} \ {Nil}
       IN listed' \in (IF found = {} THEN {Nil} ELSE found)
    /\ boot' = "store"
    /\ UNCHANGED <<platforms, registered, events, store, changes>>

\* A list that fails is only logged.
DoSyncListFails ==
    /\ boot = "list"
    /\ boot' = "done"
    /\ UNCHANGED <<platforms, registered, events, store, listed, changes>>

\* SetEndpoint, or ClearEndpoint if there was none.
DoSyncStore ==
    /\ boot = "store"
    /\ store' = listed
    /\ boot' = "done" /\ listed' = Nil
    /\ UNCHANGED <<platforms, registered, events, changes>>

-----------------------------------------------------------------------------
(* The handlers                                                            *)

\* Mutant: syncEndpoint does not look at the namespace.
SyncEndpointOfAny ==
    /\ events # <<>> /\ Head(events).st # Nil
    /\ store' = dataIndexEndpoint(Head(events).name, Head(events).st)
    /\ events' = Tail(events)
    /\ UNCHANGED <<platforms, registered, boot, listed, changes>>

\* Mutant: a platform that no longer reports an endpoint changes nothing.
SyncEndpointIfSet ==
    /\ events # <<>> /\ Head(events).st # Nil
    /\ store' = IF Head(events).name \in Own /\ Head(events).st # Unset
                THEN dataIndexEndpoint(Head(events).name, Head(events).st) ELSE store
    /\ events' = Tail(events)
    /\ UNCHANGED <<platforms, registered, boot, listed, changes>>

\* AddFunc and UpdateFunc: only the platform of the own namespace counts.
SyncEndpoint ==
    /\ events # <<>> /\ Head(events).st # Nil
    /\ store' = IF Head(events).name \in Own
                THEN dataIndexEndpoint(Head(events).name, Head(events).st) ELSE store
    /\ events' = Tail(events)
    /\ UNCHANGED <<platforms, registered, boot, listed, changes>>

\* DeleteFunc clears the store, whichever platform is gone.
ClearEndpoint ==
    /\ events # <<>> /\ Head(events).st = Nil
    /\ store' = Nil
    /\ events' = Tail(events)
    /\ UNCHANGED <<platforms, registered, boot, listed, changes>>

-----------------------------------------------------------------------------
Start == AddEventHandler \/ DoSyncList \/ DoSyncListFails \/ DoSyncStore
Handle == SyncEndpoint \/ ClearEndpoint

Next ==
    \/ \E p \in Platforms, st \in Endpoints \cup {Unset, Nil} : ChangePlatform(p, st)
    \/ Resync \/ Start \/ Handle

-----------------------------------------------------------------------------
(* Properties                                                              *)

States == Endpoints \cup {Unset, Nil}

\* Types; the store holds nothing but endpoints of the gateway's own namespace.
TypeOK ==
    /\ platforms \in [Platforms -> States] /\ registered \in BOOLEAN
    /\ events \in Seq([name : Platforms, st : States])
    /\ store \in (Own \X Endpoints) \cup {Nil} /\ listed \in (Own \X Endpoints) \cup {Nil}
    /\ boot \in {"register", "list", "store", "done"} /\ changes \in Nat

=============================================================================
