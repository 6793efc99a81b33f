--------------------------- MODULE RequestRouting ---------------------------
(***************************************************************************)
(* What the gateway promises a client: a request is routed by what the     *)
(* gateway knows at ONE moment between question and answer, although the   *)
(* handlers read the instance cache, a lease and the table one after the   *)
(* other.  A cached instance may go to the pod that holds its lease, and   *)
(* every request for a workflow may go to a service of that workflow; it   *)
(* is refused only when nothing of the kind is known.                      *)
(***************************************************************************)
CONSTANTS
    Requests,   \* places for requests in flight
    Versions,   \* versions of the workflow asked for
    Nil         \* no version, no holder, no entry

VARIABLES
    table,      \* version -> URL, or Nil
    leases,     \* lease name -> holder, or Nil
    instances,  \* instance -> identity that was cached for it, or Nil
    store,      \* endpoint of the data index, or Nil
    cached,     \* the cached definitions: name -> version, or Nil
    documents,  \* the definitions of the API server, likewise
    asked,      \* request -> what is asked, Nil if there is none
    routed      \* request -> where it went, Nil if that is open

vars == <<table, leases, instances, store, cached, documents, asked, routed>>
World == <<table, leases, store, cached, documents>>

Refused == <<"refused">>

-----------------------------------------------------------------------------
Services(version) ==
    {<<"service", table[v]>> : v \in {u \in Versions : table[u] # Nil /\ version \in {u, Nil}}}

OrRefused(S) == IF S = {} THEN {Refused} ELSE S

PodOf(id) ==
    IF instances[id] \in DOMAIN leases /\ leases[instances[id]] # Nil
    THEN {<<"pod", leases[instances[id]]>>} ELSE {}

Permitted(q) ==
    CASE q.op \in {"async", "sync"} -> OrRefused(Services(q.version))
      [] q.op = "instance" -> PodOf(q.id) \cup OrRefused(Services(Nil))
      [] q.op \in {"list", "get"} -> {IF store = Nil THEN Refused ELSE <<"index", store>>}
      [] q.op = "catalog" -> {<<"versions", {v \in Versions : table[v] # Nil}>>}
      [] q.op = "definition" ->
            {<<"document", documents[d]>> : d \in {e \in DOMAIN documents : documents[e] # Nil}}
            \cup {<<"failed">>}
            \cup (IF \E d \in DOMAIN cached : cached[d] = q.version THEN {} ELSE {Refused})

-----------------------------------------------------------------------------
Init ==
    /\ asked = [r \in Requests |-> Nil] /\ routed = [r \in Requests |-> Nil]
    /\ instances \in [DOMAIN instances -> {Nil}]

\* A client asks, and the gateway has not decided yet.
Ask(r) ==
    /\ asked[r] = Nil
    /\ \E q \in [op : {"async", "sync", "instance", "list", "get", "catalog", "definition"},
                 version : Versions \cup {Nil}, id : DOMAIN instances \cup {Nil}] :
           asked' = [asked EXCEPT ![r] = q]
    /\ UNCHANGED <<World, instances, routed>>

Decide(r) ==
    /\ asked[r] # Nil /\ routed[r] = Nil
    /\ \E d \in Permitted(asked[r]) : routed' = [routed EXCEPT ![r] = d]
    /\ UNCHANGED <<World, instances, asked>>

\* A runner accepted an execution: the instance is known, and stays known.
Accept(r) ==
    /\ asked[r] # Nil /\ asked[r].op = "async" /\ routed[r] \notin {Nil, Refused}
    /\ \E i \in DOMAIN instances :
           /\ instances[i] = Nil
           /\ \A j \in DOMAIN instances \ {i} : instances'[j] = instances[j]
           /\ DOMAIN instances' = DOMAIN instances
    /\ UNCHANGED <<World, asked, routed>>

\* The client has its answer.
Close(r) ==
    /\ asked[r] # Nil /\ routed[r] # Nil
    /\ asked' = [asked EXCEPT ![r] = Nil] /\ routed' = [routed EXCEPT ![r] = Nil]
    /\ UNCHANGED <<World, instances>>

\* What the gateway is told changes at any time.
Learn == UNCHANGED <<instances, asked, routed>>

\* Requests and cache end with the process.
Restart ==
    /\ asked' = [r \in Requests |-> Nil] /\ routed' = [r \in Requests |-> Nil]
    /\ instances' = [i \in DOMAIN instances |-> Nil]

Next == Learn \/ Restart \/ \E r \in Requests : Ask(r) \/ Decide(r) \/ Accept(r) \/ Close(r)

Spec == Init /\ [][Next]_vars

=============================================================================
