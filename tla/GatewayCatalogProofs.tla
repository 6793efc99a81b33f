------------------------ MODULE GatewayCatalogProofs ------------------------
(***************************************************************************)
(* Proofs about the gateway's routing table: it is well typed, a recompute *)
(* that listed earlier never undoes a later one, and no change of the      *)
(* cache is lost on its way into the table.                                *)
(*                                                                         *)
(* The argument: every change of the cache makes an event; the event ends  *)
(* in a running timer, the timer in a goroutine waiting for the lock, and  *)
(* the goroutine lists only after it got the lock.  As long as one of      *)
(* these is there nothing is claimed; when none is, whoever holds the lock *)
(* has listed what is cached now.                                          *)
(***************************************************************************)
EXTENDS GatewayCatalog, WellFoundedInduction, FiniteSetTheorems, TLAPS

CachedDefs == [Defs -> Definitions \cup {Nil}]
CachedSvcs == [Svcs -> Services \cup {Nil}]
Locals == [pc : {"idle", "lock", "defs", "svcs", "publish"},
           defs : CachedDefs, svcs : CachedSvcs, at : Nat]

\* The first element of a non-empty set is one of its elements.
LEMMA FirstIsIn ==
  ASSUME NEW X, NEW S \in SUBSET X, S # {}, NEW order \in [X -> Nat]
  PROVE  First(S, order) \in S
  <1> DEFINE T == {order[x] : x \in S}
             R == OpToRel(<, Nat)
  <1>1. T \subseteq Nat /\ T # {}
    OBVIOUS
  <1>2. \A m, n \in Nat : m < n => <<m, n>> \in R
    BY DEF OpToRel
  <1>7. IsWellFoundedOn(R, Nat)
    BY NatLessThanWellFounded, Zenon
  <1> HIDE DEF R, T
  <1>3. \E n \in T : \A m \in T : ~(<<m, n>> \in R)
    BY <1>1, <1>7, WFMin
  <1>4. PICK n \in T : \A m \in T : ~(<<m, n>> \in R)
    BY <1>3
  <1>5. \A m \in T : n <= m
    <2> SUFFICES ASSUME NEW m \in T PROVE n <= m
      OBVIOUS
    <2>1. m \in Nat /\ n \in Nat
      BY <1>1
    <2>2. ~(m < n)
      BY <1>2, <1>4, <2>1
    <2> QED BY <2>1, <2>2
  <1>6. \E x \in S : \A y \in S : order[x] <= order[y]
    BY <1>5 DEF T
  <1> QED BY <1>6 DEF First

\* Whatever the lists and their order, the table has a proper endpoint or none
\* for every key: no route leads to an empty URL.
LEMMA BuildType ==
  ASSUME NEW ds \in CachedDefs, NEW ss \in CachedSvcs, NEW t \in Builds(ds, ss)
  PROVE  t \in [Keys -> Endpoints \cup {NoRoute}]
  <1> USE CatalogConstants
  <1>1. PICK od \in Orders(Defs), os \in Orders(Svcs) : t = Build(ds, ss, od, os)
    BY DEF Builds
  <1>2. od \in [Defs -> Nat] /\ os \in [Svcs -> Nat]
    <2>1. Cardinality(Defs) \in Nat /\ Cardinality(Svcs) \in Nat
      BY FS_CardinalityType
    <2> QED BY <2>1, SMTT(30) DEF Orders
  <1>3. ASSUME NEW k \in Keys
        PROVE  LET services == ServiceOffers(ds, ss, k)
                   runtimes == RuntimeOffers(ds, k)
               IN (IF services # {} THEN ServiceURL(ss[First(services, os)].url)
                   ELSE IF runtimes # {} THEN RuntimeURL(ds[First(runtimes, od)].rt)
                   ELSE NoRoute) \in Endpoints \cup {NoRoute}
    <2> DEFINE services == ServiceOffers(ds, ss, k)
               runtimes == RuntimeOffers(ds, k)
    <2>1. ASSUME services # {} PROVE ServiceURL(ss[First(services, os)].url) \in Endpoints
      <3>1. services \in SUBSET Svcs
        BY DEF ServiceOffers
      <3>2. First(services, os) \in services
        BY <2>1, <3>1, <1>2, FirstIsIn
      <3>3. ss[First(services, os)].url \in URLs
        BY <3>2 DEF ServiceOffers, ValidateExternalURL
      <3> QED BY <3>3 DEF Endpoints
    <2>2. ASSUME runtimes # {} PROVE RuntimeURL(ds[First(runtimes, od)].rt) \in Endpoints
      <3>1. runtimes \in SUBSET Defs
        BY DEF RuntimeOffers
      <3>2. First(runtimes, od) \in runtimes
        BY <2>2, <3>1, <1>2, FirstIsIn
      <3>3. ds[First(runtimes, od)] \in Definition /\ ds[First(runtimes, od)].rt # Nil
        BY <3>1, <3>2 DEF RuntimeOffers, HasKey, CachedDefs
      <3>4. ds[First(runtimes, od)].rt \in Runtimes
        BY <3>3 DEF Definition
      <3> QED BY <3>4 DEF Endpoints
    <2> QED BY <2>1, <2>2
  <1> QED BY <1>1, <1>3 DEF Build

LEMMA IdleType == Idle \in Locals
  BY DEF Idle, Locals, NoDefs, NoSvcs, CachedDefs, CachedSvcs

LEMMA CachedType == \A i : Cached(i) \in Nat
  <1> USE CatalogConstants
  <1>1. IsFiniteSet({d \in Defs : defs[d] # Nil}) /\ IsFiniteSet({s \in Svcs : svcs[s] # Nil})
    BY FS_Subset
  <1> QED BY <1>1, FS_CardinalityType DEF Cached

\* Cache, watcher, table and process are well typed whatever happens; in
\* particular every route of the table leads somewhere.
THEOREM CatalogTypeCorrect == Spec => []TypeOK
  <1> USE CatalogConstants
  <1>1. Init => TypeOK
    <2> SUFFICES ASSUME Init PROVE TypeOK
      OBVIOUS
    <2>1. th \in [Threads -> Locals]
      BY IdleType DEF Init
    <2>2. table \in [Keys -> Endpoints \cup {NoRoute}]
      BY DEF Init, NoTable
    <2> QED BY <2>1, <2>2 DEF Init, TypeOK, Locals, CachedDefs, CachedSvcs
  <1>2. TypeOK /\ [Next]_vars => TypeOK'
    <2> SUFFICES ASSUME TypeOK, [Next]_vars PROVE TypeOK'
      OBVIOUS
    <2>0. /\ th \in [Threads -> Locals] /\ defs \in CachedDefs /\ svcs \in CachedSvcs
          /\ "boot" \in Threads /\ Goroutines \subseteq Threads
      BY DEF TypeOK, Locals, CachedDefs, CachedSvcs, Threads
    <2>1. CASE Change
      <3>1. defs' \in CachedDefs /\ svcs' \in CachedSvcs /\ version' \in Nat
        BY <2>1 DEF Change, ChangeDefinition, ChangeService, TypeOK, CachedDefs, CachedSvcs
      <3>2. events' \in [{"defs", "svcs"} -> Nat]
        BY <2>1 DEF Change, ChangeDefinition, ChangeService, Notify, TypeOK
      <3>3. UNCHANGED <<registered, timer, lock, th, tableVars, initialSync, mainVars, faults>>
        BY <2>1 DEF Change, ChangeDefinition, ChangeService
      <3> QED BY <3>1, <3>2, <3>3 DEF TypeOK, CachedDefs, CachedSvcs, tableVars, mainVars
    <2>2. CASE Boot
      <3>1. events' \in [{"defs", "svcs"} -> Nat] /\ registered' \subseteq {"defs", "svcs"}
        BY <2>2, CachedType DEF Boot, SetupWatchers, TypeOK
      <3>2. th' \in [Threads -> Locals]
        BY <2>0, <2>2 DEF Boot, SetupWatchers, Locals
      <3> QED BY <2>2, <3>1, <3>2 DEF Boot, SetupWatchers, TypeOK, Locals, CachedDefs, CachedSvcs,
                cacheVars, tableVars, mainVars
    <2>3. ASSUME NEW i \in {"defs", "svcs"}, Resync(i) \/ ScheduleRecompute(i) PROVE TypeOK'
      <3>1. events' \in [{"defs", "svcs"} -> Nat]
        BY <2>3 DEF Resync, ScheduleRecompute, Notify, TypeOK
      <3>2. timer' \in BOOLEAN
        BY <2>3 DEF Resync, ScheduleRecompute, TypeOK
      <3>3. UNCHANGED <<cacheVars, registered, lock, th, tableVars, initialSync, mainVars, faults>>
        BY <2>3 DEF Resync, ScheduleRecompute
      <3> QED BY <3>1, <3>2, <3>3 DEF TypeOK, cacheVars, tableVars, mainVars
    <2>4. ASSUME NEW g \in Goroutines, Expire(g) PROVE TypeOK'
      <3>1. th' \in [Threads -> Locals]
        BY <2>0, <2>4 DEF Expire, Goto, Locals
      <3> QED BY <2>4, <3>1 DEF Expire, TypeOK, Locals, CachedDefs, CachedSvcs, cacheVars, tableVars, mainVars
    <2>5. ASSUME NEW t \in Threads, Lock(t) \/ ListDefinitions(t) \/ ListServices(t) PROVE TypeOK'
      <3>1. th' \in [Threads -> Locals]
        <4>0. version \in Nat
          BY DEF TypeOK
        <4>1. Lock(t) => th' \in [Threads -> Locals]
          BY <2>0, <2>5 DEF Lock, Goto, Locals
        <4>2. ListDefinitions(t) => th' \in [Threads -> Locals]
          <5> SUFFICES ASSUME ListDefinitions(t) PROVE th' \in [Threads -> Locals]
            OBVIOUS
          <5> DEFINE l == [th[t] EXCEPT !.pc = "svcs", !.defs = defs, !.at = version]
          <5>1. th[t] \in Locals
            BY <2>0
          <5>2. l \in Locals
            BY <2>0, <4>0, <5>1 DEF Locals
          <5>3. th' = [th EXCEPT ![t] = l]
            BY <2>0 DEF ListDefinitions
          <5> QED BY <2>0, <5>2, <5>3
        <4>3. ListServices(t) => th' \in [Threads -> Locals]
          <5> SUFFICES ASSUME ListServices(t) PROVE th' \in [Threads -> Locals]
            OBVIOUS
          <5> DEFINE l == [th[t] EXCEPT !.pc = "publish", !.svcs = svcs]
          <5>1. th[t] \in Locals
            BY <2>0
          <5>2. l \in Locals
            BY <2>0, <5>1 DEF Locals
          <5>3. th' = [th EXCEPT ![t] = l]
            BY <2>0 DEF ListServices
          <5> QED BY <2>0, <5>2, <5>3
        <4> QED BY <2>5, <4>1, <4>2, <4>3
      <3> QED BY <2>5, <3>1 DEF Lock, ListDefinitions, ListServices, Goto, TypeOK, Locals,
                CachedDefs, CachedSvcs, cacheVars, tableVars, mainVars
    <2>6. ASSUME NEW t \in Threads, ListFails(t) \/ Publish(t) PROVE TypeOK'
      <3>1. th' \in [Threads -> Locals] /\ lock' = Nil
        BY <2>0, <2>6, IdleType DEF ListFails, Publish, Return, TypeOK
      <3>5. initialSync' \in BOOLEAN
        BY <2>6 DEF ListFails, Publish, Return
      <3>2. th[t].defs \in CachedDefs /\ th[t].svcs \in CachedSvcs /\ th[t].at \in Nat
        BY <2>0 DEF Locals
      <3>3. table' \in [Keys -> Endpoints \cup {NoRoute}] /\ tableAt' \in Nat
        BY <2>6, <3>2, BuildType DEF ListFails, Publish, TypeOK
      <3>4. faults' \in Nat
        BY <2>6 DEF ListFails, Publish, TypeOK
      <3>6. failed' \in BOOLEAN /\ startFailed' \in BOOLEAN
        BY <2>6 DEF ListFails, Publish, TypeOK
      <3> QED BY <2>6, <3>1, <3>3, <3>4, <3>5, <3>6 DEF ListFails, Publish, TypeOK, Locals, CachedDefs, CachedSvcs,
                cacheVars, mainVars
    <2>7. CASE SetReady \/ ReadinessTimeout \/ Drain \/ Shutdown
      BY <2>7 DEF SetReady, ReadinessTimeout, Drain, Shutdown, TypeOK, cacheVars, tableVars
    <2>8. CASE UNCHANGED vars
      BY <2>8 DEF vars, cacheVars, tableVars, mainVars, TypeOK
    <2> QED BY <2>1, <2>2, <2>3, <2>4, <2>5, <2>6, <2>7, <2>8 DEF Next, Recompute
  <1> QED BY <1>1, <1>2, PTL DEF Spec

-----------------------------------------------------------------------------
Informers == {"defs", "svcs"}

\* recomputeMu: whoever is between Lock and Return holds it, and nobody else.
Mutex == \A t \in Threads : th[t].pc \in {"defs", "svcs", "publish"} <=> lock = t

\* The table is not newer than the list of whoever is about to replace it.
ListedLater ==
    /\ tableAt <= version
    /\ \A t \in Threads : th[t].pc \in {"svcs", "publish"} => tableAt <= th[t].at /\ th[t].at <= version

\* Start recomputes once, after both handlers are registered.
BootOrder ==
    /\ registered = Informers <=> initialSync \/ th["boot"].pc # "idle"
    /\ initialSync => th["boot"].pc = "idle"
    /\ "svcs" \in registered => "defs" \in registered

\* Something is still to take the lock, and will list after that.
Due ==
    \/ events["defs"] > 0 \/ events["svcs"] > 0 \/ timer
    \/ \E t \in Threads : th[t].pc = "lock"
    \/ registered # Informers

\* When nothing is, the lists of the recompute in progress, or else the table,
\* are those of the cache as it is.
ListsAreCurrent ==
    ~Due =>
        /\ \A t \in Threads : /\ th[t].pc \in {"svcs", "publish"} => th[t].defs = defs
                              /\ th[t].pc = "publish" => th[t].svcs = svcs
        /\ lock = Nil /\ ~failed => table \in Builds(defs, svcs)

CInv == Mutex /\ ListedLater /\ BootOrder /\ ListsAreCurrent

\* What the steps of a recompute do to its thread: the others stay as they are.
LEMMA LockStep ==
  ASSUME TypeOK, NEW t \in Threads, Lock(t)
  PROVE  /\ th[t].pc = "lock" /\ th'[t].pc = "defs" /\ lock = Nil /\ lock' = t
         /\ \A u \in Threads \ {t} : th'[u] = th[u]
  BY DEF TypeOK, Lock, Goto

LEMMA ListDefinitionsStep ==
  ASSUME TypeOK, NEW t \in Threads, ListDefinitions(t)
  PROVE  /\ th[t].pc = "defs" /\ th'[t].pc = "svcs" /\ th'[t].defs = defs /\ th'[t].at = version
         /\ \A u \in Threads \ {t} : th'[u] = th[u]
  BY DEF TypeOK, ListDefinitions

LEMMA ListServicesStep ==
  ASSUME TypeOK, NEW t \in Threads, ListServices(t)
  PROVE  /\ th[t].pc = "svcs" /\ th'[t].pc = "publish" /\ th'[t].svcs = svcs
         /\ th'[t].defs = th[t].defs /\ th'[t].at = th[t].at
         /\ \A u \in Threads \ {t} : th'[u] = th[u]
  BY DEF TypeOK, ListServices

LEMMA ReturnStep ==
  ASSUME TypeOK, NEW t \in Threads, Publish(t) \/ ListFails(t)
  PROVE  /\ th[t].pc \in {"defs", "svcs", "publish"} /\ th'[t].pc = "idle" /\ lock' = Nil
         /\ \A u \in Threads \ {t} : th'[u] = th[u]
  BY DEF TypeOK, Publish, ListFails, Return, Idle

LEMMA ExpireStep ==
  ASSUME TypeOK, NEW t \in Goroutines, Expire(t)
  PROVE  /\ th[t].pc = "idle" /\ th'[t].pc = "lock"
         /\ \A u \in Threads \ {t} : th'[u] = th[u]
  BY DEF TypeOK, Expire, Goto, Threads

LEMMA SetupStep ==
  ASSUME TypeOK, NEW i \in Informers, SetupWatchers(i)
  PROVE  /\ th["boot"].pc = "idle" /\ th'["boot"].pc \in {"idle", "lock"}
         /\ \A u \in Threads \ {"boot"} : th'[u] = th[u]
         /\ "boot" \in Threads
  BY DEF TypeOK, SetupWatchers, Threads, Informers

-----------------------------------------------------------------------------
\* recomputeMu is held by whoever is in doRecompute.
LEMMA MutexStep == ASSUME TypeOK, Mutex, [Next]_vars PROVE Mutex'
  <1> USE CatalogConstants
  <1>0. Nil \notin Threads /\ Goroutines \subseteq Threads
    BY DEF Threads
  <1>1. CASE UNCHANGED <<th, lock>>
    BY <1>1 DEF Mutex
  <1>2. ASSUME NEW i \in Informers, SetupWatchers(i) PROVE Mutex'
    <2>1. lock' = lock
      BY <1>2 DEF SetupWatchers
    <2> QED BY <1>2, <2>1, SetupStep DEF Mutex
  <1>3. ASSUME NEW g \in Goroutines, Expire(g) PROVE Mutex'
    <2>1. lock' = lock
      BY <1>3 DEF Expire
    <2> QED BY <1>0, <1>3, <2>1, ExpireStep DEF Mutex
  <1>4. ASSUME NEW t \in Threads, Lock(t) PROVE Mutex'
    BY <1>0, <1>4, LockStep DEF Mutex
  <1>5. ASSUME NEW t \in Threads, ListDefinitions(t) PROVE Mutex'
    <2>1. lock' = lock
      BY <1>5 DEF ListDefinitions
    <2> QED BY <1>0, <1>5, <2>1, ListDefinitionsStep DEF Mutex
  <1>6. ASSUME NEW t \in Threads, ListServices(t) PROVE Mutex'
    <2>1. lock' = lock
      BY <1>6 DEF ListServices
    <2> QED BY <1>0, <1>6, <2>1, ListServicesStep DEF Mutex
  <1>7. ASSUME NEW t \in Threads, Publish(t) \/ ListFails(t) PROVE Mutex'
    BY <1>0, <1>7, ReturnStep DEF Mutex
  <1>8. Change \/ SetReady \/ ReadinessTimeout \/ Drain \/ Shutdown => UNCHANGED <<th, lock>>
    BY DEF Change, ChangeDefinition, ChangeService, SetReady, ReadinessTimeout, Drain, Shutdown
  <1>9. \A i \in Informers : Resync(i) \/ ScheduleRecompute(i) => UNCHANGED <<th, lock>>
    BY DEF Resync, ScheduleRecompute
  <1> QED BY <1>1, <1>2, <1>3, <1>4, <1>5, <1>6, <1>7, <1>8, <1>9 DEF Next, Boot, Recompute, vars, Informers

\* Who is in doRecompute is alone there, and nobody else is.
LEMMA Alone ==
  ASSUME Mutex, NEW t \in Threads, th[t].pc \in {"defs", "svcs", "publish"}
  PROVE  lock = t /\ \A u \in Threads \ {t} : th[u].pc \notin {"defs", "svcs", "publish"}
  BY DEF Mutex

\* A recompute that still has to publish listed no earlier than the table's.
LEMMA ListedLaterStep == ASSUME TypeOK, Mutex, ListedLater, [Next]_vars PROVE ListedLater'
  <1>0. /\ version \in Nat /\ tableAt \in Nat /\ Goroutines \subseteq Threads
        /\ \A t \in Threads : th[t].at \in Nat
    BY DEF TypeOK, Threads
  <1>1. CASE UNCHANGED <<th, tableAt>> /\ (version' = version \/ version' = version + 1)
    BY <1>0, <1>1 DEF ListedLater
  <1>2. ASSUME NEW i \in Informers, SetupWatchers(i) PROVE ListedLater'
    <2>1. UNCHANGED <<version, tableAt>>
      BY <1>2 DEF SetupWatchers, cacheVars, tableVars
    <2> QED BY <1>2, <2>1, SetupStep DEF ListedLater
  <1>3. ASSUME NEW g \in Goroutines, Expire(g) PROVE ListedLater'
    <2>1. UNCHANGED <<version, tableAt>>
      BY <1>3 DEF Expire, cacheVars, tableVars
    <2> QED BY <1>0, <1>3, <2>1, ExpireStep DEF ListedLater
  <1>4. ASSUME NEW t \in Threads, Lock(t) PROVE ListedLater'
    <2>1. UNCHANGED <<version, tableAt>>
      BY <1>4 DEF Lock, cacheVars, tableVars
    <2> QED BY <1>4, <2>1, LockStep DEF ListedLater
  <1>5. ASSUME NEW t \in Threads, ListDefinitions(t) PROVE ListedLater'
    <2>1. UNCHANGED <<version, tableAt>>
      BY <1>5 DEF ListDefinitions, cacheVars, tableVars
    <2> QED BY <1>0, <1>5, <2>1, ListDefinitionsStep DEF ListedLater
  <1>6. ASSUME NEW t \in Threads, ListServices(t) PROVE ListedLater'
    <2>1. UNCHANGED <<version, tableAt>>
      BY <1>6 DEF ListServices, cacheVars, tableVars
    <2> QED BY <1>6, <2>1, ListServicesStep DEF ListedLater
  <1>7. ASSUME NEW t \in Threads, ListFails(t) PROVE ListedLater'
    <2>1. UNCHANGED <<version, tableAt>>
      BY <1>7 DEF ListFails, cacheVars
    <2> QED BY <1>7, <2>1, ReturnStep DEF ListedLater
  <1>8. ASSUME NEW t \in Threads, Publish(t) PROVE ListedLater'
    <2>1. version' = version /\ tableAt' = th[t].at /\ th[t].pc = "publish"
      BY <1>8 DEF Publish, cacheVars
    <2>2. \A u \in Threads : th'[u].pc \notin {"defs", "svcs", "publish"}
      BY <1>8, <2>1, Alone, ReturnStep
    <2> QED BY <2>1, <2>2 DEF ListedLater
  <1>9. Change => UNCHANGED <<th, tableAt>> /\ version' = version + 1
    BY DEF Change, ChangeDefinition, ChangeService, tableVars
  <1>10. SetReady \/ ReadinessTimeout \/ Drain \/ Shutdown => UNCHANGED <<th, tableAt, version>>
    BY DEF SetReady, ReadinessTimeout, Drain, Shutdown, tableVars, cacheVars
  <1>11. \A i \in Informers : Resync(i) \/ ScheduleRecompute(i) => UNCHANGED <<th, tableAt, version>>
    BY DEF Resync, ScheduleRecompute, tableVars, cacheVars
  <1>12. UNCHANGED vars => UNCHANGED <<th, tableAt, version>>
    BY DEF vars, tableVars, cacheVars
  <1> QED BY <1>1, <1>2, <1>3, <1>4, <1>5, <1>6, <1>7, <1>8, <1>9, <1>10, <1>11, <1>12
          DEF Next, Boot, Recompute, Informers

\* Start registers both handlers, then recomputes, then closes initialSync.
LEMMA BootOrderStep == ASSUME TypeOK, BootOrder, [Next]_vars PROVE BootOrder'
  <1> USE CatalogConstants
  <1>0. "boot" \in Threads /\ Goroutines \subseteq Threads /\ "boot" \notin Goroutines
    BY DEF Threads
  <1>1. CASE registered' = registered /\ initialSync' = initialSync /\ th'["boot"].pc = th["boot"].pc
    BY <1>1 DEF BootOrder
  <1>2. CASE SetupWatchers("defs")
    <2>1. registered' = registered \cup {"defs"} /\ initialSync' = initialSync /\ ~initialSync /\ th'["boot"].pc = "idle"
      BY <1>2 DEF SetupWatchers, TypeOK, Threads
    <2>2. th["boot"].pc = "idle" /\ "defs" \notin registered
      BY <1>2 DEF SetupWatchers
    <2>3. "svcs" \notin registered
      BY <2>2 DEF BootOrder
    <2> QED BY <2>1, <2>2, <2>3 DEF BootOrder, Informers
  <1>3. CASE SetupWatchers("svcs")
    <2>1. registered' = registered \cup {"svcs"} /\ initialSync' = initialSync /\ ~initialSync /\ th'["boot"].pc = "lock"
      BY <1>3 DEF SetupWatchers, TypeOK, Threads
    <2>2. "defs" \in registered /\ registered \subseteq Informers
      BY <1>3 DEF SetupWatchers, TypeOK, Informers
    <2> QED BY <2>1, <2>2 DEF BootOrder, Informers
  <1>4. ASSUME NEW t \in Threads, Lock(t) \/ ListDefinitions(t) \/ ListServices(t) PROVE BootOrder'
    <2>1. registered' = registered /\ initialSync' = initialSync
      BY <1>4 DEF Lock, ListDefinitions, ListServices
    <2>2. th[t].pc # "idle" /\ th'[t].pc # "idle" /\ \A u \in Threads \ {t} : th'[u] = th[u]
      BY <1>4, LockStep, ListDefinitionsStep, ListServicesStep
    <2> QED BY <1>0, <2>1, <2>2 DEF BootOrder
  <1>5. ASSUME NEW t \in Threads, Publish(t) \/ ListFails(t) PROVE BootOrder'
    <2>1. registered' = registered /\ initialSync' = (initialSync \/ t = "boot")
      BY <1>5 DEF Publish, ListFails, Return
    <2>2. th[t].pc # "idle" /\ th'[t].pc = "idle" /\ \A u \in Threads \ {t} : th'[u] = th[u]
      BY <1>5, ReturnStep
    <2>3. CASE t = "boot"
      BY <2>1, <2>2, <2>3 DEF BootOrder
    <2>4. CASE t # "boot"
      <3>1. initialSync' <=> initialSync
        BY <2>1, <2>4
      <3> QED BY <1>0, <2>1, <2>2, <2>4, <3>1 DEF BootOrder
    <2> QED BY <2>3, <2>4
  <1>6. ASSUME NEW g \in Goroutines, Expire(g) PROVE BootOrder'
    <2>1. registered' = registered /\ initialSync' = initialSync
      BY <1>6 DEF Expire
    <2> QED BY <1>0, <1>1, <1>6, <2>1, ExpireStep
  <1>7. Change \/ SetReady \/ ReadinessTimeout \/ Drain \/ Shutdown => UNCHANGED <<registered, initialSync, th>>
    BY DEF Change, ChangeDefinition, ChangeService, SetReady, ReadinessTimeout, Drain, Shutdown
  <1>8. \A i \in Informers : Resync(i) \/ ScheduleRecompute(i) => UNCHANGED <<registered, initialSync, th>>
    BY DEF Resync, ScheduleRecompute
  <1> QED BY <1>1, <1>2, <1>3, <1>4, <1>5, <1>6, <1>7, <1>8 DEF Next, Boot, Recompute, vars, Informers

\* No change of the cache is lost.
LEMMA ListsAreCurrentStep ==
  ASSUME TypeOK, Mutex, BootOrder, ListsAreCurrent, [Next]_vars
  PROVE  ListsAreCurrent'
  <1> USE CatalogConstants
  <1>0. /\ "boot" \in Threads /\ Goroutines \subseteq Threads /\ Nil \notin Threads
        /\ \A i \in Informers : events[i] \in Nat
    BY DEF Threads, TypeOK, Informers
  <1>1. CASE UNCHANGED <<defs, svcs, registered, events, timer, lock, th, table, failed>>
    BY <1>1 DEF ListsAreCurrent, Due
  <1>2. CASE Change
    <2>1. CASE registered # Informers
      <3>1. registered' # Informers
        BY <1>2, <2>1 DEF Change, ChangeDefinition, ChangeService
      <3> QED BY <3>1 DEF ListsAreCurrent, Due
    <2>2. CASE registered = Informers
      <3>1. events'["defs"] > 0 \/ events'["svcs"] > 0
        BY <1>0, <1>2, <2>2 DEF Change, ChangeDefinition, ChangeService, Notify, Informers, TypeOK
      <3> QED BY <3>1 DEF ListsAreCurrent, Due
    <2> QED BY <2>1, <2>2
  <1>3. ASSUME NEW i \in Informers, SetupWatchers(i) PROVE ListsAreCurrent'
    <2>1. CASE i = "svcs"
      <3>1. th'["boot"].pc = "lock"
        BY <1>0, <1>3, <2>1 DEF SetupWatchers, TypeOK
      <3> QED BY <1>0, <3>1 DEF ListsAreCurrent, Due
    <2>2. CASE i = "defs"
      <3>1. registered' = registered \cup {"defs"} /\ "svcs" \notin registered
        BY <1>3, <2>2 DEF SetupWatchers, BootOrder
      <3> QED BY <3>1 DEF ListsAreCurrent, Due, Informers
    <2> QED BY <2>1, <2>2 DEF Informers
  <1>4. ASSUME NEW i \in Informers, Resync(i) PROVE ListsAreCurrent'
    <2>1. events'["defs"] > 0 \/ events'["svcs"] > 0
      BY <1>0, <1>4 DEF Resync, Notify, Informers, TypeOK
    <2> QED BY <2>1 DEF ListsAreCurrent, Due
  <1>5. ASSUME NEW i \in Informers, ScheduleRecompute(i) PROVE ListsAreCurrent'
    BY <1>5 DEF ScheduleRecompute, ListsAreCurrent, Due
  <1>6. ASSUME NEW g \in Goroutines, Expire(g) PROVE ListsAreCurrent'
    BY <1>0, <1>6, ExpireStep DEF ListsAreCurrent, Due
  <1>7. ASSUME NEW t \in Threads, Lock(t) PROVE ListsAreCurrent'
    <2>1. \A u \in Threads : th'[u].pc \notin {"svcs", "publish"}
      BY <1>0, <1>7, LockStep DEF Mutex
    <2>2. lock' # Nil
      BY <1>0, <1>7, LockStep
    <2> QED BY <2>1, <2>2 DEF ListsAreCurrent
  <1>8. ASSUME NEW t \in Threads, ListDefinitions(t) PROVE ListsAreCurrent'
    <2>1. UNCHANGED <<defs, svcs, lock>>
      BY <1>8 DEF ListDefinitions, cacheVars
    <2>2. \A u \in Threads \ {t} : th'[u].pc \notin {"svcs", "publish"}
      BY <1>8, ListDefinitionsStep, Alone
    <2>3. lock' # Nil
      BY <1>0, <1>8, <2>1, ListDefinitionsStep, Alone
    <2> QED BY <1>8, <2>1, <2>2, <2>3, ListDefinitionsStep DEF ListsAreCurrent
  <1>9. ASSUME NEW t \in Threads, ListServices(t) PROVE ListsAreCurrent'
    <2>1. UNCHANGED <<defs, svcs, lock, events, timer, registered>>
      BY <1>9 DEF ListServices, cacheVars
    <2>2. \A u \in Threads \ {t} : th'[u].pc \notin {"svcs", "publish"}
      BY <1>9, ListServicesStep, Alone
    <2>3. lock' # Nil
      BY <1>0, <1>9, <2>1, ListServicesStep, Alone
    <2>4. Due => Due'
      BY <1>9, <2>1, ListServicesStep DEF Due
    <2> QED BY <1>9, <2>1, <2>2, <2>3, <2>4, ListServicesStep DEF ListsAreCurrent
  <1>10. ASSUME NEW t \in Threads, ListFails(t) \/ Publish(t) PROVE ListsAreCurrent'
    <2>1. UNCHANGED <<defs, svcs, events, timer, registered>>
      BY <1>10 DEF ListFails, Publish, cacheVars
    <2>2. \A u \in Threads : th'[u].pc \notin {"svcs", "publish"}
      BY <1>10, ReturnStep, Alone
    <2>3. Due => Due'
      BY <1>10, <2>1, ReturnStep DEF Due
    <2>4. CASE ListFails(t)
      <3>1. failed'
        BY <2>4 DEF ListFails
      <3> QED BY <2>2, <3>1 DEF ListsAreCurrent
    <2>5. CASE Publish(t)
      <3>1. th[t].pc = "publish" /\ table' \in Builds(th[t].defs, th[t].svcs)
        BY <2>5 DEF Publish
      <3>2. ~Due => table' \in Builds(defs, svcs)
        BY <3>1 DEF ListsAreCurrent
      <3>3. Builds(defs, svcs)' = Builds(defs, svcs)
        BY <2>1 DEF Builds, Build, ServiceOffers, RuntimeOffers, HasKey
      <3> QED BY <2>2, <2>3, <3>2, <3>3 DEF ListsAreCurrent
    <2> QED BY <1>10, <2>4, <2>5
  <1>11. SetReady \/ ReadinessTimeout \/ Drain \/ Shutdown \/ UNCHANGED vars
            => UNCHANGED <<defs, svcs, registered, events, timer, lock, th, table, failed>>
    BY DEF SetReady, ReadinessTimeout, Drain, Shutdown, vars, cacheVars, tableVars
  <1> QED BY <1>1, <1>2, <1>3, <1>4, <1>5, <1>6, <1>7, <1>8, <1>9, <1>10, <1>11
          DEF Next, Boot, Recompute, Informers

\* The inductive invariant holds at all times.
LEMMA CatalogInvariant == Spec => []CInv
  <1> USE CatalogConstants
  <1>1. Init => CInv
    <2> SUFFICES ASSUME Init PROVE CInv
      OBVIOUS
    <2>1. Nil \notin Threads /\ \A t \in Threads : th[t].pc = "idle"
      BY DEF Init, Idle, Threads
    <2>2. version = 0 /\ tableAt = 0 /\ registered = {} /\ ~initialSync /\ lock = Nil
      BY DEF Init
    <2>3. "boot" \in Threads
      BY DEF Threads
    <2>4. Mutex /\ ListedLater
      BY <2>1, <2>2 DEF Mutex, ListedLater
    <2>5. BootOrder
      BY <2>1, <2>2, <2>3 DEF BootOrder, Informers
    <2>6. ListsAreCurrent
      BY <2>2 DEF ListsAreCurrent, Due, Informers
    <2> QED BY <2>4, <2>5, <2>6 DEF CInv
  <1>2. TypeOK /\ CInv /\ [Next]_vars => CInv'
    BY MutexStep, ListedLaterStep, BootOrderStep, ListsAreCurrentStep DEF CInv
  <1> QED BY <1>1, <1>2, CatalogTypeCorrect, PTL DEF Spec

\* No change is lost: when no event, timer or goroutine is left, the table is
\* what Build makes of the cache, unless the last list failed.
THEOREM NoChangeLost == Spec => []QuietTableIsCurrent
  <1> USE CatalogConstants
  <1>1. TypeOK /\ CInv => QuietTableIsCurrent
    <2> SUFFICES ASSUME TypeOK, CInv, ~Pending, ~failed PROVE table \in Builds(defs, svcs)
      BY DEF QuietTableIsCurrent
    <2>1. \A t \in Threads : th[t].pc = "idle"
      BY DEF Pending
    <2>2. initialSync
      BY DEF Pending
    <2>3. registered = Informers
      BY <2>2 DEF CInv, BootOrder
    <2>4. ~Due
      BY <2>1, <2>3 DEF Pending, Due
    <2>5. lock = Nil
      BY <2>1 DEF CInv, Mutex, TypeOK
    <2> QED BY <2>4, <2>5 DEF CInv, ListsAreCurrent
  <1> QED BY <1>1, CatalogTypeCorrect, CatalogInvariant, PTL

\* A recompute never replaces the table of one that listed later.
THEOREM TableNeverGoesBack == Spec => TableMovesForward
  <1>1. TypeOK /\ CInv /\ [Next]_vars => [tableAt' >= tableAt]_tableAt
    <2> SUFFICES ASSUME TypeOK, CInv, Next PROVE tableAt' = tableAt \/ tableAt' >= tableAt
      BY DEF vars, tableVars
    <2>1. ASSUME NEW t \in Threads, Publish(t) PROVE tableAt' >= tableAt
      <3>1. tableAt' = th[t].at /\ th[t].pc = "publish" /\ th[t].at \in Nat /\ tableAt \in Nat
        BY <2>1 DEF Publish, TypeOK
      <3>2. tableAt <= th[t].at
        BY <3>1 DEF CInv, ListedLater
      <3> QED BY <3>1, <3>2
    <2>2. ASSUME NEW t \in Threads, Lock(t) \/ ListDefinitions(t) \/ ListServices(t) \/ ListFails(t) PROVE tableAt' = tableAt
      BY <2>2 DEF Lock, ListDefinitions, ListServices, ListFails, tableVars
    <2>3. Change \/ Boot \/ SetReady \/ ReadinessTimeout \/ Drain \/ Shutdown => tableAt' = tableAt
      BY DEF Change, ChangeDefinition, ChangeService, Boot, SetupWatchers, SetReady, ReadinessTimeout,
             Drain, Shutdown, tableVars
    <2>4. \A i : Resync(i) \/ ScheduleRecompute(i) \/ Expire(i) => tableAt' = tableAt
      BY DEF Resync, ScheduleRecompute, Expire, tableVars
    <2> QED BY <2>1, <2>2, <2>3, <2>4 DEF Next, Recompute
  <1> QED BY <1>1, CatalogTypeCorrect, CatalogInvariant, PTL DEF Spec, TableMovesForward

-----------------------------------------------------------------------------
\* Until the cache changes for the first time every list is the cache, and so is
\* the table, once one was stored; Start closes initialSync after it stored one
\* or after a list of its own failed, and main reports ready only after that.
ReadyInv ==
    /\ ready => initialSync
    /\ version = 0 =>
        /\ \A t \in Threads : /\ th[t].pc \in {"svcs", "publish"} => th[t].defs = defs
                              /\ th[t].pc = "publish" => th[t].svcs = svcs
        /\ \/ table \in Builds(defs, svcs)
           \/ table = NoTable /\ (initialSync => startFailed)

LEMMA ReadyInvStep == ASSUME TypeOK, ReadyInv, [Next]_vars PROVE ReadyInv'
  <1>0. version \in Nat /\ Goroutines \subseteq Threads
    BY DEF TypeOK, Threads
  <1>1. CASE /\ UNCHANGED <<cacheVars, th, tableVars, initialSync>>
             /\ ready' => ready \/ initialSync
    BY <1>1 DEF ReadyInv, cacheVars, tableVars
  <1>2. CASE Change
    BY <1>0, <1>2 DEF Change, ChangeDefinition, ChangeService, ReadyInv, mainVars
  <1>3. ASSUME NEW i \in Informers, SetupWatchers(i) PROVE ReadyInv'
    <2>1. UNCHANGED <<cacheVars, tableVars, initialSync, mainVars>>
      BY <1>3 DEF SetupWatchers
    <2> QED BY <1>3, <2>1, SetupStep DEF ReadyInv, cacheVars, tableVars, mainVars
  <1>4. ASSUME NEW g \in Goroutines, Expire(g) PROVE ReadyInv'
    <2>1. UNCHANGED <<cacheVars, tableVars, initialSync, mainVars>>
      BY <1>4 DEF Expire
    <2> QED BY <1>0, <1>4, <2>1, ExpireStep DEF ReadyInv, cacheVars, tableVars, mainVars
  <1>5. ASSUME NEW t \in Threads, Lock(t) \/ ListDefinitions(t) \/ ListServices(t) PROVE ReadyInv'
    <2>1. UNCHANGED <<cacheVars, tableVars, initialSync, mainVars>>
      BY <1>5 DEF Lock, ListDefinitions, ListServices
    <2> QED BY <1>5, <2>1, LockStep, ListDefinitionsStep, ListServicesStep
            DEF ReadyInv, cacheVars, tableVars, mainVars
  <1>6. ASSUME NEW t \in Threads, ListFails(t) PROVE ReadyInv'
    <2>1. /\ UNCHANGED <<cacheVars, table, mainVars>>
          /\ initialSync' = (initialSync \/ t = "boot")
          /\ startFailed' = (startFailed \/ t = "boot")
      BY <1>6 DEF ListFails, Return
    <2>2. UNCHANGED <<NoTable, Builds(defs, svcs)>>
      BY <2>1 DEF cacheVars, NoTable, Builds, Build, ServiceOffers, RuntimeOffers, HasKey
    <2> QED BY <1>6, <2>1, <2>2, ReturnStep DEF ReadyInv, cacheVars, mainVars
  <1>7. ASSUME NEW t \in Threads, Publish(t) PROVE ReadyInv'
    <2>1. /\ UNCHANGED <<cacheVars, mainVars>> /\ (initialSync => initialSync')
          /\ th[t].pc = "publish" /\ table' \in Builds(th[t].defs, th[t].svcs)
      BY <1>7 DEF Publish, Return
    <2>2. version = 0 => table' \in Builds(defs, svcs)
      BY <2>1 DEF ReadyInv
    <2> QED BY <1>7, <2>1, <2>2, ReturnStep DEF ReadyInv, cacheVars, mainVars
  <1>8. SetReady \/ ReadinessTimeout \/ Drain \/ Shutdown =>
          UNCHANGED <<cacheVars, th, tableVars, initialSync>> /\ (ready' => ready \/ initialSync)
    BY DEF SetReady, ReadinessTimeout, Drain, Shutdown
  <1>9. \A i \in Informers : Resync(i) \/ ScheduleRecompute(i) =>
          UNCHANGED <<cacheVars, th, tableVars, initialSync, ready>>
    BY DEF Resync, ScheduleRecompute, mainVars
  <1>10. UNCHANGED vars => UNCHANGED <<cacheVars, th, tableVars, initialSync, ready>>
    BY DEF vars, mainVars
  <1> QED BY <1>1, <1>2, <1>3, <1>4, <1>5, <1>6, <1>7, <1>8, <1>9, <1>10
          DEF Next, Boot, Recompute, Informers

\* A gateway that reports ready routes what was cached when it started, however
\* startup, debounced events and failing lists interleave, or else the list
\* that failed was of the recompute Start makes itself and no table was stored.
THEOREM ReadyOnlyWhenRouted == Spec => []ReadyMeansRouted
  <1>1. Init => ReadyInv
    BY DEF Init, ReadyInv, Idle
  <1>2. TypeOK /\ ReadyInv /\ [Next]_vars => ReadyInv'
    BY ReadyInvStep
  <1>3. ReadyInv => ReadyMeansRouted
    BY DEF ReadyInv, ReadyMeansRouted
  <1> QED BY <1>1, <1>2, <1>3, CatalogTypeCorrect, PTL DEF Spec

=============================================================================
