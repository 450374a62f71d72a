--------------------------- MODULE RegistryProofs ---------------------------
(***************************************************************************)
(* The registry and its sweeps for any number of directories, commands,    *)
(* sweeps and roots: its state is well formed, and no sweep stale-reaps a  *)
(* root under a client that stayed.  Then the index that a watch fills for *)
(* its root (Scan), and the daemon that holds them all, with its clients   *)
(* (Lifecycle): a client waits only on a live daemon, and a call fails     *)
(* only for a reason.                                                      *)
(***************************************************************************)
EXTENDS Registry, Scan, Lifecycle, WellFoundedInduction, TLAPS

UserNames == {Name[t] : t \in Procs}

\* The values of the variables.
Types ==
    /\ counter \in 0..MaxRoots
    /\ dir \in [Paths -> BOOLEAN] /\ roots \in [Paths -> 0..counter]
    /\ path \in [Roots -> Paths] /\ names \in [Roots -> SUBSET UserNames]
    /\ trigger \in [Roots -> BOOLEAN] /\ idle \in [Roots -> BOOLEAN]
    /\ missing \in [Roots -> 0..DEAD_TICK_THRESHOLD]
    /\ listening \in [Roots -> SUBSET Procs]
    /\ pc \in [Procs -> {"idle", "insert", "command"}]
    /\ arg \in [Procs -> Paths] /\ hold \in [Procs -> 0..counter]
    /\ gpc \in [Sweepers -> {"idle", "next", "stat", "check", "dead", "stale"}]
    /\ todo \in [Sweepers -> SUBSET Paths] /\ at \in [Sweepers -> Paths]
    /\ held \in [Sweepers -> 0..counter]
    /\ DOMAIN steady = Sweepers

\* The log keeps its capacity.
LogOK == reap_log \in Seq([path: Paths, reason: {"dead", "stale"}])
         /\ Len(reap_log) <= REAP_LOG_CAPACITY

\* A root is held exactly during the work on it, one about to be inserted was
\* made for that path, and the map files each root under its own.
Links ==
    /\ \A p \in Paths : roots[p] # NoRoot => path[roots[p]] = p
    /\ \A t \in Procs : /\ hold[t] # NoRoot <=> pc[t] # "idle"
                        /\ pc[t] = "insert" => path[hold[t]] = arg[t]
    /\ \A g \in Sweepers : held[g] # NoRoot <=> gpc[g] \notin {"idle", "next"}

\* The clients a sweep has seen and that have stayed are still on its root, and
\* a sweep that decided on a stale reap saw none.
SteadyOK ==
    \A g \in Sweepers :
        /\ held[g] # NoRoot => steady[g] \subseteq Clients(held[g])
        /\ gpc[g] = "stale" => steady[g] = {}

Inv == Types /\ LogOK /\ Links /\ SteadyOK

\* An empty registry satisfies the invariant.
LEMMA InitInv == Init => Inv
  <1>. SUFFICES ASSUME Init PROVE Inv
    OBVIOUS
  <1>1. Types
    BY RegistryAssumption DEF Init, Types, Roots, NoRoot, DEAD_TICK_THRESHOLD
  <1>2. LogOK
    BY RegistryAssumption DEF Init, LogOK
  <1>3. Links /\ SteadyOK
    BY DEF Init, Links, SteadyOK, NoRoot
  <1>. QED  BY <1>1, <1>2, <1>3, Zenon DEF Inv

\* What a sweep holds is a root, and one that exists already.
LEMMA HeldRoots ==
    ASSUME Types, NEW g \in Sweepers, held[g] # NoRoot
    PROVE  held[g] \in Roots /\ held[g] # counter + 1
  <1>1. counter \in 0..MaxRoots /\ held[g] \in 0..counter
    BY Zenon DEF Types
  <1>. QED  BY <1>1, RegistryAssumption, Z3 DEF Roots, NoRoot

\* The end of a sweep's visit, or of a step of it.
LEMMA LeaveTypes ==
    ASSUME Types, NEW g \in Sweepers,
           NEW next \in {"next", "stat", "check", "dead", "stale"}, Leave(g, next)
    PROVE  /\ gpc' \in [Sweepers -> {"idle", "next", "stat", "check", "dead", "stale"}]
           /\ held' \in [Sweepers -> 0..counter] /\ DOMAIN steady' = Sweepers
  <1>1. gpc' \in [Sweepers -> {"idle", "next", "stat", "check", "dead", "stale"}]
    BY DEF Types, Leave, Set
  <1>2. CASE next = "next"
    BY <1>1, <1>2 DEF Types, Leave, Set, NoRoot
  <1>3. CASE next # "next"
    BY <1>1, <1>3 DEF Types, Leave
  <1>. QED  BY <1>2, <1>3

\* A sweep that goes on with its visit keeps what it knows of the clients that stayed.
LEMMA LeaveSteady ==
    ASSUME Types, SteadyOK, UNCHANGED <<names, trigger>>, NEW g \in Sweepers,
           NEW next \in {"check", "dead", "next"}, Leave(g, next)
    PROVE  SteadyOK'
  <1>1. \A i : Clients(i)' = Clients(i)
    BY DEF Clients
  <1>2. \A h \in Sweepers : gpc'[h] = IF h = g THEN next ELSE gpc[h]
    BY DEF Types, Leave, Set
  <1>3. CASE next = "next"
    <2>1. \A h \in Sweepers : /\ held'[h] = IF h = g THEN NoRoot ELSE held[h]
                              /\ steady'[h] = IF h = g THEN {} ELSE steady[h]
      BY <1>3 DEF Types, Leave, Set
    <2>. QED  BY <1>1, <1>2, <1>3, <2>1 DEF SteadyOK, Clients
  <1>4. CASE next # "next"
    BY <1>1, <1>2, <1>4 DEF SteadyOK, Leave, Clients
  <1>. QED  BY <1>3, <1>4

\* log_reap drops the oldest entry of a full log.
LEMMA LogReapOK ==
    ASSUME LogOK, NEW e \in [path: Paths, reason: {"dead", "stale"}], log_reap(e)
    PROVE  LogOK'
  <1>. DEFINE E == [path: Paths, reason: {"dead", "stale"}]
              kept == IF Len(reap_log) = REAP_LOG_CAPACITY THEN Tail(reap_log) ELSE reap_log
  <1>1. kept \in Seq(E) /\ Len(kept) < REAP_LOG_CAPACITY
    <2>. HIDE DEF E
    <2>1. reap_log \in Seq(E) /\ Len(reap_log) <= REAP_LOG_CAPACITY
      BY DEF LogOK, E
    <2>2. CASE Len(reap_log) = REAP_LOG_CAPACITY
      <3>1. reap_log # <<>>
        BY <2>1, <2>2, RegistryAssumption
      <3>. QED  BY <2>1, <2>2, <3>1, RegistryAssumption
    <2>. QED  BY <2>1, <2>2, RegistryAssumption
  <1>2. reap_log' = Append(kept, e)
    BY DEF log_reap
  <1>. HIDE DEF kept
  <1>3. Append(kept, e) \in Seq(E) /\ Len(Append(kept, e)) = Len(kept) + 1
    BY <1>1
  <1>. QED  BY <1>1, <1>2, <1>3, RegistryAssumption DEF LogOK

\* Every step keeps the invariant.
LEMMA NextInv == ASSUME Inv, [Next]_vars PROVE Inv'
  <1>0. CASE UNCHANGED vars
    BY <1>0, Zenon DEF Inv, Types, LogOK, Links, SteadyOK, Clients, vars
  <1>1. ASSUME NEW p \in Paths, Fs(p)
        PROVE  Inv'
    <2>1. Types'
      BY <1>1, RegistryAssumption, Zenon DEF Inv, Types, Roots, NoRoot, Fs, Set, rootv, procv,
         sweepv
    <2>2. LogOK'
      BY <1>1 DEF Inv, LogOK, Fs
    <2>3. Links'
      BY <1>1, Zenon DEF Inv, Types, Links, NoRoot, Fs, Set, rootv, procv, sweepv
    <2>4. SteadyOK'
      BY <1>1, Zenon DEF Inv, Types, Links, SteadyOK, Clients, NoRoot, Fs, Set, rootv, procv,
         sweepv
    <2>. QED  BY <2>1, <2>2, <2>3, <2>4 DEF Inv
  <1>2. ASSUME NEW i \in Roots, Age(i)
        PROVE  Inv'
    <2>1. Types'
      BY <1>2, RegistryAssumption, Zenon DEF Inv, Types, Roots, NoRoot, Age, Set, procv, sweepv
    <2>2. LogOK'
      BY <1>2 DEF Inv, LogOK, Age
    <2>3. Links'
      BY <1>2, Zenon DEF Inv, Types, Links, NoRoot, Age, Set, procv, sweepv
    <2>4. SteadyOK'
      BY <1>2, Zenon DEF Inv, Types, Links, SteadyOK, Clients, NoRoot, Age, Set, procv, sweepv
    <2>. QED  BY <2>1, <2>2, <2>3, <2>4 DEF Inv
  <1>3. ASSUME NEW t \in Procs, NEW p \in Paths, WatchAgain(t, p)
        PROVE  Inv'
    <2>1. Types'
      BY <1>3, RegistryAssumption, Zenon DEF Inv, Types, Roots, NoRoot, WatchAgain, Set, procv,
         sweepv
    <2>2. LogOK'
      BY <1>3 DEF Inv, LogOK, WatchAgain
    <2>3. Links'
      BY <1>3, Z3 DEF Inv, Types, Links, NoRoot, WatchAgain, Set, procv, sweepv
    <2>4. SteadyOK'
      BY <1>3, Zenon DEF Inv, Types, Links, SteadyOK, Clients, NoRoot, WatchAgain, Set, procv,
         sweepv
    <2>. QED  BY <2>1, <2>2, <2>3, <2>4 DEF Inv
  <1>4. ASSUME NEW t \in Procs, NEW p \in Paths, NEW b \in BOOLEAN, WatchNew(t, p, b)
        PROVE  Inv'
    <2>1. Types'
      BY <1>4, RegistryAssumption, Z3T(30) DEF Inv, Types, Roots, NoRoot, WatchNew, Set, sweepv
    <2>2. LogOK'
      BY <1>4, Zenon DEF Inv, LogOK, WatchNew
    <2>3. Links'
      BY <1>4, RegistryAssumption, Z3T(30) DEF Inv, Types, Links, Roots, NoRoot, WatchNew, Set,
         sweepv
    <2>4. SteadyOK'
      <3>1. UNCHANGED <<names, held, steady, gpc>> /\ trigger' = Set(trigger, counter + 1, b)
        BY <1>4, Zenon DEF WatchNew, sweepv
      <3>2. \A g \in Sweepers : held[g] # NoRoot => held[g] \in Roots /\ held[g] # counter + 1
        BY HeldRoots, Zenon DEF Inv
      <3>3. \A g \in Sweepers : held[g] # NoRoot => Clients(held[g])' = Clients(held[g])
        <4>1. DOMAIN trigger = Roots
          BY Zenon DEF Inv, Types
        <4>. QED  BY <3>1, <3>2, <4>1, Zenon DEF Clients, Set
      <3>. QED  BY <3>1, <3>3, Zenon DEF Inv, SteadyOK
    <2>. QED  BY <2>1, <2>2, <2>3, <2>4 DEF Inv
  <1>5. ASSUME NEW t \in Procs, Insert(t)
        PROVE  Inv'
    <2>1. Types'
      BY <1>5, RegistryAssumption, Z3 DEF Inv, Types, Roots, NoRoot, Insert, Release, Set,
         rootv, sweepv
    <2>2. LogOK'
      BY <1>5 DEF Inv, LogOK, Insert
    <2>3. Links'
      BY <1>5, Zenon DEF Inv, Types, Links, NoRoot, Insert, Release, Set, rootv, sweepv
    <2>4. SteadyOK'
      BY <1>5, Zenon DEF Inv, Types, Links, SteadyOK, Clients, NoRoot, Insert, Release, Set,
         rootv, sweepv
    <2>. QED  BY <2>1, <2>2, <2>3, <2>4 DEF Inv
  <1>6. ASSUME NEW t \in Procs, SpawnFails(t)
        PROVE  Inv'
    <2>1. Types'
      BY <1>6, RegistryAssumption, Z3 DEF Inv, Types, Roots, NoRoot, SpawnFails, Release,
         Set, rootv, sweepv
    <2>2. LogOK'
      BY <1>6 DEF Inv, LogOK, SpawnFails
    <2>3. Links'
      BY <1>6, Zenon DEF Inv, Types, Links, NoRoot, SpawnFails, Release, Set, rootv, sweepv
    <2>4. SteadyOK'
      BY <1>6, Zenon DEF Inv, Types, Links, SteadyOK, Clients, NoRoot, SpawnFails, Release, Set,
         rootv, sweepv
    <2>. QED  BY <2>1, <2>2, <2>3, <2>4 DEF Inv
  <1>7. ASSUME NEW t \in Procs, NEW p \in Paths, WatchDel(t, p)
        PROVE  Inv'
    <2>1. Types'
      BY <1>7, RegistryAssumption, Z3T(30) DEF Inv, Types, Roots, NoRoot, WatchDel,
         unregister_root, Set, rootv, procv, sweepv
    <2>2. LogOK'
      BY <1>7 DEF Inv, LogOK, WatchDel, unregister_root
    <2>3. Links'
      BY <1>7, Zenon DEF Inv, Types, Links, NoRoot, WatchDel, unregister_root, Set, rootv,
         procv, sweepv
    <2>4. SteadyOK'
      BY <1>7, Zenon DEF Inv, Types, Links, SteadyOK, Clients, NoRoot, WatchDel,
         unregister_root, Set, rootv, procv, sweepv
    <2>. QED  BY <2>1, <2>2, <2>3, <2>4 DEF Inv
  <1>8. ASSUME NEW t \in Procs, NEW p \in Paths, Lookup(t, p)
        PROVE  Inv'
    <2>1. Types'
      BY <1>8, RegistryAssumption, Zenon DEF Inv, Types, Roots, NoRoot, Lookup, Set, sweepv
    <2>2. LogOK'
      BY <1>8, Zenon DEF Inv, LogOK, Lookup
    <2>3. Links'
      BY <1>8, Zenon DEF Inv, Types, Links, NoRoot, Lookup, Set, sweepv
    <2>4. SteadyOK'
      BY <1>8, Zenon DEF Inv, Types, Links, SteadyOK, Clients, NoRoot, Lookup, Set, sweepv
    <2>. QED  BY <2>1, <2>2, <2>3, <2>4 DEF Inv
  <1>9. ASSUME NEW t \in Procs, Subscribe(t)
        PROVE  Inv'
    <2>1. Types'
      <3>1. hold[t] \in Roots /\ Name[t] \in UserNames
        BY <1>9, RegistryAssumption, Z3T(30) DEF Inv, Types, Links, Roots, NoRoot, Subscribe,
           UserNames
      <3>2. names' \in [Roots -> SUBSET UserNames] /\ listening' \in [Roots -> SUBSET Procs]
        BY <1>9, <3>1, Zenon DEF Inv, Types, Subscribe, Set
      <3>3. pc' \in [Procs -> {"idle", "insert",
         "command"}] /\ hold' \in [Procs -> 0..counter]
        BY <1>9 DEF Inv, Types, Subscribe, Release, Set, NoRoot
      <3>4. UNCHANGED <<dir, roots, counter, path, trigger, idle, missing, arg, gpc, todo,
                        at, held, steady>>
        BY <1>9, Zenon DEF Subscribe, Release
      <3>. QED  BY <3>2, <3>3, <3>4, Zenon DEF Inv, Types
    <2>2. LogOK'
      BY <1>9, Zenon DEF Inv, LogOK, Subscribe
    <2>3. Links'
      BY <1>9, Zenon DEF Inv, Types, Links, NoRoot, Subscribe, Release, Set
    <2>4. SteadyOK'
      BY <1>9, Z3T(30) DEF Inv, Types, Links, SteadyOK, Clients, NoRoot, Subscribe, Release, Set
    <2>. QED  BY <2>1, <2>2, <2>3, <2>4 DEF Inv
  <1>10. ASSUME NEW t \in Procs, Unsubscribe(t)
        PROVE  Inv'
    <2>1. Types'
      <3>1. hold[t] \in Roots
        BY <1>10, RegistryAssumption, Z3T(30) DEF Inv, Types, Links, Roots, NoRoot, Unsubscribe
      <3>2. names' \in [Roots -> SUBSET UserNames]
        BY <1>10, <3>1, Zenon DEF Inv, Types, Unsubscribe, Set
      <3>3. pc' \in [Procs -> {"idle", "insert",
         "command"}] /\ hold' \in [Procs -> 0..counter]
        BY <1>10, Z3 DEF Inv, Types, Unsubscribe, Release, Set, NoRoot
      <3>4. DOMAIN steady' = Sweepers
        BY <1>10, Zenon DEF Unsubscribe, Unsteady
      <3>5. UNCHANGED <<dir, roots, counter, path, trigger, idle, missing, listening, arg,
                        gpc, todo, at, held>>
        BY <1>10, Zenon DEF Unsubscribe, Release
      <3>. QED  BY <3>2, <3>3, <3>4, <3>5, Zenon DEF Inv, Types
    <2>2. LogOK'
      BY <1>10, Zenon DEF Inv, LogOK, Unsubscribe
    <2>3. Links'
      BY <1>10, Zenon DEF Inv, Types, Links, NoRoot, Unsubscribe, Release, Unsteady, Set
    <2>4. SteadyOK'
      BY <1>10, Z3T(30) DEF Inv, Types, Links, SteadyOK, Clients, NoRoot, Unsubscribe, Release,
         Unsteady, Set
    <2>. QED  BY <2>1, <2>2, <2>3, <2>4 DEF Inv
  <1>11. ASSUME NEW t \in Procs, NEW b \in BOOLEAN, SetTrigger(t, b)
        PROVE  Inv'
    <2>1. Types'
      <3>1. trigger' \in [Roots -> BOOLEAN]
        BY <1>11, Zenon DEF Inv, Types, SetTrigger, Set
      <3>2. DOMAIN steady' = Sweepers
        BY <1>11, Zenon DEF Inv, Types, SetTrigger, Unsteady
      <3>3. 0 \in 0..counter
        BY RegistryAssumption, Z3 DEF Inv, Types
      <3>4. hold' \in [Procs -> 0..counter] /\ pc' \in [Procs -> {"idle", "insert", "command"}]
        BY <1>11, <3>3, Zenon DEF Inv, Types, SetTrigger, Release, Set, NoRoot
      <3>. QED  BY <1>11, <3>1, <3>2, <3>4, Zenon DEF Inv, Types, SetTrigger, Release
    <2>2. LogOK'
      BY <1>11, Zenon DEF Inv, LogOK, SetTrigger
    <2>3. Links'
      BY <1>11, Zenon DEF Inv, Types, Links, NoRoot, SetTrigger, Release, Unsteady, Set
    <2>4. SteadyOK'
      BY <1>11, Z3 DEF Inv, Types, Links, SteadyOK, Clients, NoRoot, SetTrigger, Release,
         Unsteady, Set
    <2>. QED  BY <2>1, <2>2, <2>3, <2>4 DEF Inv
  <1>12. ASSUME NEW t \in Procs, Other(t)
        PROVE  Inv'
    <2>1. Types'
      BY <1>12, RegistryAssumption, Z3 DEF Inv, Types, Roots, NoRoot, Other, Release, Set,
         rootv, sweepv
    <2>2. LogOK'
      BY <1>12 DEF Inv, LogOK, Other
    <2>3. Links'
      BY <1>12, Zenon DEF Inv, Types, Links, NoRoot, Other, Release, Set, rootv, sweepv
    <2>4. SteadyOK'
      BY <1>12, Zenon DEF Inv, Types, Links, SteadyOK, Clients, NoRoot, Other, Release, Set,
         rootv, sweepv
    <2>. QED  BY <2>1, <2>2, <2>3, <2>4 DEF Inv
  <1>13. ASSUME NEW t \in Procs, NEW i \in Roots, TaskEnds(t, i)
        PROVE  Inv'
    <2>1. Types'
      BY <1>13, RegistryAssumption, Zenon DEF Inv, Types, Roots, NoRoot, TaskEnds, Unsteady,
         Set, procv
    <2>2. LogOK'
      BY <1>13, Zenon DEF Inv, LogOK, TaskEnds
    <2>3. Links'
      BY <1>13, Zenon DEF Inv, Types, Links, NoRoot, TaskEnds, Unsteady, Set, procv
    <2>4. SteadyOK'
      <3>1. /\ \A g \in Sweepers :
                  steady'[g] = IF held[g] = i THEN steady[g] \ {Name[t]} ELSE steady[g]
            /\ UNCHANGED <<trigger, held, gpc>>
        BY <1>13, Zenon DEF TaskEnds, Unsteady
      <3>2. \A k \in Roots : names[k] \ (IF k = i THEN {Name[t]} ELSE {}) \subseteq names'[k]
        BY <1>13, Zenon DEF Inv, Types, TaskEnds, Set
      <3>3. \A g \in Sweepers : held[g] # NoRoot => held[g] \in Roots
        BY HeldRoots, Zenon DEF Inv
      <3>4. \A g \in Sweepers : held[g] # NoRoot => steady'[g] \subseteq Clients(held[g])'
        <4>. SUFFICES ASSUME NEW g \in Sweepers, held[g] # NoRoot
                      PROVE  steady'[g] \subseteq Clients(held[g])'
          OBVIOUS
        <4>1. steady[g] \subseteq Clients(held[g]) /\ held[g] \in Roots
          BY <3>3, Zenon DEF Inv, SteadyOK
        <4>2. /\ steady'[g] = IF held[g] = i THEN steady[g] \ {Name[t]} ELSE steady[g]
              /\ names[held[g]] \ (IF held[g] = i THEN {Name[t]} ELSE {}) \subseteq names'[held[g]]
          BY <3>1, <3>2, <4>1, Zenon
        <4>3. Clients(held[g])' = names'[held[g]] \cup (IF trigger[held[g]] THEN {"trigger"} ELSE {})
          BY <3>1, Zenon DEF Clients
        <4>4. Clients(held[g]) = names[held[g]] \cup (IF trigger[held[g]] THEN {"trigger"} ELSE {})
          BY Zenon DEF Clients
        <4>. QED  BY <4>1, <4>2, <4>3, <4>4, Zenon
      <3>5. \A g \in Sweepers : gpc[g] = "stale" => steady'[g] = {}
        BY <3>1, Zenon DEF Inv, SteadyOK
      <3>. QED  BY <3>1, <3>4, <3>5, Zenon DEF SteadyOK
    <2>. QED  BY <2>1, <2>2, <2>3, <2>4 DEF Inv
  <1>14. ASSUME NEW g \in Sweepers, SweepBegin(g)
        PROVE  Inv'
    <2>1. Types'
      BY <1>14, RegistryAssumption, Zenon DEF Inv, Types, Roots, NoRoot, SweepBegin, Set, rootv,
         procv
    <2>2. LogOK'
      BY <1>14, Zenon DEF Inv, LogOK, SweepBegin
    <2>3. Links'
      BY <1>14, Zenon DEF Inv, Types, Links, NoRoot, SweepBegin, Set, rootv, procv
    <2>4. SteadyOK'
      BY <1>14, Zenon DEF Inv, Types, Links, SteadyOK, Clients, NoRoot, SweepBegin, Set, rootv,
         procv
    <2>. QED  BY <2>1, <2>2, <2>3, <2>4 DEF Inv
  <1>15. ASSUME NEW g \in Sweepers, SweepEnd(g)
        PROVE  Inv'
    <2>1. Types'
      BY <1>15, RegistryAssumption, Zenon DEF Inv, Types, Roots, NoRoot, SweepEnd, Set, rootv,
         procv
    <2>2. LogOK'
      BY <1>15 DEF Inv, LogOK, SweepEnd
    <2>3. Links'
      BY <1>15, Zenon DEF Inv, Types, Links, NoRoot, SweepEnd, Set, rootv, procv
    <2>4. SteadyOK'
      BY <1>15, Zenon DEF Inv, Types, Links, SteadyOK, Clients, NoRoot, SweepEnd, Set, rootv,
         procv
    <2>. QED  BY <2>1, <2>2, <2>3, <2>4 DEF Inv
  <1>16. ASSUME NEW g \in Sweepers, NEW p \in Paths, SweepNext(g, p)
        PROVE  Inv'
    <2>1. Types'
      <3>1. todo' \in [Sweepers -> SUBSET Paths]
        BY <1>16, Zenon DEF Inv, Types, SweepNext, Set
      <3>2. CASE roots[p] = NoRoot
        BY <1>16, <3>1, <3>2, Zenon DEF Inv, Types, SweepNext, rootv, procv
      <3>3. CASE roots[p] # NoRoot
        <4>1. gpc' \in [Sweepers -> {"idle", "next", "stat", "check", "dead", "stale"}]
              /\ at' \in [Sweepers -> Paths] /\ held' \in [Sweepers -> 0..counter]
              /\ DOMAIN steady' = Sweepers
          BY <1>16, <3>3, Z3 DEF Inv, Types, SweepNext, Set
        <4>. QED  BY <1>16, <3>1, <4>1, Zenon DEF Inv, Types, SweepNext, rootv, procv
      <3>. QED  BY <3>2, <3>3
    <2>2. LogOK'
      BY <1>16, Zenon DEF Inv, LogOK, SweepNext
    <2>3. Links'
      <3>1. CASE roots[p] = NoRoot
        BY <1>16, <3>1, Zenon DEF Inv, Links, SweepNext, procv
      <3>2. CASE roots[p] # NoRoot
        <4>1. \A h \in Sweepers : /\ held'[h] = IF h = g THEN roots[p] ELSE held[h]
                                  /\ gpc'[h] = IF h = g THEN "stat" ELSE gpc[h]
          BY <1>16, <3>2, Zenon DEF Inv, Types, SweepNext, Set
        <4>. QED  BY <1>16, <3>2, <4>1, Zenon DEF Inv, Links, SweepNext, procv
      <3>. QED  BY <3>1, <3>2
    <2>4. SteadyOK'
      BY <1>16, Z3 DEF Inv, Types, Links, SteadyOK, Clients, NoRoot, SweepNext, Set, rootv,
         procv
    <2>. QED  BY <2>1, <2>2, <2>3, <2>4 DEF Inv
  <1>17. ASSUME NEW g \in Sweepers, SweepStat(g)
        PROVE  Inv'
    <2>1. Types'
      <3>1. /\ gpc' \in [Sweepers -> {"idle", "next", "stat", "check", "dead", "stale"}]
            /\ held' \in [Sweepers -> 0..counter] /\ DOMAIN steady' = Sweepers
        BY <1>17, LeaveTypes, Zenon DEF Inv, SweepStat
      <3>2. held[g] \in Roots
        <4>1. held[g] # NoRoot
          BY <1>17, Zenon DEF Inv, Links, SweepStat
        <4>. QED  BY <4>1, RegistryAssumption, Z3 DEF Inv, Types, Roots, NoRoot
      <3>3. missing' \in [Roots -> 0..DEAD_TICK_THRESHOLD]
        BY <1>17, <3>2, Z3 DEF Inv, Types, SweepStat, Set, DEAD_TICK_THRESHOLD
      <3>. QED  BY <1>17, <3>1, <3>3, Zenon DEF Inv, Types, SweepStat, procv
    <2>2. LogOK'
      BY <1>17, Zenon DEF Inv, LogOK, SweepStat
    <2>3. Links'
      BY <1>17, Z3T(30) DEF Inv, Types, Links, NoRoot, SweepStat, Leave, DEAD_TICK_THRESHOLD, Set,
         procv
    <2>4. SteadyOK'
      <3>1. UNCHANGED <<names, trigger>>
        BY <1>17, Zenon DEF SweepStat
      <3>2. \E next \in {"check", "dead", "next"} : Leave(g, next)
        BY <1>17, Zenon DEF SweepStat
      <3>. QED  BY <3>1, <3>2, LeaveSteady DEF Inv
    <2>. QED  BY <2>1, <2>2, <2>3, <2>4 DEF Inv
  <1>18. ASSUME NEW g \in Sweepers, SweepCheck(g)
        PROVE  Inv'
    <2>1. Types'
      <3>1. /\ gpc' \in [Sweepers -> {"idle", "next", "stat", "check", "dead", "stale"}]
            /\ held' \in [Sweepers -> 0..counter] /\ DOMAIN steady' = Sweepers
        BY <1>18, LeaveTypes, Zenon DEF Inv, SweepCheck
      <3>. QED  BY <1>18, <3>1, Zenon DEF Inv, Types, SweepCheck, rootv, procv
    <2>2. LogOK'
      BY <1>18, Zenon DEF Inv, LogOK, SweepCheck
    <2>3. Links'
      BY <1>18, Z3 DEF Inv, Types, Links, NoRoot, SweepCheck, Leave, Set, rootv, procv
    <2>4. SteadyOK'
      BY <1>18, RegistryAssumption, Z3T(30) DEF Inv, Types, Links, SteadyOK, Clients, Roots,
         NoRoot, SweepCheck, Leave, Set, rootv, procv
    <2>. QED  BY <2>1, <2>2, <2>3, <2>4 DEF Inv
  <1>19. ASSUME NEW g \in Sweepers, reap(g)
        PROVE  Inv'
    <2>1. Types'
      <3>1. /\ gpc' \in [Sweepers -> {"idle", "next", "stat", "check", "dead", "stale"}]
            /\ held' \in [Sweepers -> 0..counter] /\ DOMAIN steady' = Sweepers
        BY <1>19, LeaveTypes, Zenon DEF Inv, reap
      <3>2. roots' \in [Paths -> 0..counter]
        <4>1. roots \in [Paths -> 0..counter] /\ counter \in 0..MaxRoots
          BY Zenon DEF Inv, Types
        <4>2. NoRoot \in 0..counter
          BY <4>1, RegistryAssumption, Z3 DEF NoRoot
        <4>. QED  BY <1>19, <4>1, <4>2, Zenon DEF reap, unregister_root, Set
      <3>3. UNCHANGED <<dir, counter, path, names, trigger, idle, missing, listening, pc, arg,
                        hold, todo, at>>
        BY <1>19, Zenon DEF reap, rootv, procv
      <3>. QED  BY <3>1, <3>2, <3>3, Zenon DEF Inv, Types
    <2>2. LogOK'
      <3>1. CASE roots[at[g]] = NoRoot
        BY <1>19, <3>1, Zenon DEF Inv, LogOK, reap
      <3>2. CASE roots[at[g]] # NoRoot
        <4>1. [path |-> at[g], reason |-> gpc[g]] \in 
                 [path: Paths, reason: {"dead", "stale"}]
          BY <1>19, Zenon DEF Inv, Types, reap
        <4>2. log_reap([path |-> at[g], reason |-> gpc[g]])
          BY <1>19, <3>2, Zenon DEF reap
        <4>. QED  BY <4>1, <4>2, LogReapOK, Zenon DEF Inv
      <3>. QED  BY <3>1, <3>2
    <2>3. Links'
      <3>1. \A h \in Sweepers : /\ held'[h] = IF h = g THEN NoRoot ELSE held[h]
                                /\ gpc'[h] = IF h = g THEN "next" ELSE gpc[h]
        BY <1>19, Zenon DEF Inv, Types, reap, Leave, Set
      <3>2. \A p \in Paths : roots'[p] = roots[p] \/ roots'[p] = NoRoot
        BY <1>19, Zenon DEF Inv, Types, reap, unregister_root, Set
      <3>. QED  BY <1>19, <3>1, <3>2, Zenon DEF Inv, Links, reap, procv
    <2>4. SteadyOK'
      BY <1>19, LeaveSteady, Zenon DEF Inv, reap, rootv
    <2>. QED  BY <2>1, <2>2, <2>3, <2>4 DEF Inv
  <1>. QED
    BY <1>0, <1>1, <1>2, <1>3, <1>4, <1>5, <1>6, <1>7, <1>8, <1>9, <1>10, <1>11, <1>12,
       <1>13, <1>14, <1>15, <1>16, <1>17, <1>18, <1>19 DEF Next

\* The invariant holds in every reachable state.
LEMMA SpecInv == Spec => []Inv
  BY InitInv, NextInv, PTL DEF Spec

\* The registry is well formed for any number of clients and sweeps: in
\* particular the map files a root under its own path, and the reap log keeps
\* its capacity (state.rs, log_reap).
THEOREM RegistryTypes == Spec => []TypeOK
  <1>1. Inv => TypeOK
    BY Zenon DEF Inv, Types, LogOK, Links, TypeOK, UserNames
  <1>. QED  BY <1>1, SpecInv, PTL

\* gc::sweep never stale-reaps a root under a subscription or trigger that was
\* there when the sweep looked the root up and has stayed, whatever other
\* commands and sweeps do meanwhile.
THEOREM SteadyRootKept == Spec => SteadyKeepsRoot
  <1>1. Inv => \A g \in Sweepers : StaleReaps(g) => steady[g] = {}
    BY Zenon DEF Inv, SteadyOK, StaleReaps
  <1>. QED  BY <1>1, SpecInv, PTL DEF SteadyKeepsRoot

-----------------------------------------------------------------------------

(***************************************************************************)
(* Scan, for every set of names and every bound on the disk: walk_into and *)
(* the event filter decide alike on every path.  walk is a recursive       *)
(* function, so what it computes is shown in two steps: the table Found    *)
(* solves its equation, and two solutions never differ, since the paths    *)
(* are bounded in length and each directory is decided by longer ones.     *)
(***************************************************************************)

\* Every set of numbers that is not empty has a least element.
LEMMA LeastNumber ==
    ASSUME NEW S \in SUBSET Nat, S # {}
    PROVE  \E n \in S : \A m \in S : n <= m
  <1>. DEFINE R == {ss \in Nat \X Nat : ss[1] < ss[2]}
  <1>1. IsWellFoundedOn(R, Nat)
    BY NatLessThanWellFounded DEF OpToRel
  <1>2. PICK n \in S : \A m \in S : <<m, n>> \notin R
    <2>. HIDE DEF R
    <2>. QED  BY <1>1, WFMin, Zenon
  <1>3. \A m \in S : n <= m
    <2>. TAKE m \in S
    <2>1. m \in Nat /\ n \in Nat /\ ~(m < n)
      BY <1>2, Zenon
    <2>. QED  BY <2>1
  <1>. QED  BY <1>3

\* Every entry is reached through directories, and none is deeper than some n.
DiskTree ==
    /\ \A p \in Entries :
          /\ p \in Seq(Names) /\ Len(p) > 0
          /\ \A n \in 1..(Len(p) - 1) :
                /\ SubSeq(p, 1, n) \in Entries
                /\ disk[SubSeq(p, 1, n)] = "dir"
    /\ \E n \in Nat : \A p \in Entries : Len(p) <= n

\* p lies below base.
Under(base, p) == Len(p) > Len(base) /\ SubSeq(p, 1, Len(base)) = base

\* What the walk of a directory finds: no pruned name below it, and nothing two
\* names or more below a VCS directory.
Reported(base, shallow, p) ==
    /\ Under(base, p)
    /\ shallow => Len(p) = Len(base) + 1
    /\ \A i \in (Len(base) + 1)..Len(p) : p[i] \notin Dirs /\ (p[i] \in Vcs => Len(p) <= i + 1)

\* What walk is shown to compute, as a table.
Found == [base \in Entries \cup {<<>>} |->
            [shallow \in BOOLEAN |-> {p \in Entries : Reported(base, shallow, p)}]]

\* One turn of walk, and the equation that defines it.
Kept(base) == {p \in Children(base) : file_name(p) \notin Dirs}
Level(w, base, shallow) == Kept(base) \cup UNION {Descend(w, p, shallow) : p \in Kept(base)}
Walks(w) == w = [base \in Entries \cup {<<>>} |-> [shallow \in BOOLEAN |-> Level(w, base, shallow)]]

\* A child of a directory is one name longer.
LEMMA ChildDef ==
    ASSUME DiskTree, NEW base \in Seq(Names), NEW p
    PROVE  p \in Children(base) <=> p \in Entries /\ Len(p) = Len(base) + 1 /\ Under(base, p)
  BY DEF Children, Under, DiskTree

\* walk solves its equation as soon as something does.
LEMMA WalkUnfolds == ASSUME NEW W, Walks(W) PROVE Walks(walk)
  <1>1. walk = CHOOSE w : Walks(w)
    BY Zenon DEF walk, Walks, Level, Kept
  <1>2. Walks(CHOOSE w : Walks(w))
    BY Zenon
  <1>. QED  BY <1>1, <1>2, Zenon

\* A path below a directory is its child, or below a child that is a directory.
LEMMA FirstStep ==
    ASSUME DiskTree, NEW base \in Seq(Names), NEW q \in Entries, Under(base, q),
           Len(q) # Len(base) + 1
    PROVE  LET p == SubSeq(q, 1, Len(base) + 1)
           IN  /\ p \in Children(base) /\ disk[p] = "dir" /\ Under(p, q)
               /\ Len(p) = Len(base) + 1
               /\ \A i \in 1..(Len(base) + 1) : p[i] = q[i]
  <1>. DEFINE p == SubSeq(q, 1, Len(base) + 1)
  <1>1. q \in Seq(Names) /\ Len(q) \in Nat /\ Len(base) \in Nat /\ Len(base) + 1 \in 1..(Len(q) - 1)
    BY DEF DiskTree, Under
  <1>2. p \in Entries /\ disk[p] = "dir"
    BY <1>1 DEF DiskTree
  <1>3. p \in Seq(Names) /\ Len(p) = Len(base) + 1 /\ \A i \in 1..(Len(base) + 1) : p[i] = q[i]
    BY <1>1
  <1>4. SubSeq(p, 1, Len(base)) = base
    <2>1. SubSeq(q, 1, Len(base)) = base
      BY DEF Under
    <2>2. \A i \in 1..Len(base) : SubSeq(p, 1, Len(base))[i] = SubSeq(q, 1, Len(base))[i]
      BY <1>1, <1>3
    <2>3. SubSeq(p, 1, Len(base)) \in Seq(Names) /\ Len(SubSeq(p, 1, Len(base))) = Len(base)
      BY <1>1, <1>3
    <2>. QED  BY <2>1, <2>2, <2>3
  <1>5. SubSeq(q, 1, Len(p)) = p
    BY <1>3
  <1>6. Under(base, p) /\ Under(p, q)
    BY <1>1, <1>3, <1>4, <1>5 DEF Under
  <1>7. p \in Children(base)
    <2>. HIDE DEF p
    <2>. QED  BY <1>2, <1>3, <1>6, ChildDef
  <1>. QED  BY <1>2, <1>3, <1>6, <1>7, Zenon

\* What lies below a child lies below the directory.
LEMMA UnderChild ==
    ASSUME NEW base \in Seq(Names), NEW p \in Seq(Names), NEW q \in Seq(Names),
           Under(base, p), Under(p, q)
    PROVE  /\ Under(base, q) /\ Len(q) > Len(p)
           /\ \A i \in 1..Len(p) : p[i] = q[i]
  <1>1. \A i \in 1..Len(p) : p[i] = SubSeq(q, 1, Len(p))[i]
    BY DEF Under
  <1>2. Len(p) \in Nat /\ Len(q) \in Nat /\ Len(base) \in Nat /\ Len(base) < Len(p) /\ Len(p) < Len(q)
    BY DEF Under
  <1>3. \A i \in 1..Len(p) : p[i] = q[i]
    BY <1>1, <1>2
  <1>4. SubSeq(q, 1, Len(base)) = SubSeq(p, 1, Len(base))
    BY <1>2, <1>3
  <1>. QED  BY <1>2, <1>3, <1>4 DEF Under

\* The entries of a directory that are kept.
LEMMA KeptDef ==
    ASSUME DiskTree, NEW base \in Seq(Names), NEW p
    PROVE  p \in Kept(base) <=> /\ p \in Entries /\ Len(p) = Len(base) + 1
                               /\ Under(base, p) /\ p[Len(p)] \notin Dirs
  BY ChildDef, Zenon DEF Kept, file_name

\* What the walk of a directory finds is its entries that are kept and, unless
\* the walk is shallow, what the walks of the directories among them find.
LEMMA FoundLevel ==
    ASSUME DiskTree, NEW base \in Entries \cup {<<>>}, NEW shallow \in BOOLEAN, NEW q
    PROVE  q \in Found[base][shallow] <=> q \in Level(Found, base, shallow)
  <1>1. base \in Seq(Names) /\ Len(base) \in Nat
    <2>1. CASE base \in Entries
      BY <2>1 DEF DiskTree
    <2>2. CASE base = <<>>
      BY <2>2
    <2>. QED  BY <2>1, <2>2
  <1>2. ASSUME NEW p \in Kept(base)
        PROVE  /\ p \in Entries /\ p \in Seq(Names) /\ Len(p) = Len(base) + 1
               /\ Under(base, p) /\ p[Len(p)] \notin Dirs
               /\ Descend(Found, p, shallow) =
                     IF disk[p] = "dir" /\ ~shallow
                     THEN {r \in Entries : Reported(p, p[Len(p)] \in Vcs, r)} ELSE {}
    <2>1. p \in Entries /\ Len(p) = Len(base) + 1 /\ Under(base, p) /\ p[Len(p)] \notin Dirs
      BY <1>1, KeptDef
    <2>2. p \in Seq(Names)
      BY <2>1 DEF DiskTree
    <2>3. \A b \in BOOLEAN : Found[p][b] = {r \in Entries : Reported(p, b, r)}
      BY <2>1, Zenon DEF Found
    <2>4. (p[Len(p)] \in Vcs) \in BOOLEAN
      OBVIOUS
    <2>5. Found[p][p[Len(p)] \in Vcs] = {r \in Entries : Reported(p, p[Len(p)] \in Vcs, r)}
      BY <2>3, <2>4, Zenon
    <2>. QED  BY <2>1, <2>2, <2>5, Zenon DEF Descend, file_name
  <1>3. q \in Found[base][shallow] <=> q \in Entries /\ Reported(base, shallow, q)
    BY Zenon DEF Found
  <1>4. ASSUME q \in Entries, Reported(base, shallow, q)
        PROVE  q \in Level(Found, base, shallow)
    <2>1. q \in Seq(Names) /\ Len(q) \in Nat /\ Under(base, q)
      BY <1>4 DEF DiskTree, Reported
    <2>2. CASE Len(q) = Len(base) + 1
      <3>1. q[Len(q)] \notin Dirs
        BY <1>1, <1>4, <2>1, <2>2 DEF Reported
      <3>2. q \in Kept(base)
        BY <1>1, <1>4, <2>1, <2>2, <3>1, KeptDef
      <3>. QED  BY <3>2, Zenon DEF Level
    <2>3. CASE Len(q) # Len(base) + 1
      <3>. DEFINE p == SubSeq(q, 1, Len(base) + 1)
      <3>1. /\ p \in Children(base) /\ disk[p] = "dir" /\ Under(p, q)
            /\ Len(p) = Len(base) + 1
            /\ \A i \in 1..(Len(base) + 1) : p[i] = q[i]
        BY <1>1, <1>4, <2>1, <2>3, FirstStep, Zenon
      <3>. HIDE DEF p
      <3>2. p \in Entries /\ Under(base, p)
        BY <1>1, <3>1, ChildDef
      <3>3. Len(q) > Len(base) + 1
        BY <3>1 DEF Under
      <3>4. p[Len(p)] = q[Len(base) + 1] /\ p[Len(p)] \notin Dirs
            /\ (p[Len(p)] \in Vcs => Len(q) <= Len(base) + 2)
        BY <1>1, <1>4, <2>1, <3>1, <3>3 DEF Reported
      <3>5. p \in Kept(base)
        BY <1>1, <3>1, <3>2, <3>4, KeptDef
      <3>6. ~shallow
        BY <1>4, <2>3 DEF Reported
      <3>7. Reported(p, p[Len(p)] \in Vcs, q)
        BY <1>1, <1>4, <2>1, <3>1, <3>3, <3>4 DEF Reported
      <3>8. q \in Descend(Found, p, shallow)
        BY <1>2, <1>4, <3>1, <3>5, <3>6, <3>7, Zenon
      <3>. QED  BY <3>5, <3>8, Zenon DEF Level
    <2>. QED  BY <2>2, <2>3
  <1>5. ASSUME q \in Level(Found, base, shallow)
        PROVE  q \in Entries /\ Reported(base, shallow, q)
    <2>1. CASE q \in Kept(base)
      <3>1. Len(q) = Len(base) + 1 /\ q \in Entries /\ Under(base, q) /\ q[Len(q)] \notin Dirs
        BY <1>2, <2>1, Zenon
      <3>. QED  BY <1>1, <3>1 DEF Reported
    <2>2. ASSUME NEW p \in Kept(base), q \in Descend(Found, p, shallow)
          PROVE  q \in Entries /\ Reported(base, shallow, q)
      <3>1. /\ p \in Seq(Names) /\ Len(p) = Len(base) + 1 /\ Under(base, p) /\ p[Len(p)] \notin Dirs
        BY <1>2, Zenon
      <3>2. ~shallow /\ q \in Entries /\ Reported(p, p[Len(p)] \in Vcs, q)
        BY <1>2, <2>2, Zenon
      <3>3. q \in Seq(Names) /\ Len(q) \in Nat /\ Under(p, q)
        BY <3>2 DEF DiskTree, Reported
      <3>4. Under(base, q) /\ Len(q) > Len(p) /\ \A i \in 1..Len(p) : p[i] = q[i]
        BY <1>1, <3>1, <3>3, UnderChild
      <3>5. q[Len(base) + 1] = p[Len(p)]
        BY <1>1, <3>1, <3>4
      <3>6. ASSUME NEW i \in (Len(base) + 1)..Len(q)
            PROVE  q[i] \notin Dirs /\ (q[i] \in Vcs => Len(q) <= i + 1)
        <4>1. CASE i = Len(base) + 1
          BY <1>1, <3>1, <3>2, <3>5, <4>1 DEF Reported
        <4>2. CASE i # Len(base) + 1
          BY <1>1, <3>1, <3>2, <3>3, <4>2 DEF Reported
        <4>. QED  BY <4>1, <4>2
      <3>. QED  BY <3>2, <3>4, <3>6, Zenon DEF Reported
    <2>. QED  BY <1>5, <2>1, <2>2, Zenon DEF Level
  <1>. QED  BY <1>3, <1>4, <1>5, Zenon

\* So the sets found solve the equation of walk.
LEMMA FoundWalks == ASSUME DiskTree PROVE Walks(Found)
  <1>1. ASSUME NEW base \in Entries \cup {<<>>}, NEW shallow \in BOOLEAN
        PROVE  Found[base][shallow] = Level(Found, base, shallow)
    BY FoundLevel, Zenon
  <1>2. Found = [base \in Entries \cup {<<>>} |-> [shallow \in BOOLEAN |-> Found[base][shallow]]]
    BY Zenon DEF Found
  <1>. QED  BY <1>1, <1>2, Zenon DEF Walks

\* The value of a solution at a directory.
LEMMA WalksAt ==
    ASSUME NEW w, Walks(w), NEW base \in Entries \cup {<<>>}, NEW shallow \in BOOLEAN
    PROVE  w[base][shallow] = Level(w, base, shallow)
  <1>1. PICK v : v = w
    OBVIOUS
  <1>2. w = [d \in Entries \cup {<<>>} |-> [b \in BOOLEAN |-> Level(v, d, b)]]
    BY <1>1, Zenon DEF Walks
  <1>3. w[base][shallow] = Level(v, base, shallow)
    BY <1>2, Zenon
  <1>. QED  BY <1>1, <1>3, Zenon

\* Nothing else does: two solutions differ last at a directory whose children
\* they agree on.
LEMMA WalkUnique ==
    ASSUME DiskTree, NEW w, Walks(w), NEW base \in Entries \cup {<<>>}, NEW shallow \in BOOLEAN
    PROVE  w[base][shallow] = Found[base][shallow]
  <1>. DEFINE Here == Entries \cup {<<>>}
              Differ(d) == \E b \in BOOLEAN : w[d][b] # Found[d][b]
  <1>1. PICK n \in Nat : \A d \in Here : d \in Seq(Names) /\ Len(d) <= n
    <2>1. PICK n \in Nat : \A p \in Entries : Len(p) <= n
      BY DEF DiskTree
    <2>2. ASSUME NEW d \in Here PROVE d \in Seq(Names) /\ Len(d) <= n
      <3>1. CASE d \in Entries
        BY <2>1, <3>1 DEF DiskTree
      <3>2. CASE d = <<>>
        BY <3>2
      <3>. QED  BY <3>1, <3>2
    <2>. QED  BY <2>2, Zenon
  <1>. DEFINE S == {m \in Nat : \E d \in Here : Differ(d) /\ m + Len(d) = n}
  <1>2. S = {}
    <2>. SUFFICES ASSUME S # {} PROVE FALSE
      OBVIOUS
    <2>1. PICK m \in S : \A k \in S : m <= k
      <3>1. S \in SUBSET Nat
        OBVIOUS
      <3>. HIDE DEF S
      <3>. QED  BY <3>1, LeastNumber
    <2>2. PICK d \in Here : Differ(d) /\ m + Len(d) = n
      BY Zenon
    <2>3. PICK b \in BOOLEAN : w[d][b] # Found[d][b]
      BY <2>2, Zenon
    <2>4. ASSUME NEW p \in Kept(d)
          PROVE  Descend(w, p, b) = Descend(Found, p, b)
      <3>1. p \in Here /\ Len(p) = Len(d) + 1
        BY <1>1, KeptDef
      <3>2. ~Differ(p)
        <4>1. m \in Nat /\ Len(d) \in Nat /\ Len(p) \in Nat /\ Len(p) <= n
          BY <1>1, <3>1
        <4>2. m - 1 \in Nat /\ (m - 1) + Len(p) = n /\ ~(m <= m - 1)
          BY <2>2, <3>1, <4>1, SMTT(20)
        <4>3. Differ(p) => m - 1 \in S
          BY <3>1, <4>2, Zenon
        <4>. HIDE DEF S, Differ
        <4>. QED  BY <2>1, <4>2, <4>3, Zenon
      <3>3. \A c \in BOOLEAN : w[p][c] = Found[p][c]
        BY <3>2, Zenon
      <3>4. (file_name(p) \in Vcs) \in BOOLEAN
        OBVIOUS
      <3>. QED  BY <3>3, <3>4, Zenon DEF Descend
    <2>5. Level(w, d, b) = Level(Found, d, b)
      BY <2>4, Zenon DEF Level
    <2>6. w[d][b] = Level(w, d, b) /\ Found[d][b] = Level(Found, d, b)
      BY FoundWalks, WalksAt, Zenon
    <2>. QED  BY <2>3, <2>5, <2>6, Zenon
  <1>3. ~Differ(base)
    <2>1. n - Len(base) \in Nat /\ (n - Len(base)) + Len(base) = n
      BY <1>1
    <2>2. Differ(base) => n - Len(base) \in S
      BY <2>1, Zenon
    <2>. HIDE DEF S, Differ
    <2>. QED  BY <1>2, <2>2, Zenon
  <1>. QED  BY <1>3, Zenon

\* should_ignore looks at the first VCS directory only; no other says more.
LEMMA IgnoreIsPrune ==
    ASSUME NEW p \in Seq(Names), Len(p) > 0
    PROVE  ~should_ignore(p) <=> Reported(<<>>, FALSE, p)
  <1>1. Len(p) \in Nat /\ DOMAIN p = 1..Len(p) /\ Len(<<>>) = 0 /\ SubSeq(p, 1, 0) = <<>>
    OBVIOUS
  <1>2. Reported(<<>>, FALSE, p)
        <=> \A i \in 1..Len(p) : p[i] \notin Dirs /\ (p[i] \in Vcs => Len(p) <= i + 1)
    BY <1>1 DEF Reported, Under
  <1>3. ASSUME ~should_ignore(p), NEW i \in 1..Len(p), p[i] \in Vcs, ~(Len(p) <= i + 1)
        PROVE  FALSE
    <2>. DEFINE S == {k \in 1..Len(p) : p[k] \in Vcs}
    <2>1. S \in SUBSET Nat /\ S # {}
      BY <1>1, <1>3
    <2>2. PICK k \in S : \A m \in S : k <= m
      <3>. HIDE DEF S
      <3>. QED  BY <2>1, LeastNumber
    <2>3. \A j \in 1..(k - 1) : p[j] \notin Vcs
      BY <1>1, <2>2
    <2>4. k <= i
      BY <1>3, <2>2
    <2>5. k \in DOMAIN p /\ p[k] \in Vcs /\ k + 1 < Len(p)
      BY <1>1, <1>3, <2>4
    <2>. QED  BY <1>3, <2>3, <2>5, Zenon DEF should_ignore
  <1>4. ASSUME ~should_ignore(p), NEW i \in 1..Len(p) PROVE p[i] \notin Dirs
    BY <1>1, <1>4, Zenon DEF should_ignore
  <1>5. ASSUME \A i \in 1..Len(p) : p[i] \notin Dirs /\ (p[i] \in Vcs => Len(p) <= i + 1)
        PROVE  ~should_ignore(p)
    BY <1>1, <1>5 DEF should_ignore
  <1>. QED  BY <1>2, <1>3, <1>4, <1>5, Zenon

\* The first scan finds the paths whose events are not dropped.
Tracked == {p \in Entries : ~should_ignore(p)}

LEMMA ScanIsFilter == ASSUME DiskTree PROVE initial_scan = Tracked
  <1>1. walk[<<>>][FALSE] = Found[<<>>][FALSE]
    BY FoundWalks, WalkUnfolds, WalkUnique, Zenon
  <1>2. Found[<<>>][FALSE] = {p \in Entries : Reported(<<>>, FALSE, p)}
    BY Zenon DEF Found
  <1>3. ASSUME NEW p \in Entries PROVE ~should_ignore(p) <=> Reported(<<>>, FALSE, p)
    BY IgnoreIsPrune, Zenon DEF DiskTree
  <1>. QED  BY <1>1, <1>2, <1>3, Zenon DEF initial_scan, Tracked

\* The inductive invariant.
ScanInv == DiskTree /\ index = Tracked

\* An event brings the index to the paths tracked on the new disk.
LEMMA EventTracks ==
    ASSUME index = Tracked, NEW p, NEW exists \in BOOLEAN, Event(p, exists),
           Entries' = IF exists THEN Entries \cup {p} ELSE Entries \ {p}
    PROVE  index' = Tracked'
  <1>1. Tracked' = {q \in Entries' : ~should_ignore(q)}
    BY DEF Tracked, should_ignore
  <1>2. CASE exists
    BY <1>1, <1>2, Zenon DEF Tracked, Event
  <1>3. CASE ~exists
    BY <1>1, <1>3, Zenon DEF Tracked, Event
  <1>. QED  BY <1>2, <1>3

\* A new entry is put into a directory that is there.
LEMMA CreateStep ==
    ASSUME ScanInv, NEW base \in Entries \cup {<<>>}, NEW entry \in Names, NEW kind,
           Create(base, entry, kind)
    PROVE  ScanInv'
  <1>. DEFINE p == Append(base, entry)
  <1>1. base \in Seq(Names) /\ (base # <<>> => base \in Entries /\ disk[base] = "dir")
    <2>1. CASE base \in Entries
      BY <2>1 DEF ScanInv, DiskTree, Create
    <2>2. CASE base = <<>>
      BY <2>2
    <2>. QED  BY <2>1, <2>2
  <1>2. /\ p \notin Entries
        /\ disk' = [q \in Entries \cup {p} |-> IF q = p THEN kind ELSE disk[q]]
        /\ Event(p, TRUE)
    BY Zenon DEF Create
  <1>3. /\ p \in Seq(Names) /\ Len(p) = Len(base) + 1 /\ Len(base) \in Nat
        /\ \A n \in 1..Len(base) : SubSeq(p, 1, n) = SubSeq(base, 1, n)
        /\ SubSeq(base, 1, Len(base)) = base
    BY <1>1
  <1>. HIDE DEF p
  <1>4. Entries' = Entries \cup {p} /\ \A q \in Entries : disk'[q] = disk[q]
    BY <1>2 DEF Entries
  <1>5. ASSUME NEW q \in Entries'
        PROVE  /\ q \in Seq(Names) /\ Len(q) > 0
               /\ \A n \in 1..(Len(q) - 1) :
                     SubSeq(q, 1, n) \in Entries' /\ disk'[SubSeq(q, 1, n)] = "dir"
    <2>1. CASE q \in Entries
      BY <1>4, <2>1, Zenon DEF ScanInv, DiskTree
    <2>2. CASE q = p
      <3>1. ASSUME NEW n \in 1..(Len(p) - 1)
            PROVE  SubSeq(p, 1, n) \in Entries /\ disk[SubSeq(p, 1, n)] = "dir"
        <4>1. n \in 1..Len(base) /\ base # <<>>
          BY <1>3
        <4>2. SubSeq(p, 1, n) = SubSeq(base, 1, n)
          BY <1>3, <4>1
        <4>3. CASE n = Len(base)
          BY <1>1, <1>3, <4>1, <4>2, <4>3, Zenon
        <4>4. CASE n # Len(base)
          <5>1. n \in 1..(Len(base) - 1)
            <6>1. Len(base) \in Nat
              BY <1>3
            <6>. QED  BY <4>1, <4>4, <6>1
          <5>. QED  BY <1>1, <4>1, <4>2, <5>1, Zenon DEF ScanInv, DiskTree
        <4>. QED  BY <4>3, <4>4
      <3>2. \A n \in 1..(Len(p) - 1) :
               SubSeq(p, 1, n) \in Entries' /\ disk'[SubSeq(p, 1, n)] = "dir"
        BY <1>4, <3>1, Zenon
      <3>3. Len(p) > 0
        BY <1>3
      <3>. QED  BY <1>3, <2>2, <3>2, <3>3, Zenon
    <2>. QED  BY <1>4, <2>1, <2>2, Zenon
  <1>6. \E n \in Nat : \A q \in Entries' : Len(q) <= n
    <2>1. PICK n \in Nat : \A q \in Entries : Len(q) <= n
      BY DEF ScanInv, DiskTree
    <2>2. \A q \in Entries' : Len(q) \in Nat
      BY <1>5
    <2>3. \A q \in Entries' : Len(q) <= n + Len(p)
      BY <1>3, <1>4, <2>1, <2>2
    <2>4. n + Len(p) \in Nat
      BY <1>3
    <2>. QED  BY <2>3, <2>4, Zenon
  <1>7. DiskTree'
    BY <1>5, <1>6, Zenon DEF DiskTree
  <1>8. index' = Tracked'
    BY <1>2, <1>4, EventTracks, Zenon DEF ScanInv
  <1>. QED  BY <1>7, <1>8 DEF ScanInv

\* An entry goes when it has no children, so nothing is left without its parent.
LEMMA DeleteStep ==
    ASSUME ScanInv, NEW p \in Entries, Delete(p)
    PROVE  ScanInv'
  <1>1. /\ Children(p) = {} /\ Event(p, FALSE)
        /\ disk' = [q \in Entries \ {p} |-> disk[q]]
    BY Zenon DEF Delete
  <1>2. Entries' = Entries \ {p} /\ \A q \in Entries' : disk'[q] = disk[q]
    BY <1>1 DEF Entries
  <1>3. p \in Seq(Names) /\ Len(p) \in Nat
    BY DEF ScanInv, DiskTree
  <1>4. ASSUME NEW q \in Entries', NEW n \in 1..(Len(q) - 1)
        PROVE  SubSeq(q, 1, n) # p
    <2>. SUFFICES ASSUME SubSeq(q, 1, n) = p PROVE FALSE
      OBVIOUS
    <2>1. q \in Entries /\ q \in Seq(Names) /\ Len(q) \in Nat
      BY <1>2 DEF ScanInv, DiskTree
    <2>2. Len(p) = n /\ Under(p, q)
      BY <2>1 DEF Under
    <2>3. CASE Len(q) = Len(p) + 1
      BY <1>1, <1>3, <2>1, <2>2, <2>3, ChildDef DEF ScanInv
    <2>4. CASE Len(q) # Len(p) + 1
      <3>1. SubSeq(q, 1, Len(p) + 1) \in Children(p)
        BY <1>3, <2>1, <2>2, <2>4, FirstStep DEF ScanInv
      <3>. QED  BY <1>1, <3>1
    <2>. QED  BY <2>3, <2>4
  <1>5. DiskTree'
    <2>1. \A q \in Entries' :
            /\ q \in Seq(Names) /\ Len(q) > 0
            /\ \A n \in 1..(Len(q) - 1) :
                  SubSeq(q, 1, n) \in Entries' /\ disk'[SubSeq(q, 1, n)] = "dir"
      BY <1>2, <1>4, Zenon DEF ScanInv, DiskTree
    <2>2. \E n \in Nat : \A q \in Entries' : Len(q) <= n
      BY <1>2, Zenon DEF ScanInv, DiskTree
    <2>. QED  BY <2>1, <2>2, Zenon DEF DiskTree
  <1>6. index' = Tracked'
    BY <1>1, <1>2, EventTracks, Zenon DEF ScanInv
  <1>. QED  BY <1>5, <1>6 DEF ScanInv

\* A root that is empty, and any step after it.
LEMMA ScanInductive ==
    /\ ScanInit => ScanInv
    /\ ScanInv /\ [ScanNext]_scanVars => ScanInv'
  <1>1. ASSUME ScanInit PROVE ScanInv
    <2>1. Entries = {}
      BY <1>1 DEF ScanInit, Entries
    <2>. QED  BY <1>1, <2>1 DEF ScanInv, DiskTree, Tracked, ScanInit
  <1>2. ASSUME ScanInv, Rescan PROVE ScanInv'
    <2>1. index' = Tracked /\ disk' = disk
      BY <1>2, ScanIsFilter DEF ScanInv, Rescan
    <2>. QED  BY <1>2, <2>1 DEF ScanInv, DiskTree, Tracked, Entries, should_ignore
  <1>3. ASSUME ScanInv, UNCHANGED scanVars PROVE ScanInv'
    BY <1>3 DEF ScanInv, DiskTree, Tracked, Entries, should_ignore, scanVars
  <1>. QED  BY <1>1, <1>2, <1>3, CreateStep, DeleteStep, Zenon DEF ScanNext

\* Walking the disk and following its events lead to the same index, for every
\* set of names, pruned names and VCS directories and every disk (walk and
\* should_ignore in watcher.rs).
THEOREM EventsAgreeWithWalk == ScanSpec => []EventsMatchWalk
  <1>1. ScanInv => EventsMatchWalk
    BY ScanIsFilter DEF ScanInv, EventsMatchWalk
  <1>. QED  BY <1>1, ScanInductive, PTL DEF ScanSpec

-----------------------------------------------------------------------------
(* Lifecycle: connect_or_spawn, and serve with its handlers. *)

\* Only a listener has clients, and no daemon before its bind has the path.
SocketInv ==
    /\ \A c \in Clis : srv[c] # NoDaemon => Listening(srv[c])
    /\ \A d \in Daemons : dpc[d] \in {"start", "unlinked"} => sock_path # d

\* What a call that was not disturbed may count on: the path it saw is still
\* there, and a path that came while it was spawning is a live daemon's.
CallInv ==
    \A c \in Clis :
        /\ cpc[c] \in {"connect", "reconnect"} /\ sock_path = NoDaemon => excuse[c]
        /\ cpc[c] \in {"absent", "poll", "reconnect"} /\ sock_path # NoDaemon /\ ~Running(sock_path)
              => excuse[c]

LifeInv == LifeTypeOK /\ SocketInv /\ CallInv /\ FailureExplained

\* The two halves of LifeTypeOK: the values of the variables, and the links
\* between a client, its handler and their daemon.
LifeValues ==
    /\ sock_path \in Daemons \cup {NoDaemon}
    /\ dpc \in [Daemons -> {"dead", "start", "unlinked", "bound", "loop", "select",
                            "woken", "accepted", "closing", "exiting"}]
    /\ flag \in [Daemons -> BOOLEAN]
    /\ cpc \in [Clis -> {"idle", "failed", "connect", "orphan", "absent", "poll",
                         "reconnect", "waiting"}]
    /\ opt \in [Clis -> Options]
    /\ srv \in [Clis -> Daemons \cup {NoDaemon}]
    /\ hpc \in [Clis -> {"none", "backlog", "read", "notify", "send", "queued"}]
    /\ excuse \in [Clis -> BOOLEAN]
LifeLinks ==
    \A c \in Clis :
        /\ (cpc[c] = "waiting") <=> (srv[c] # NoDaemon)
        /\ (hpc[c] = "none") <=> (srv[c] = NoDaemon)
        /\ srv[c] # NoDaemon => Running(srv[c])

\* Together they are LifeTypeOK.
LEMMA TypeHalves == LifeTypeOK <=> LifeValues /\ LifeLinks
  BY Zenon DEF LifeTypeOK, LifeValues, LifeLinks

\* The same after a step.
LEMMA TypeHalvesNext == LifeTypeOK' <=> LifeValues' /\ LifeLinks'
  BY Zenon DEF LifeTypeOK, LifeValues, LifeLinks

\* A new call has nothing to explain, and is connecting only if it saw a socket.
LEMMA CallStep ==
    ASSUME LifeInv, NEW c \in Clis, Call(c)
    PROVE  LifeInv'
  <1>. USE LifecycleAssumption DEF LifeInv, Call, With, Options, Running, Listening
  <1>1. LifeTypeOK'
    <2>1. LifeValues'
      BY TypeHalves, Z3T(20) DEF LifeValues
    <2>2. LifeLinks'
      BY TypeHalves, Z3T(20) DEF LifeValues, LifeLinks, SocketInv
    <2>. QED  BY <2>1, <2>2, TypeHalvesNext, Zenon
  <1>2. SocketInv'
    BY Zenon DEF LifeTypeOK, SocketInv
  <1>3. CallInv'
    BY Z3T(20) DEF LifeTypeOK, CallInv
  <1>4. FailureExplained'
    BY Zenon DEF LifeTypeOK, FailureExplained
  <1>. QED  BY <1>1, <1>2, <1>3, <1>4, Zenon

\* The first connect: a socket that has gone was unlinked under the call.
LEMMA ConnectStep ==
    ASSUME LifeInv, NEW c \in Clis, Connect(c)
    PROVE  LifeInv'
  <1>. USE LifecycleAssumption DEF LifeInv, Connect, With, Connected, Refused, Fail, connv,
         daemonv, Running, Listening
  <1>1. LifeTypeOK'
    <2>1. LifeValues'
      BY TypeHalves, Z3T(20) DEF LifeValues
    <2>2. LifeLinks'
      BY TypeHalves, Z3T(20) DEF LifeValues, LifeLinks, SocketInv
    <2>. QED  BY <2>1, <2>2, TypeHalvesNext, Zenon
  <1>2. SocketInv'
    BY Z3T(20) DEF LifeTypeOK, SocketInv
  <1>3. CallInv'
    BY Zenon DEF LifeTypeOK, CallInv
  <1>4. FailureExplained'
    BY Zenon DEF LifeTypeOK, CallInv, FailureExplained
  <1>. QED  BY <1>1, <1>2, <1>3, <1>4, Zenon

\* An orphan is removed: the calls it disturbs are excused.
LEMMA RemoveOrphanStep ==
    ASSUME LifeInv, NEW c \in Clis, RemoveOrphan(c)
    PROVE  LifeInv'
  <1>. USE LifecycleAssumption DEF LifeInv, RemoveOrphan, With, Excused, Active, connv, daemonv,
         Running, Listening
  <1>1. LifeTypeOK'
    BY Zenon DEF LifeTypeOK, SocketInv
  <1>2. SocketInv'
    BY Zenon DEF LifeTypeOK, SocketInv
  <1>3. CallInv'
    BY Zenon DEF LifeTypeOK, CallInv
  <1>4. FailureExplained'
    BY Zenon DEF LifeTypeOK, FailureExplained
  <1>. QED  BY <1>1, <1>2, <1>3, <1>4, Zenon

\* A new process does not have the path.
LEMMA SpawnDaemonStep ==
    ASSUME LifeInv, NEW c \in Clis, SpawnDaemon(c)
    PROVE  LifeInv'
  <1>. USE LifecycleAssumption DEF LifeInv, SpawnDaemon, With, connv, Running, Listening
  <1>1. LifeTypeOK'
    <2>1. LifeValues'
      BY TypeHalves, Z3T(20) DEF LifeValues
    <2>2. LifeLinks'
      BY TypeHalves, Z3T(20) DEF LifeValues, LifeLinks, SocketInv
    <2>. QED  BY <2>1, <2>2, TypeHalvesNext, Zenon
  <1>2. SocketInv'
    BY Z3T(20) DEF LifeTypeOK, SocketInv
  <1>3. CallInv'
    BY Zenon DEF LifeTypeOK, CallInv
  <1>4. FailureExplained'
    BY Zenon DEF LifeTypeOK, FailureExplained
  <1>. QED  BY <1>1, <1>2, <1>3, <1>4, Zenon

\* A call that may not or cannot spawn is excused.
LEMMA NotSpawnedStep ==
    ASSUME LifeInv, NEW c \in Clis, NotSpawned(c)
    PROVE  LifeInv'
  <1>. USE LifecycleAssumption DEF LifeInv, NotSpawned, With, Fail, connv, daemonv, Running, Listening
  <1>1. LifeTypeOK'
    BY Zenon DEF LifeTypeOK, SocketInv
  <1>2. SocketInv'
    BY Zenon DEF LifeTypeOK, SocketInv
  <1>3. CallInv'
    BY Zenon DEF LifeTypeOK, CallInv
  <1>4. FailureExplained'
    BY Zenon DEF LifeTypeOK, FailureExplained
  <1>. QED  BY <1>1, <1>2, <1>3, <1>4, Zenon

\* The poll saw a socket, of a live daemon unless one has ended since.
LEMMA PollStep ==
    ASSUME LifeInv, NEW c \in Clis, Poll(c)
    PROVE  LifeInv'
  <1>. USE LifecycleAssumption DEF LifeInv, Poll, With, connv, daemonv, Running, Listening
  <1>1. LifeTypeOK'
    BY Zenon DEF LifeTypeOK, SocketInv
  <1>2. SocketInv'
    BY Zenon DEF LifeTypeOK, SocketInv
  <1>3. CallInv'
    BY Zenon DEF LifeTypeOK, CallInv
  <1>4. FailureExplained'
    BY Zenon DEF LifeTypeOK, FailureExplained
  <1>. QED  BY <1>1, <1>2, <1>3, <1>4, Zenon

\* So is one whose daemon was late.
LEMMA PollDeadlineStep ==
    ASSUME LifeInv, NEW c \in Clis, PollDeadline(c)
    PROVE  LifeInv'
  <1>. USE LifecycleAssumption DEF LifeInv, PollDeadline, With, Fail, connv, daemonv, Running, Listening
  <1>1. LifeTypeOK'
    BY Zenon DEF LifeTypeOK, SocketInv
  <1>2. SocketInv'
    BY Zenon DEF LifeTypeOK, SocketInv
  <1>3. CallInv'
    BY Zenon DEF LifeTypeOK, CallInv
  <1>4. FailureExplained'
    BY Zenon DEF LifeTypeOK, FailureExplained
  <1>. QED  BY <1>1, <1>2, <1>3, <1>4, Zenon

\* The connect after a spawn: an undisturbed call meets a live daemon, and is
\* excused if that has not called listen yet.
LEMMA ReconnectStep ==
    ASSUME LifeInv, NEW c \in Clis, Reconnect(c)
    PROVE  LifeInv'
  <1>. USE LifecycleAssumption DEF LifeInv, With, Running, Listening
  <1>1. CASE Connected(c) /\ UNCHANGED excuse
    <2>. USE <1>1 DEF Reconnect, Connected, daemonv
    <2>1. LifeTypeOK'
      <3>1. LifeValues'
        BY TypeHalves, Z3T(20) DEF LifeValues
      <3>2. LifeLinks'
        BY TypeHalves, Z3T(20) DEF LifeValues, LifeLinks, SocketInv
      <3>. QED  BY <3>1, <3>2, TypeHalvesNext, Zenon
    <2>2. SocketInv'
      BY Z3T(20) DEF LifeTypeOK, SocketInv
    <2>3. CallInv' /\ FailureExplained'
      BY Zenon DEF LifeTypeOK, CallInv, FailureExplained
    <2>. QED  BY <2>1, <2>2, <2>3, Zenon
  <1>2. CASE /\ sock_path = NoDaemon \/ Refused
             /\ Fail(c)
             /\ excuse' = With(excuse, c, excuse[c] \/ (Refused /\ Running(sock_path)))
             /\ UNCHANGED connv
    <2>1. cpc[c] = "reconnect" /\ UNCHANGED <<sock_path, dpc, flag, opt, srv, hpc>>
      BY <1>2, Zenon DEF Reconnect, connv, daemonv
    <2>2. excuse[c] \/ (Refused /\ Running(sock_path))
      BY <1>2, <2>1, Zenon DEF CallInv, Refused
    <2>3. /\ cpc' = [cpc EXCEPT ![c] = "failed"]
          /\ excuse' = [excuse EXCEPT ![c] = TRUE]
      BY <1>2, <2>2, Zenon DEF LifeTypeOK, Fail
    <2>4. LifeTypeOK' /\ SocketInv'
      BY <2>1, <2>3, Zenon DEF LifeTypeOK, SocketInv
    <2>5. \A e \in Clis : /\ cpc'[e] = IF e = c THEN "failed" ELSE cpc[e]
                          /\ excuse'[e] = IF e = c THEN TRUE ELSE excuse[e]
      BY <2>3, Zenon DEF LifeTypeOK
    <2>6. CallInv'
      BY <2>1, <2>5, Zenon DEF CallInv
    <2>7. FailureExplained'
      BY <2>1, <2>5, Zenon DEF FailureExplained
    <2>. QED  BY <2>4, <2>6, <2>7, Zenon
  <1>. QED  BY <1>1, <1>2, Zenon DEF Reconnect

-----------------------------------------------------------------------------
\* The handler changes flags and its own place only.
LEMMA DispatchStep ==
    ASSUME LifeInv, NEW c \in Clis, dispatch(c)
    PROVE  LifeInv'
  <1>0. /\ UNCHANGED <<sock_path, dpc, cpc, opt, srv, excuse>> /\ flag' \in [Daemons -> BOOLEAN]
        /\ hpc[c] = "read"
        /\ \E h \in {"send", "notify"} : hpc' = [hpc EXCEPT ![c] = h]
    BY Zenon DEF LifeInv, LifeTypeOK, dispatch, With, callv
  <1>1. LifeTypeOK'
    BY <1>0, Z3T(20) DEF LifeInv, LifeTypeOK, Running
  <1>2. SocketInv' /\ CallInv' /\ FailureExplained'
    BY <1>0, Zenon DEF LifeInv, SocketInv, CallInv, FailureExplained, Running, Listening
  <1>. QED  BY <1>1, <1>2, Zenon DEF LifeInv

\* Waking serve does not stop it listening.
LEMMA NotifyStep ==
    ASSUME LifeInv, NEW c \in Clis, Notify(c)
    PROVE  LifeInv'
  <1>. USE LifecycleAssumption DEF LifeInv, Notify, With, callv, Running, Listening
  <1>1. LifeTypeOK'
    <2>1. LifeValues /\ LifeLinks
      BY TypeHalves, Zenon
    <2>2. /\ UNCHANGED <<sock_path, flag, cpc, opt, srv, excuse>>
          /\ hpc[c] = "notify" /\ hpc' = [hpc EXCEPT ![c] = "send"]
          /\ dpc' = dpc \/ dpc' = [dpc EXCEPT ![srv[c]] = "woken"]
      BY Zenon
    <2>3. \A d \in Daemons : dpc[d] # "dead" => dpc'[d] # "dead"
      BY <2>1, <2>2, Zenon DEF LifeValues
    <2>4. \A e \in Clis : (hpc'[e] = "none") <=> (hpc[e] = "none")
      BY <2>1, <2>2, Zenon DEF LifeValues
    <2>5. \A e \in Clis : srv[e] \in Daemons \cup {NoDaemon}
      BY <2>1, Zenon DEF LifeValues
    <2>6. LifeLinks'
      BY ONLY <2>1, <2>2, <2>3, <2>4, <2>5, Zenon DEF LifeLinks, Running
    <2>7. LifeValues'
      <3>1. dpc' \in [Daemons -> {"dead", "start", "unlinked", "bound", "loop", "select",
                                 "woken", "accepted", "closing", "exiting"}]
        BY ONLY <2>1, <2>2 DEF LifeValues
      <3>2. hpc' \in [Clis -> {"none", "backlog", "read", "notify", "send", "queued"}]
        BY ONLY <2>1, <2>2 DEF LifeValues
      <3>. QED  BY ONLY <2>1, <2>2, <3>1, <3>2, Zenon DEF LifeValues
    <2>. QED  BY <2>6, <2>7, TypeHalvesNext, Zenon
  <1>2. SocketInv'
    BY Z3T(20) DEF LifeTypeOK, SocketInv
  <1>3. CallInv'
    BY Zenon DEF LifeTypeOK, CallInv
  <1>4. FailureExplained'
    BY Zenon DEF LifeTypeOK, FailureExplained
  <1>. QED  BY <1>1, <1>2, <1>3, <1>4, Zenon

\* Likewise.
LEMMA RespondStep ==
    ASSUME LifeInv, NEW c \in Clis, Respond(c)
    PROVE  LifeInv'
  <1>. USE LifecycleAssumption DEF LifeInv, Respond, With, callv, daemonv, Running, Listening
  <1>1. LifeTypeOK'
    BY Zenon DEF LifeTypeOK, SocketInv
  <1>2. SocketInv'
    BY Zenon DEF LifeTypeOK, SocketInv
  <1>3. CallInv'
    BY Zenon DEF LifeTypeOK, CallInv
  <1>4. FailureExplained'
    BY Zenon DEF LifeTypeOK, FailureExplained
  <1>. QED  BY <1>1, <1>2, <1>3, <1>4, Zenon

\* An answered client is connected no longer.
LEMMA AnswerStep ==
    ASSUME LifeInv, NEW c \in Clis, Write(c)
    PROVE  LifeInv'
  <1>. USE LifecycleAssumption DEF LifeInv, Write, With, daemonv, Running, Listening
  <1>1. LifeTypeOK'
    BY Zenon DEF LifeTypeOK, SocketInv
  <1>2. SocketInv'
    BY Zenon DEF LifeTypeOK, SocketInv
  <1>3. CallInv'
    BY Zenon DEF LifeTypeOK, CallInv
  <1>4. FailureExplained'
    BY Zenon DEF LifeTypeOK, FailureExplained
  <1>. QED  BY <1>1, <1>2, <1>3, <1>4, Zenon

\* Unlinking a socket excuses the calls under way.
LEMMA UnlinkStep ==
    ASSUME LifeInv, NEW d \in Daemons, Unlink(d)
    PROVE  LifeInv'
  <1>. USE LifecycleAssumption DEF LifeInv, Unlink, With, Goto, Excused, Active, callv, connv,
         Running, Listening
  <1>1. LifeTypeOK'
    <2>1. LifeValues'
      BY TypeHalves, Z3T(20) DEF LifeValues
    <2>2. LifeLinks'
      BY TypeHalves, Z3T(20) DEF LifeValues, LifeLinks, SocketInv
    <2>. QED  BY <2>1, <2>2, TypeHalvesNext, Zenon
  <1>2. SocketInv'
    BY Z3T(20) DEF LifeTypeOK, SocketInv
  <1>3. CallInv'
    BY Zenon DEF LifeTypeOK, CallInv
  <1>4. FailureExplained'
    BY Zenon DEF LifeTypeOK, FailureExplained
  <1>. QED  BY <1>1, <1>2, <1>3, <1>4, Zenon

\* A socket that is bound is a live daemon's; a daemon that cannot bind has no
\* client and not the path.
LEMMA BindStep ==
    ASSUME LifeInv, NEW d \in Daemons, Bind(d)
    PROVE  LifeInv'
  <1>. USE LifecycleAssumption DEF LifeInv, Bind, With, Goto, callv, connv, Running, Listening
  <1>1. LifeTypeOK'
    <2>1. LifeValues'
      BY TypeHalves, Z3T(20) DEF LifeValues
    <2>2. LifeLinks'
      BY TypeHalves, Z3T(20) DEF LifeValues, LifeLinks, SocketInv
    <2>. QED  BY <2>1, <2>2, TypeHalvesNext, Zenon
  <1>2. SocketInv'
    BY Z3T(20) DEF LifeTypeOK, SocketInv
  <1>3. CallInv'
    BY Z3T(20) DEF LifeTypeOK, SocketInv, CallInv
  <1>4. FailureExplained'
    BY Zenon DEF LifeTypeOK, FailureExplained
  <1>. QED  BY <1>1, <1>2, <1>3, <1>4, Zenon

\* From here to the end of its loop serve listens.
LEMMA ListenStep ==
    ASSUME LifeInv, NEW d \in Daemons, Listen(d)
    PROVE  LifeInv'
  <1>. USE LifecycleAssumption DEF LifeInv, Listen, With, Goto, callv, connv, Running, Listening
  <1>1. LifeTypeOK'
    <2>1. LifeValues'
      BY TypeHalves, Z3T(20) DEF LifeValues
    <2>2. LifeLinks'
      BY TypeHalves, Z3T(20) DEF LifeValues, LifeLinks, SocketInv
    <2>. QED  BY <2>1, <2>2, TypeHalvesNext, Zenon
  <1>2. SocketInv'
    BY Z3T(20) DEF LifeTypeOK, SocketInv
  <1>3. CallInv'
    BY Zenon DEF LifeTypeOK, CallInv
  <1>4. FailureExplained'
    BY Zenon DEF LifeTypeOK, FailureExplained
  <1>. QED  BY <1>1, <1>2, <1>3, <1>4, Zenon

\* Likewise.
LEMMA SelectStep ==
    ASSUME LifeInv, NEW d \in Daemons, Select(d)
    PROVE  LifeInv'
  <1>. USE LifecycleAssumption DEF LifeInv, Select, With, Goto, callv, connv, Running, Listening
  <1>1. LifeTypeOK'
    <2>1. LifeValues'
      BY TypeHalves, Z3T(20) DEF LifeValues
    <2>2. LifeLinks'
      BY TypeHalves, Z3T(20) DEF LifeValues, LifeLinks, SocketInv
    <2>. QED  BY <2>1, <2>2, TypeHalvesNext, Zenon
  <1>2. SocketInv'
    BY Z3T(20) DEF LifeTypeOK, SocketInv
  <1>3. CallInv'
    BY Zenon DEF LifeTypeOK, CallInv
  <1>4. FailureExplained'
    BY Zenon DEF LifeTypeOK, FailureExplained
  <1>. QED  BY <1>1, <1>2, <1>3, <1>4, Zenon

\* Likewise.
LEMMA BreakStep ==
    ASSUME LifeInv, NEW d \in Daemons, Break(d)
    PROVE  LifeInv'
  <1>. USE LifecycleAssumption DEF LifeInv, Break, With, Goto, callv, connv, Running, Listening
  <1>1. LifeTypeOK'
    <2>1. LifeValues'
      BY TypeHalves, Z3T(20) DEF LifeValues
    <2>2. LifeLinks'
      BY TypeHalves, Z3T(20) DEF LifeValues, LifeLinks, SocketInv
    <2>. QED  BY <2>1, <2>2, TypeHalvesNext, Zenon
  <1>2. SocketInv'
    BY Z3T(20) DEF LifeTypeOK, SocketInv
  <1>3. CallInv'
    BY Zenon DEF LifeTypeOK, CallInv
  <1>4. FailureExplained'
    BY Zenon DEF LifeTypeOK, FailureExplained
  <1>. QED  BY <1>1, <1>2, <1>3, <1>4, Zenon

\* Likewise.
LEMMA CheckStep ==
    ASSUME LifeInv, NEW d \in Daemons, Check(d)
    PROVE  LifeInv'
  <1>. USE LifecycleAssumption DEF LifeInv, Check, With, Goto, callv, connv, Running, Listening
  <1>1. LifeTypeOK'
    <2>1. LifeValues'
      BY TypeHalves, Z3T(20) DEF LifeValues
    <2>2. LifeLinks'
      BY TypeHalves, Z3T(20) DEF LifeValues, LifeLinks, SocketInv
    <2>. QED  BY <2>1, <2>2, TypeHalvesNext, Zenon
  <1>2. SocketInv'
    BY Z3T(20) DEF LifeTypeOK, SocketInv
  <1>3. CallInv'
    BY Zenon DEF LifeTypeOK, CallInv
  <1>4. FailureExplained'
    BY Zenon DEF LifeTypeOK, FailureExplained
  <1>. QED  BY <1>1, <1>2, <1>3, <1>4, Zenon

\* Likewise.
LEMMA AcceptStep ==
    ASSUME LifeInv, NEW d \in Daemons, NEW c \in Clis, Accept(d, c)
    PROVE  LifeInv'
  <1>. USE LifecycleAssumption DEF LifeInv, Accept, With, Goto, callv, Running, Listening
  <1>1. LifeTypeOK'
    <2>1. LifeValues'
      BY TypeHalves, Z3T(20) DEF LifeValues
    <2>2. LifeLinks'
      BY TypeHalves, Z3T(20) DEF LifeValues, LifeLinks, SocketInv
    <2>. QED  BY <2>1, <2>2, TypeHalvesNext, Zenon
  <1>2. SocketInv'
    BY Z3T(20) DEF LifeTypeOK, SocketInv
  <1>3. CallInv'
    BY Zenon DEF LifeTypeOK, CallInv
  <1>4. FailureExplained'
    BY Zenon DEF LifeTypeOK, FailureExplained
  <1>. QED  BY <1>1, <1>2, <1>3, <1>4, Zenon

\* The end of a daemon hangs up on its clients and excuses the calls under way.
LEMMA DieStep ==
    ASSUME LifeInv, NEW d \in Daemons, Die(d)
    PROVE  LifeInv'
  <1>. USE LifecycleAssumption DEF LifeInv, Die, With, Excused, Active, Running, Listening
  <1>1. LifeTypeOK'
    <2>1. LifeValues'
      BY TypeHalves, Z3T(20) DEF LifeValues
    <2>2. LifeLinks'
      BY TypeHalves, Z3T(20) DEF LifeValues, LifeLinks, SocketInv
    <2>. QED  BY <2>1, <2>2, TypeHalvesNext, Zenon
  <1>2. SocketInv'
    BY Z3T(20) DEF LifeTypeOK, SocketInv
  <1>3. CallInv'
    BY Zenon DEF LifeTypeOK, CallInv
  <1>4. FailureExplained'
    BY Zenon DEF LifeTypeOK, FailureExplained
  <1>. QED  BY <1>1, <1>2, <1>3, <1>4, Zenon

-----------------------------------------------------------------------------
\* It holds when nothing runs yet.
LEMMA LifeInitOK == LifeInit => LifeInv
  <1>. SUFFICES ASSUME LifeInit PROVE LifeInv
    OBVIOUS
  <1>1. LifeTypeOK
    <2>. DEFINE o == [shutdown |-> FALSE, no_spawn |-> FALSE]
    <2>1. o \in Options /\ opt \in [Clis -> {o}]
      BY Zenon DEF Options, LifeInit
    <2>. HIDE DEF o
    <2>2. opt \in [Clis -> Options]
      BY <2>1, Zenon
    <2>. QED  BY <2>2, Zenon DEF LifeInit, LifeTypeOK
  <1>2. SocketInv /\ CallInv /\ FailureExplained
    BY LifecycleAssumption, Zenon DEF LifeInit, SocketInv, CallInv, FailureExplained
  <1>. QED  BY <1>1, <1>2, Zenon DEF LifeInv

\* Every step keeps it.
LEMMA LifeNextOK == LifeInv /\ [LifeNext]_lifeVars => LifeInv'
  <1>. SUFFICES ASSUME LifeInv, [LifeNext]_lifeVars PROVE LifeInv'
    OBVIOUS
  <1>1. ASSUME NEW c \in Clis, Call(c) \/ CliStep(c) PROVE LifeInv'
    BY <1>1, CallStep, ConnectStep, RemoveOrphanStep, SpawnDaemonStep, NotSpawnedStep,
       PollStep, PollDeadlineStep, ReconnectStep, Zenon DEF CliStep
  <1>2. ASSUME NEW c \in Clis, HandlerStep(c) PROVE LifeInv'
    BY <1>2, DispatchStep, NotifyStep, RespondStep, AnswerStep, Zenon DEF HandlerStep
  <1>3. ASSUME NEW d \in Daemons, ServeStep(d) \/ Crash(d) PROVE LifeInv'
    BY <1>3, UnlinkStep, BindStep, ListenStep, SelectStep, BreakStep, CheckStep, AcceptStep,
       DieStep, Zenon DEF ServeStep, Exit, Crash
  <1>4. CASE UNCHANGED lifeVars
    BY <1>4, Zenon DEF lifeVars, LifeInv, LifeTypeOK, SocketInv, CallInv, FailureExplained, Running, Listening
  <1>. QED  BY <1>1, <1>2, <1>3, <1>4, Zenon DEF LifeNext

\* The invariant, for any number of clients and daemons.
LEMMA LifeInvariant == LifeSpec => []LifeInv
  BY LifeInitOK, LifeNextOK, PTL DEF LifeSpec

\* A handler exists exactly for a client that waits on a daemon, and that
\* daemon is alive: no daemon ends (Exit, Crash or a failed bind in serve)
\* without its clients seeing their connections close.
THEOREM ClientsWaitOnLiveDaemons == LifeSpec => []LifeTypeOK
  <1>1. LifeInv => LifeTypeOK
    BY Zenon DEF LifeInv
  <1>. QED  BY <1>1, LifeInvariant, PTL

\* A call of connect_or_spawn fails only if, while it ran, a socket was
\* unlinked, a daemon ended, none could be started in time, or the new one had
\* bound and not yet listened; never because of the socket an earlier daemon
\* left behind.
THEOREM FailuresExplained == LifeSpec => []FailureExplained
  <1>1. LifeInv => FailureExplained
    BY Zenon DEF LifeInv
  <1>. QED  BY <1>1, LifeInvariant, PTL
=============================================================================
