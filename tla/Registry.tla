------------------------------ MODULE Registry ------------------------------
(***************************************************************************)
(* The roots of a daemon and their garbage collection (daemon/state.rs,    *)
(* daemon/gc.rs, commands/watch.rs and what commands do to a root they     *)
(* look up).  register_root checks the map, builds a Root and only then    *)
(* inserts it; a command works on the Arc<Root> it looked up; a sweep      *)
(* looks a root up, stats its directory, checks it for clients and removes *)
(* whatever is then at its path.  Sweeps come from the GC task and from    *)
(* debug-gc-tick.                                                          *)
(*                                                                         *)
(* Roots are numbered as root_counter does.  A thread that subscribes has  *)
(* a push task afterwards (`listening`); all of a root's tasks hold it     *)
(* weakly.  idle stands for idle_seconds() >= stale_idle_secs().           *)
(***************************************************************************)
EXTENDS Naturals, FiniteSets, Sequences

CONSTANTS Paths,       \* directories to watch
          Procs,       \* command threads, each serving a client of its own
          Users,       \* those that use the roots; the others watch and watch-del only
          Name,        \* the subscription name each client uses
          Sweepers,    \* concurrent sweeps
          REAP_LOG_CAPACITY,
          MaxRoots     \* bound on the roots ever created

ASSUME RegistryAssumption == MaxRoots \in Nat /\ REAP_LOG_CAPACITY \in Nat \ {0}

DEAD_TICK_THRESHOLD == 2
NoRoot == 0
Roots == 1..MaxRoots

VARIABLES
    dir,        \* the directory exists
    roots,      \* DaemonState::roots, NoRoot where there is none
    counter,    \* root_counter
    path,       \* Root::path
    names,      \* Root::subscriptions
    trigger,    \* Root::triggers is not empty
    idle,       \* nothing touched the root for the stale threshold
    missing,    \* Root::missing_ticks
    reap_log,
    pc, arg, hold,        \* a command thread, its path, the Arc<Root> it has
    listening,            \* per root: clients with a push task on it
    gpc, todo, at, held,  \* a sweep, paths left, its path, the Arc<Root> it has
    \* history, for the properties only
    steady,     \* per sweep: the clients its root has had since it was looked up
    subscribed  \* per root: clients that subscribed and have not gone back on it

rootv == <<names, trigger, idle, missing, listening, subscribed>>
procv == <<pc, arg, hold>>
sweepv == <<gpc, todo, at, held, steady>>
vars == <<dir, roots, counter, path, names, trigger, idle, missing, reap_log, pc, arg,
          hold, listening, gpc, todo, at, held, steady, subscribed>>

Set(f, x, v) == [f EXCEPT ![x] = v]

\* Mutant: a push task keeps its root, as it did before it held a Weak.
StrongRefs_Listening(i) ==
    {p \in Paths : roots[p] = i} \cup {t \in Procs : hold[t] = i \/ t \in listening[i]}
        \cup {g \in Sweepers : held[g] = i}

\* The strong references to a root: the map's, a command's, a sweep's.
StrongRefs(i) ==
    {p \in Paths : roots[p] = i} \cup {t \in Procs : hold[t] = i}
        \cup {g \in Sweepers : held[g] = i}
Alive(i) == StrongRefs(i) # {}

-----------------------------------------------------------------------------
Init ==
    /\ dir = [p \in Paths |-> TRUE]
    /\ roots = [p \in Paths |-> NoRoot]
    /\ counter = 0
    /\ path \in [Roots -> Paths] /\ \A i, j \in Roots : path[i] = path[j]
    /\ names = [i \in Roots |-> {}]
    /\ trigger = [i \in Roots |-> FALSE]
    /\ idle = [i \in Roots |-> FALSE]
    /\ missing = [i \in Roots |-> 0]
    /\ reap_log = <<>>
    /\ pc = [t \in Procs |-> "idle"]
    /\ arg \in [Procs -> Paths] /\ \A t, u \in Procs : arg[t] = arg[u]
    /\ hold = [t \in Procs |-> NoRoot]
    /\ listening = [i \in Roots |-> {}]
    /\ gpc = [g \in Sweepers |-> "idle"]
    /\ todo = [g \in Sweepers |-> {}]
    /\ at \in [Sweepers -> Paths] /\ \A g, h \in Sweepers : at[g] = at[h]
    /\ held = [g \in Sweepers |-> NoRoot]
    /\ steady = [g \in Sweepers |-> {}]
    /\ subscribed = [i \in Roots |-> {}]

(* The world: directories come and go, time passes. *)
Fs(p) ==
    /\ dir' = Set(dir, p, ~dir[p])
    /\ UNCHANGED <<roots, counter, path, rootv, reap_log, procv, sweepv>>

Age(i) ==
    /\ i <= counter /\ ~idle[i]
    /\ idle' = Set(idle, i, TRUE)
    /\ UNCHANGED <<dir, roots, counter, path, names, trigger, missing, listening, subscribed,
                   reap_log, procv, sweepv>>

-----------------------------------------------------------------------------
(* watch and watch-project: register_root. *)

\* The existing root is touched and returned; a path that is not a directory
\* is an error.
WatchAgain(t, p) ==
    /\ pc[t] = "idle"
    /\ roots[p] # NoRoot
    /\ idle' = Set(idle, roots[p], FALSE)
    /\ UNCHANGED <<dir, roots, counter, path, names, trigger, missing, listening, subscribed,
                   reap_log, procv, sweepv>>

\* Otherwise a new Root is built, seeded, and its persisted triggers loaded.
WatchNew(t, p, triggers) ==
    /\ pc[t] = "idle"
    /\ roots[p] = NoRoot
    /\ dir[p]
    /\ counter < MaxRoots
    /\ counter' = counter + 1
    /\ path' = Set(path, counter + 1, p)
    /\ trigger' = Set(trigger, counter + 1, triggers)
    /\ hold' = Set(hold, t, counter + 1)
    /\ arg' = Set(arg, t, p)
    /\ pc' = Set(pc, t, "insert")
    /\ UNCHANGED <<dir, roots, names, idle, missing, listening, subscribed, reap_log, sweepv>>

Release(t) ==
    /\ hold' = Set(hold, t, NoRoot)
    /\ pc' = Set(pc, t, "idle")
    /\ UNCHANGED arg

\* watcher::spawn has succeeded.
Insert(t) ==
    /\ pc[t] = "insert"
    /\ roots' = Set(roots, arg[t], hold[t])
    /\ Release(t)
    /\ UNCHANGED <<dir, counter, path, rootv, reap_log, sweepv>>

\* watcher::spawn has failed: the new Root is dropped.
SpawnFails(t) ==
    /\ pc[t] = "insert"
    /\ Release(t)
    /\ UNCHANGED <<dir, roots, counter, path, rootv, reap_log, sweepv>>

\* watch-del, and each step of watch-del-all.
unregister_root(p) == roots' = Set(roots, p, NoRoot)

WatchDel(t, p) ==
    /\ pc[t] = "idle"
    /\ roots[p] # NoRoot
    /\ unregister_root(p)
    /\ UNCHANGED <<dir, counter, path, rootv, reap_log, procv, sweepv>>

-----------------------------------------------------------------------------
(* Every other command: DaemonState::root touches what it finds. *)
Lookup(t, p) ==
    /\ t \in Users /\ pc[t] = "idle"
    /\ roots[p] # NoRoot
    /\ hold' = Set(hold, t, roots[p])
    /\ arg' = Set(arg, t, p)
    /\ pc' = Set(pc, t, "command")
    /\ idle' = Set(idle, roots[p], FALSE)
    /\ UNCHANGED <<dir, roots, counter, path, names, trigger, missing, listening, subscribed,
                   reap_log, sweepv>>

\* A client leaves the registry of root i: no sweep counts on it any more.
Unsteady(i, who) ==
    steady' = [g \in Sweepers |-> IF held[g] = i THEN steady[g] \ who ELSE steady[g]]

Subscribe(t) ==
    /\ pc[t] = "command"
    /\ names' = Set(names, hold[t], names[hold[t]] \cup {Name[t]})
    /\ listening' = Set(listening, hold[t], listening[hold[t]] \cup {t})
    /\ subscribed' = Set(subscribed, hold[t], subscribed[hold[t]] \cup {t})
    /\ Release(t)
    /\ UNCHANGED <<dir, roots, counter, path, trigger, idle, missing, reap_log, gpc, todo,
                   at, held, steady>>

Unsubscribe(t) ==
    /\ pc[t] = "command"
    /\ names' = Set(names, hold[t], names[hold[t]] \ {Name[t]})
    /\ subscribed' = Set(subscribed, hold[t], subscribed[hold[t]] \ {t})
    /\ Unsteady(hold[t], {Name[t]})
    /\ Release(t)
    /\ UNCHANGED <<dir, roots, counter, path, trigger, idle, missing, listening, reap_log,
                   gpc, todo, at, held>>

\* trigger and trigger-del, the latter of the last trigger.
SetTrigger(t, on) ==
    /\ pc[t] = "command"
    /\ trigger' = Set(trigger, hold[t], on)
    /\ IF on THEN UNCHANGED steady ELSE Unsteady(hold[t], {"trigger"})
    /\ Release(t)
    /\ UNCHANGED <<dir, roots, counter, path, names, idle, missing, listening, subscribed, reap_log,
                   gpc, todo, at, held>>

\* query, clock, find and the rest.
Other(t) ==
    /\ pc[t] = "command"
    /\ Release(t)
    /\ UNCHANGED <<dir, roots, counter, path, rootv, reap_log, sweepv>>

\* A push task ends when its session has closed or its root is gone.
TaskEnds(t, i) ==
    /\ t \in listening[i]
    /\ listening' = Set(listening, i, listening[i] \ {t})
    /\ subscribed' = Set(subscribed, i, subscribed[i] \ {t})
    /\ names' = IF Alive(i) THEN Set(names, i, names[i] \ {Name[t]}) ELSE names
    /\ Unsteady(i, {Name[t]})
    /\ UNCHANGED <<dir, roots, counter, path, trigger, idle, missing, reap_log, procv, gpc,
                   todo, at, held>>

-----------------------------------------------------------------------------
(* gc::sweep. *)
Clients(i) == names[i] \cup (IF trigger[i] THEN {"trigger"} ELSE {})

SweepBegin(g) ==
    /\ gpc[g] = "idle"
    /\ \E p \in Paths : roots[p] # NoRoot
    /\ todo' = Set(todo, g, {p \in Paths : roots[p] # NoRoot})
    /\ gpc' = Set(gpc, g, "next")
    /\ UNCHANGED <<dir, roots, counter, path, rootv, reap_log, procv, at, held, steady>>

SweepEnd(g) ==
    /\ gpc[g] = "next"
    /\ todo[g] = {}
    /\ gpc' = Set(gpc, g, "idle")
    /\ UNCHANGED <<dir, roots, counter, path, rootv, reap_log, procv, todo, at, held, steady>>

\* The next path; a root that is gone by now is skipped.
SweepNext(g, p) ==
    /\ gpc[g] = "next"
    /\ p \in todo[g]
    /\ todo' = Set(todo, g, todo[g] \ {p})
    /\ IF roots[p] = NoRoot
       THEN UNCHANGED <<gpc, at, held, steady>>
       ELSE /\ gpc' = Set(gpc, g, "stat")
            /\ at' = Set(at, g, p)
            /\ held' = Set(held, g, roots[p])
            /\ steady' = Set(steady, g, Clients(roots[p]))
    /\ UNCHANGED <<dir, roots, counter, path, rootv, reap_log, procv>>

Leave(g, next) ==
    /\ gpc' = Set(gpc, g, next)
    /\ IF next = "next"
       THEN held' = Set(held, g, NoRoot) /\ steady' = Set(steady, g, {})
       ELSE UNCHANGED <<held, steady>>

\* mark_missing or mark_present
SweepStat(g) ==
    /\ gpc[g] = "stat"
    /\ LET i == held[g]
           misses == IF missing[i] < DEAD_TICK_THRESHOLD THEN missing[i] + 1 ELSE missing[i]
       IN  IF dir[at[g]]
           THEN /\ missing' = Set(missing, i, 0)
                /\ Leave(g, "check")
           ELSE /\ missing' = Set(missing, i, misses)
                /\ Leave(g, IF misses >= DEAD_TICK_THRESHOLD THEN "dead" ELSE "next")
    /\ UNCHANGED <<dir, roots, counter, path, names, trigger, idle, listening, subscribed, reap_log,
                   procv, todo, at>>

\* Mutant: the stale check forgets the subscriptions.
SweepCheck_TriggersOnly(g) ==
    /\ gpc[g] = "check"
    /\ Leave(g, IF ~trigger[held[g]] /\ idle[held[g]] THEN "stale" ELSE "next")
    /\ UNCHANGED <<dir, roots, counter, path, rootv, reap_log, procv, todo, at>>

\* The stale check; a root that passes it has its tombstones pruned.
SweepCheck(g) ==
    /\ gpc[g] = "check"
    /\ Leave(g, IF Clients(held[g]) = {} /\ idle[held[g]] THEN "stale" ELSE "next")
    /\ UNCHANGED <<dir, roots, counter, path, rootv, reap_log, procv, todo, at>>

\* Mutant: the log is never trimmed.
log_reap_Untrimmed(e) == reap_log' = Append(reap_log, e)

\* log_reap, with the oldest event dropped at capacity.
log_reap(e) ==
    reap_log' = Append(IF Len(reap_log) = REAP_LOG_CAPACITY THEN Tail(reap_log)
                                                            ELSE reap_log, e)

\* Whatever root is at the path is removed.
reap(g) ==
    /\ gpc[g] \in {"dead", "stale"}
    /\ IF roots[at[g]] = NoRoot
       THEN UNCHANGED <<roots, reap_log>>
       ELSE /\ unregister_root(at[g])
            /\ log_reap([path |-> at[g], reason |-> gpc[g]])
    /\ Leave(g, "next")
    /\ UNCHANGED <<dir, counter, path, rootv, procv, todo, at>>

-----------------------------------------------------------------------------
Next ==
    \/ \E p \in Paths : Fs(p)
    \/ \E i \in Roots : Age(i)
    \/ \E t \in Procs :
          \/ \E p \in Paths : WatchAgain(t, p) \/ WatchDel(t, p) \/ Lookup(t, p)
          \/ \E p \in Paths, b \in BOOLEAN : WatchNew(t, p, b)
          \/ Insert(t) \/ SpawnFails(t)
          \/ Subscribe(t) \/ Unsubscribe(t) \/ Other(t)
          \/ \E b \in BOOLEAN : SetTrigger(t, b)
          \/ \E i \in Roots : TaskEnds(t, i)
    \/ \E g \in Sweepers :
          \/ SweepBegin(g) \/ SweepEnd(g)
          \/ \E p \in Paths : SweepNext(g, p)
          \/ SweepStat(g) \/ SweepCheck(g) \/ reap(g)

Spec == Init /\ [][Next]_vars

\* A command runs to its end, a sweep too, and a push task whose root is gone
\* sees its channel close.
Fairness ==
    /\ \A t \in Procs : WF_vars(Insert(t) \/ Other(t))
    /\ \A t \in Procs, i \in Roots : WF_vars(~Alive(i) /\ TaskEnds(t, i))
    /\ \A g \in Sweepers :
          WF_vars(SweepEnd(g) \/ (\E p \in Paths : SweepNext(g, p)) \/ SweepStat(g)
                  \/ SweepCheck(g) \/ reap(g))

FairSpec == Spec /\ Fairness

-----------------------------------------------------------------------------
\* Types; the map files each root under its own path (state.rs), the reap log
\* keeps its capacity, and no thread or sweep holds a root past its work.
TypeOK ==
    /\ dir \in [Paths -> BOOLEAN]
    /\ roots \in [Paths -> 0..counter]
    /\ counter \in 0..MaxRoots
    /\ \A p \in Paths : roots[p] # NoRoot => path[roots[p]] = p
    /\ \A i \in Roots : names[i] \subseteq {Name[t] : t \in Procs}
    /\ trigger \in [Roots -> BOOLEAN] /\ idle \in [Roots -> BOOLEAN]
    /\ missing \in [Roots -> 0..DEAD_TICK_THRESHOLD]
    /\ Len(reap_log) <= REAP_LOG_CAPACITY
    /\ \A t \in Procs : /\ pc[t] \in {"idle", "insert", "command"}
                        /\ hold[t] \in 0..counter
                        /\ hold[t] # NoRoot <=> pc[t] # "idle"
    /\ \A i \in Roots : listening[i] \subseteq Procs
    /\ \A g \in Sweepers : /\ gpc[g] \in {"idle", "next", "stat", "check", "dead", "stale"}
                           /\ held[g] \in 0..counter
                           /\ held[g] # NoRoot <=> gpc[g] \notin {"idle", "next"}

\* The sweep's stale reap; what is at its path is removed.
StaleReaps(g) == gpc[g] = "stale" /\ gpc'[g] # "stale"
Removed(g) == roots[at[g]] # NoRoot /\ roots'[at[g]] = NoRoot

\* A client that was on the root when the sweep looked at it and stayed keeps
\* the root (gc.rs:17-18): whatever else comes and goes during the sweep, a
\* root with a steady subscription or trigger is not stale-reaped.
SteadyKeepsRoot ==
    [][\A g \in Sweepers : StaleReaps(g) => steady[g] = {}]_vars

\* Once a root is out of the map (watch-del, a reap, a lost race) it is freed
\* and its push tasks end: nothing that waits for the root holds it.
UnregisteredFreed ==
    \A i \in Roots :
        (i <= counter /\ roots[path[i]] # i)
        ~> (roots[path[i]] = i \/ (~Alive(i) /\ listening[i] = {}))

-----------------------------------------------------------------------------
(* Statements of the repository the code does not keep. *)

\* state.rs:119-120: register_root is "Idempotent - returning the existing
\* Root if one is already installed", so an installed root is never replaced.
Idempotent ==
    [][\A p \in Paths : roots[p] # NoRoot => roots'[p] \in {roots[p], NoRoot}]_vars

\* gc.rs:17-18: "Active roots - anything with a subscription or installed
\* trigger - are never stale-reaped".
ActiveNeverStale ==
    [][\A g \in Sweepers : StaleReaps(g) /\ Removed(g) => Clients(roots[at[g]]) = {}]_vars

\* tests/gc.rs:110: "An active root - one with a live subscription - must never
\* be reaped", a live subscription being one whose client has not given it up.
SubscribedNeverStale ==
    [][\A g \in Sweepers :
          SweepCheck(g) /\ gpc'[g] = "stale" => subscribed[held[g]] = {}]_vars

\* gc.rs:6-7: a dead root's directory "is missing from disk on two consecutive
\* ticks": the root removed is the one that was missed twice.
DeadMissedTwice ==
    [][\A g \in Sweepers :
          gpc[g] = "dead" /\ gpc'[g] # "dead" /\ Removed(g)
          => missing[roots[at[g]]] >= DEAD_TICK_THRESHOLD]_vars
=============================================================================
