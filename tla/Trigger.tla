------------------------------- MODULE Trigger -------------------------------
(***************************************************************************)
(* The loops behind one trigger name of one root (commands/trigger.rs).    *)
(* Each `trigger` command, and each registration that finds the trigger    *)
(* persisted, spawns a loop that waits for TickEvents, queries the index   *)
(* from the last tick it observed and runs the trigger's command to its    *)
(* end.  A loop ends when it finds the name no longer installed or the     *)
(* root gone.  Batches come from the watcher and invalidations also from   *)
(* command threads, so two TickEvents can be sent out of order.            *)
(***************************************************************************)
EXTENDS Root, Sequences

CONSTANTS Loops,      \* calls of `trigger`, all with the same name
          JjTrigger,  \* the name is jj-background-monitor
          Modes,      \* may the root be a jj root: a subset of BOOLEAN
          Capacity,   \* of the tick broadcast (256 in Root::new)
          MaxTick     \* bound on the clock

ASSUME TriggerAssumption ==
    /\ JjTrigger \in BOOLEAN /\ Modes \subseteq BOOLEAN
    /\ Capacity \in Nat \ {0, 1} /\ MaxTick \in Nat

VARIABLES
    root,
    watched,      \* the root is in the registry
    unsent,       \* per sender: tick of its TickEvent yet to be sent, or 0
    log,          \* ticks of the TickEvents sent, in order
    installed,    \* has_trigger(name)
    pc, next,     \* each loop, and the index in log it receives next
    last,         \* last_tick
    fresh, names, \* the query's is_fresh_instance and collect_names
    \* history, for the properties only
    owed,         \* per loop: changes recorded since its start and not reported
    lost,         \* changes a sweep or a crawl took out of the index
    fired         \* per loop: clock of the last answer it ran the command for

task == <<pc, next, last, fresh, names>>
history == <<owed, lost, fired>>
vars == <<root, watched, unsent, log, installed, pc, next, last, fresh, names, owed, lost, fired>>

Senders == {"watcher", "command"}
Sent == \A s \in Senders : unsent[s] = 0

Set(f, g, v) == [f EXCEPT ![g] = v]
CanBump == root.ticks < MaxTick
Oldest == IF Len(log) > Capacity THEN Len(log) - Capacity + 1 ELSE 1
Started(g) == pc[g] \in {"loop", "run", "decide", "fire"}

\* Mutant: the command is run with the root still held.
HoldsRoot_Firing(g) == pc[g] \in {"spawn", "fence", "run", "decide", "fire"}

\* A strong reference: the command until its loop is spawned, then the loop
\* between `upgrade` and the end of its iteration or the command it runs.
HoldsRoot(g) == pc[g] \in {"spawn", "fence", "run", "decide"}
Alive == watched \/ ~Sent \/ \E g \in Loops : HoldsRoot(g)

Init ==
    /\ \E jj \in Modes, scan \in Scans :
          /\ jj => scan = [p \in {} |-> 0]
          /\ root = seed(RootNew(jj), scan)
    /\ watched = TRUE /\ log = <<>> /\ installed = FALSE
    /\ unsent = [s \in Senders |-> 0]
    /\ pc = [g \in Loops |-> "off"]
    /\ next = [g \in Loops |-> 1]
    /\ last = [g \in Loops |-> 0]
    /\ fresh = [g \in Loops |-> FALSE]
    /\ names = [g \in Loops |-> {}]
    /\ owed = [g \in Loops |-> {}] /\ lost = {}
    /\ fired = [g \in Loops |-> 0]

-----------------------------------------------------------------------------
(* The index. *)
Recorded(c) == c.op # "Remove" \/ root.jj_events \/ contains(root.tree, c.path)

Apply(c, arena_full) ==
    /\ Alive /\ CanBump
    /\ unsent["watcher"] = 0
    /\ root' = apply_one(apply_begin(root, arena_full), root.ticks + 1, c)
    /\ unsent' = Set(unsent, "watcher", root.ticks + 1)
    /\ IF Recorded(c)
       THEN /\ owed' = [g \in Loops |-> IF Started(g) THEN owed[g] \cup {c.path} ELSE owed[g]]
            /\ lost' = lost \ {c.path}
       ELSE UNCHANGED <<owed, lost>>
    /\ UNCHANGED <<watched, log, installed, task, fired>>

\* By the watcher, debug-recrawl or debug-fsevents-inject-drop.
Invalidate(s) ==
    /\ Alive /\ CanBump
    /\ unsent[s] = 0
    /\ root.jj_events
    /\ root' = invalidate_jj_events(root)
    /\ unsent' = Set(unsent, s, root.ticks + 1)
    /\ UNCHANGED <<watched, log, installed, task, history>>

Send(s) ==
    /\ unsent[s] # 0
    /\ log' = Append(log, unsent[s])
    /\ unsent' = Set(unsent, s, 0)
    /\ UNCHANGED <<root, watched, installed, task, history>>

\* commands::clock
ClockBump ==
    /\ watched /\ CanBump
    /\ root' = bump(root)
    /\ UNCHANGED <<watched, unsent, log, installed, task, history>>

\* Another client's promotion, and debug-recrawl of a full index: neither
\* sends a TickEvent.
Promote(scan) ==
    /\ watched /\ CanBump
    /\ root.jj_events
    /\ root' = promote_to_full(root, scan)
    /\ UNCHANGED <<watched, unsent, log, installed, task, history>>

Recrawl(scan) ==
    /\ watched /\ CanBump
    /\ ~root.jj_events
    /\ root' = seed(root, scan)
    /\ lost' = lost \cup (Known(root.tree) \ DOMAIN scan)
    /\ UNCHANGED <<watched, unsent, log, installed, task, owed, fired>>

\* A sweep of an index without named cursors.
Prune ==
    /\ watched
    /\ ~root.jj_events
    /\ Prunable(root.tree, root.ticks) # {}
    /\ root' = prune(root, root.ticks)
    /\ lost' = lost \cup Prunable(root.tree, root.ticks)
    /\ UNCHANGED <<watched, unsent, log, installed, task, owed, fired>>

WatchDel ==
    /\ watched
    /\ watched' = FALSE
    /\ UNCHANGED <<root, unsent, log, installed, task, history>>

-----------------------------------------------------------------------------
(* The commands. *)

\* `trigger`: only jj's own runs on the event index.  Installing it is also
\* what makes it durable, see TriggerStore.
Install(g, scan) ==
    /\ pc[g] = "off"
    /\ watched
    /\ IF JjTrigger \/ ~root.jj_events
       THEN scan = [p \in {} |-> 0] /\ UNCHANGED root
       ELSE CanBump /\ root' = promote_to_full(root, scan)
    /\ installed' = TRUE
    /\ pc' = Set(pc, g, "spawn")
    /\ UNCHANGED <<watched, unsent, log, next, last, fresh, names, history>>

\* spawn_trigger_loop_ext: the receiver, then the starting tick.
Spawn(g) ==
    /\ pc[g] = "spawn"
    /\ next' = Set(next, g, Len(log) + 1)
    /\ pc' = Set(pc, g, "fence")
    /\ UNCHANGED <<root, watched, unsent, log, installed, last, fresh, names, history>>

Fence(g) ==
    /\ pc[g] = "fence"
    /\ last' = Set(last, g, root.ticks)
    /\ fired' = Set(fired, g, root.ticks)
    /\ pc' = Set(pc, g, "loop")
    /\ UNCHANGED <<root, watched, unsent, log, installed, next, fresh, names, owed, lost>>

trigger_del ==
    /\ watched
    /\ installed
    /\ installed' = FALSE
    /\ UNCHANGED <<root, watched, unsent, log, task, history>>

-----------------------------------------------------------------------------
(* run_trigger. *)
\* Mutant: lagging ends the loop.
Lagged_Breaks(g) ==
    /\ pc[g] = "loop"
    /\ Alive
    /\ next[g] < Oldest
    /\ pc' = Set(pc, g, "done")
    /\ UNCHANGED <<root, watched, unsent, log, installed, next, last, fresh, names, history>>

Lagged(g) ==
    /\ pc[g] = "loop"
    /\ Alive
    /\ next[g] < Oldest
    /\ next' = Set(next, g, Oldest)
    /\ UNCHANGED <<root, watched, unsent, log, installed, pc, last, fresh, names, history>>

Recv(g) ==
    /\ pc[g] = "loop"
    /\ Alive
    /\ next[g] \in Oldest..Len(log)
    /\ next' = Set(next, g, next[g] + 1)
    /\ pc' = Set(pc, g, IF ~installed THEN "done"
                        ELSE IF log[next[g]] <= last[g] THEN "loop" ELSE "run")
    /\ owed' = IF installed THEN owed ELSE Set(owed, g, {})
    /\ UNCHANGED <<root, watched, unsent, log, installed, last, fresh, names, lost, fired>>

\* The channel has closed, or `upgrade` fails.
Closed(g) ==
    /\ pc[g] = "loop"
    /\ ~Alive
    /\ pc' = Set(pc, g, "done")
    /\ UNCHANGED <<root, watched, unsent, log, installed, next, last, fresh, names, history>>

\* query::run and the tick it observed.
Query(g) ==
    /\ pc[g] = "run"
    /\ LET a == answer(root, Tick(last[g]), 0, FALSE)
       IN  /\ last' = Set(last, g, a.clock)
           /\ fresh' = Set(fresh, g, a.fresh)
           /\ names' = Set(names, g, a.files)
           /\ owed' = Set(owed, g, IF a.fresh THEN {} ELSE owed[g] \ a.files)
    /\ pc' = Set(pc, g, "decide")
    /\ UNCHANGED <<root, watched, unsent, log, installed, next, lost, fired>>

\* Mutant: the loop's tick is the clock after the query, not the one the
\* query observed under the lock.
Decide_Rereads(g) ==
    /\ pc[g] = "decide"
    /\ LET runs == names[g] # {} \/ (root.jj_events /\ fresh[g])
       IN  /\ pc' = Set(pc, g, IF runs THEN "fire" ELSE "loop")
           /\ fired' = IF runs THEN Set(fired, g, root.ticks) ELSE fired
    /\ last' = Set(last, g, root.ticks)
    /\ fresh' = Set(fresh, g, FALSE)
    /\ names' = Set(names, g, {})
    /\ UNCHANGED <<root, watched, unsent, log, installed, next, owed, lost>>

\* Mutant: nothing is run without a file to name.
Decide_NamesOnly(g) ==
    /\ pc[g] = "decide"
    /\ pc' = Set(pc, g, IF names[g] = {} THEN "loop" ELSE "fire")
    /\ fired' = IF names[g] = {} THEN fired ELSE Set(fired, g, last[g])
    /\ fresh' = Set(fresh, g, FALSE)
    /\ names' = Set(names, g, {})
    /\ UNCHANGED <<root, watched, unsent, log, installed, next, last, owed, lost>>

\* Fired for files, or for jj to look for itself.
Decide(g) ==
    /\ pc[g] = "decide"
    /\ LET runs == names[g] # {} \/ (root.jj_events /\ fresh[g])
       IN  /\ pc' = Set(pc, g, IF runs THEN "fire" ELSE "loop")
           /\ fired' = IF runs THEN Set(fired, g, last[g]) ELSE fired
    /\ fresh' = Set(fresh, g, FALSE)
    /\ names' = Set(names, g, {})
    /\ UNCHANGED <<root, watched, unsent, log, installed, next, last, owed, lost>>

\* The command has exited and was waited for.
fire(g) ==
    /\ pc[g] = "fire"
    /\ pc' = Set(pc, g, "loop")
    /\ UNCHANGED <<root, watched, unsent, log, installed, next, last, fresh, names, history>>

-----------------------------------------------------------------------------
Next ==
    \/ \E c \in PathChange, b \in BOOLEAN : Apply(c, b)
    \/ \E s \in Senders : Invalidate(s) \/ Send(s)
    \/ ClockBump \/ Prune \/ WatchDel \/ trigger_del
    \/ \E scan \in Scans : Promote(scan) \/ Recrawl(scan)
    \/ \E g \in Loops :
          \/ \E scan \in Scans : Install(g, scan)
          \/ Spawn(g) \/ Fence(g) \/ Lagged(g) \/ Recv(g) \/ Closed(g)
          \/ Query(g) \/ Decide(g) \/ fire(g)

Spec == Init /\ [][Next]_vars

\* Tasks are scheduled; a trigger's command need not ever exit.
Fairness ==
    /\ \A s \in Senders : WF_vars(Send(s))
    /\ \A g \in Loops :
          /\ WF_vars(Spawn(g) \/ Fence(g) \/ Query(g) \/ Decide(g))
          /\ WF_vars(Lagged(g) \/ Recv(g) \/ Closed(g))

FairSpec == Spec /\ Fairness

-----------------------------------------------------------------------------
\* A TickEvent the loop will still see as newer than what it observed.
Pending(g) ==
    \/ \E s \in Senders : unsent[s] > last[g]
    \/ \E i \in next[g]..Len(log) : i >= Oldest /\ log[i] > last[g]

Waiting(g) == pc[g] \in {"loop", "decide", "fire"} /\ installed

\* No change is missed (trigger.rs:118-120 skips ticks): what was recorded
\* since the loop started and not reported to the command is still newer than
\* the loop's tick in the index, or that tick is one the index answers afresh,
\* and an event that will make the loop look is on its way - whatever lag,
\* reordering of events, clock bumps, promotions and resets come in between.
NothingMissed ==
    \A g \in Loops : Waiting(g) =>
        \A p \in owed[g] \ lost :
            /\ Pending(g)
            /\ \/ contains(root.tree, p) /\ root.tree.entries[p].oclock > last[g]
               \/ last[g] < root.oldest_available_tick

\* jj's trigger hears of a lost event index (README.md:21-24): after a reset
\* its command is run, or the loop is about to, though there is no file to name.
FreshFires ==
    \A g \in Loops :
        Waiting(g) /\ root.jj_events /\ fired[g] < root.oldest_available_tick
        => Pending(g) \/ (pc[g] = "decide" /\ fresh[g] /\ last[g] >= root.oldest_available_tick)

\* A change is eventually reported to the command, if the commands the loop
\* runs exit (fire waits for each).
EventuallyFired ==
    \A g \in Loops, p \in Paths :
        []<>(pc[g] # "fire") =>
            (p \in owed[g] ~> p \notin owed[g] \/ p \in lost \/ ~installed \/ ~watched)

\* A deleted watch is freed although a trigger's command is still running and
\* may never exit (trigger.rs:127-129).
RootFreed == ~watched ~> ~Alive

\* docs/PARITY.md:40-41: "Each trigger runs one command at a time and waits for
\* it to exit before running again".
OneCommandAtATime == \A g, h \in Loops : pc[g] = "fire" /\ pc[h] = "fire" => g = h
=============================================================================
