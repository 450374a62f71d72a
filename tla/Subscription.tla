---------------------------- MODULE Subscription ----------------------------
(***************************************************************************)
(* Subscriptions end to end (commands/subscribe.rs, daemon/session.rs,     *)
(* daemon/server.rs): the watcher thread records a batch and broadcasts a  *)
(* TickEvent, a push task per subscription wakes on it and queries the     *)
(* index from its last tick, the session's writer task drains the queue to *)
(* the client.  Meanwhile the GC prunes tombstones, debug-recrawl replaces *)
(* the index, `clock` bumps, clients unsubscribe or hang up and the root   *)
(* is dropped.                                                             *)
(*                                                                         *)
(* `subscribe` first promotes the root, and a full index never becomes a   *)
(* jj event index again, so the root is full throughout.  One session per  *)
(* subscription.  A PDU is the tick at which each path it lists was last   *)
(* changed (0: not listed); with the index's own record of that tick it    *)
(* identifies the version of the path the client was told.                 *)
(***************************************************************************)
EXTENDS Root, Sequences

CONSTANTS Subs,      \* calls of `subscribe`, each on a session of its own
          Name,      \* the subscription name each call gives
          Capacity,  \* of the tick broadcast (256 in Root::new)
          MaxTick    \* bound on the clock

ASSUME SubscriptionAssumption == Capacity \in Nat \ {0} /\ MaxTick \in Nat

VARIABLES
    root,           \* RootType
    alive,          \* some strong Arc<Root> is left
    unsent,         \* tick of a recorded batch whose TickEvent is not sent, or 0
    log,            \* ticks of the TickEvents sent; the last Capacity are retained
    subscriptions,  \* names in Root::subscriptions
    pc,             \* where each subscribe call, then its push task, is
    next,           \* the task's position in the broadcast
    ev,             \* tick of the event the task is serving
    last,           \* last_tick
    response,       \* none, due or sent
    initial,        \* the initial answer, which is the response
    queue,          \* the session's mpsc channel
    conn,           \* the client is connected
    closed,         \* the writer task has exited: tx.is_closed()
    \* history, for the properties only
    stamp,          \* last tick at which the index recorded each path
    pruned,         \* deletions since dropped by a sweep
    crawled,        \* paths last touched by a recrawl
    asked, start,   \* clock of the initial answer; the task's first last_tick
    told,           \* last change of each path put on the queue by answer or push
    view,           \* what the client believes, from the PDUs it has read
    overtaken       \* a push was enqueued before the response

index == <<root, stamp, pruned, crawled>>
session == <<queue, conn, closed, view>>
task == <<pc, next, ev, last, response, initial, asked, start, told, overtaken>>
vars == <<root, alive, unsent, log, subscriptions, pc, next, ev, last, response,
          initial, queue, conn, closed, stamp, pruned, crawled, asked, start, told, view,
          overtaken>>

NoPdu == [p \in Paths |-> 0]
pdu(listed) == [p \in Paths |-> IF p \in listed THEN root.tree.entries[p].oclock ELSE 0]
\* What is known after m, given what was known before it.
update(known, m) == [p \in Paths |-> IF m[p] = 0 THEN known[p] ELSE m[p]]

CanBump == alive /\ root.ticks < MaxTick
Oldest == IF Len(log) > Capacity THEN Len(log) - Capacity + 1 ELSE 1
Set(f, s, v) == [f EXCEPT ![s] = v]

-----------------------------------------------------------------------------
NoPaths == [p \in {} |-> NoMeta]

\* A root that was watched in full, or has just been promoted.
Init ==
    /\ \E scan \in Scans :
          root \in {seed(RootNew(FALSE), scan),
                    promote_to_full(seed(RootNew(TRUE), NoPaths), scan)}
    /\ stamp = pdu(Known(root.tree))
    /\ alive = TRUE
    /\ unsent = 0
    /\ log = <<>>
    /\ subscriptions = {}
    /\ pc = [s \in Subs |-> "off"]
    /\ next = [s \in Subs |-> 0]
    /\ ev = [s \in Subs |-> 0]
    /\ last = [s \in Subs |-> 0]
    /\ asked = [s \in Subs |-> 0]
    /\ start = [s \in Subs |-> 0]
    /\ response = [s \in Subs |-> "none"]
    /\ initial = [s \in Subs |-> NoPdu]
    /\ told = [s \in Subs |-> NoPdu]
    /\ view = [s \in Subs |-> NoPdu]
    /\ queue = [s \in Subs |-> <<>>]
    /\ conn = [s \in Subs |-> TRUE]
    /\ closed = [s \in Subs |-> FALSE]
    /\ overtaken = [s \in Subs |-> FALSE]
    /\ pruned = {}
    /\ crawled = {}

-----------------------------------------------------------------------------
(* The index's writers.  Root::apply_changes sends its TickEvent after it   *)
(* has released the tree; the watcher thread starts no batch in between.    *)
Recorded(c) == c.op # "Remove" \/ contains(root.tree, c.path)

Apply(c) ==
    /\ CanBump
    /\ unsent = 0
    /\ c.op # "Signal"
    /\ root' = apply_one(apply_begin(root, FALSE), root.ticks + 1, c)
    /\ unsent' = root.ticks + 1
    /\ IF Recorded(c)
       THEN /\ stamp' = [stamp EXCEPT ![c.path] = root.ticks + 1]
            /\ pruned' = pruned \ {c.path}
            /\ crawled' = crawled \ {c.path}
       ELSE UNCHANGED <<stamp, pruned, crawled>>
    /\ UNCHANGED <<alive, log, subscriptions, task, session>>

Send ==
    /\ unsent # 0
    /\ log' = Append(log, unsent)
    /\ unsent' = 0
    /\ UNCHANGED <<index, alive, subscriptions, task, session>>

\* commands::clock
ClockBump ==
    /\ CanBump
    /\ root' = bump(root)
    /\ UNCHANGED <<stamp, pruned, crawled, alive, unsent, log, subscriptions, task, session>>

\* debug-recrawl of a full index: no TickEvent follows.
Recrawl(scan) ==
    /\ CanBump
    /\ root' = seed(root, scan)
    /\ stamp' = [p \in Paths |-> IF p \in DOMAIN scan THEN root.ticks + 1 ELSE stamp[p]]
    /\ pruned' = pruned \ DOMAIN scan
    /\ crawled' = crawled \cup Known(root.tree) \cup DOMAIN scan
    /\ UNCHANGED <<alive, unsent, log, subscriptions, task, session>>

\* A sweep with no named cursors: its watermark is the clock as it read it,
\* at some earlier moment.
Prune(watermark) ==
    /\ alive
    /\ watermark <= root.ticks
    /\ Prunable(root.tree, watermark) # {}
    /\ root' = prune(root, watermark)
    /\ pruned' = pruned \cup Prunable(root.tree, watermark)
    /\ UNCHANGED <<stamp, crawled, alive, unsent, log, subscriptions, task, session>>

\* The registry's Arc and every temporary one are gone: Root::drop.
HoldsRoot(s) == pc[s] \in {"install", "fence", "run"}
Drop ==
    /\ alive
    /\ unsent = 0
    /\ \A s \in Subs : ~HoldsRoot(s)
    /\ alive' = FALSE
    /\ subscriptions' = {}
    /\ UNCHANGED <<index, unsent, log, task, session>>

-----------------------------------------------------------------------------
(* The `subscribe` command, on a blocking thread. *)

\* The root looked up and promoted, then the initial query.
Ask(s) ==
    /\ pc[s] = "off"
    /\ alive /\ conn[s]
    /\ LET a == answer(root, None, 0, FALSE)
       IN  /\ initial' = Set(initial, s, pdu(a.files))
           /\ told' = Set(told, s, pdu(a.files))
           /\ asked' = Set(asked, s, a.clock)
    /\ pc' = Set(pc, s, "install")
    /\ UNCHANGED <<index, alive, unsent, log, subscriptions, next, ev, last, response,
                   start, overtaken, session>>

\* Mutant: the receiver starts one event too late.
Install_SkipsOne(s) ==
    /\ pc[s] = "install"
    /\ subscriptions' = subscriptions \cup {Name[s]}
    /\ next' = Set(next, s, Len(log) + 2)
    /\ pc' = Set(pc, s, "fence")
    /\ UNCHANGED <<index, alive, unsent, log, ev, last, response, initial, asked, start,
                   told, overtaken, session>>

\* add_subscription, and the receiver of the tick broadcast.
Install(s) ==
    /\ pc[s] = "install"
    /\ subscriptions' = subscriptions \cup {Name[s]}
    /\ next' = Set(next, s, Len(log) + 1)
    /\ pc' = Set(pc, s, "fence")
    /\ UNCHANGED <<index, alive, unsent, log, ev, last, response, initial, asked, start,
                   told, overtaken, session>>

\* start_tick, then the push task is spawned; the response is still to be
\* enqueued by dispatch_and_send.
Fence(s) ==
    /\ pc[s] = "fence"
    /\ last' = Set(last, s, root.ticks)
    /\ start' = Set(start, s, root.ticks)
    /\ response' = Set(response, s, "due")
    /\ pc' = Set(pc, s, "loop")
    /\ UNCHANGED <<index, alive, unsent, log, subscriptions, next, ev, initial, asked,
                   told, overtaken, session>>

\* Mutant: a channel of one slot that drops when it is full.
Enqueue_Bounded(s, m) ==
    queue' = IF closed[s] \/ queue[s] # <<>> THEN queue ELSE Set(queue, s, <<m>>)

\* session.send, an error of which dispatch_and_send ignores.
Enqueue(s, m) == queue' = IF closed[s] THEN queue ELSE Set(queue, s, Append(queue[s], m))

Respond(s) ==
    /\ response[s] = "due"
    /\ response' = Set(response, s, "sent")
    /\ Enqueue(s, initial[s])
    /\ UNCHANGED <<index, alive, unsent, log, subscriptions, pc, next, ev, last, initial,
                   asked, start, told, overtaken, conn, closed, view>>

-----------------------------------------------------------------------------
(* run_push_loop. *)

\* Mutant: a lagging receiver starts over with what comes next.
Lagged_SkipsAll(s) ==
    /\ pc[s] = "loop"
    /\ alive
    /\ next[s] < Oldest
    /\ next' = Set(next, s, Len(log) + 1)
    /\ UNCHANGED <<index, alive, unsent, log, subscriptions, pc, ev, last, response,
                   initial, asked, start, told, overtaken, session>>

\* Mutant: lagging ends the task, as the other receive error does.
Lagged_Breaks(s) ==
    /\ pc[s] = "loop"
    /\ alive
    /\ next[s] < Oldest
    /\ pc' = Set(pc, s, "exit")
    /\ UNCHANGED <<index, alive, unsent, log, subscriptions, next, ev, last, response,
                   initial, asked, start, told, overtaken, session>>

\* rx.recv() has skipped what the ring no longer holds.
Lagged(s) ==
    /\ pc[s] = "loop"
    /\ alive
    /\ next[s] < Oldest
    /\ next' = Set(next, s, Oldest)
    /\ UNCHANGED <<index, alive, unsent, log, subscriptions, pc, ev, last, response,
                   initial, asked, start, told, overtaken, session>>

\* An event, and the checks before the query.
Recv(s) ==
    /\ pc[s] = "loop"
    /\ alive
    /\ next[s] \in Oldest..Len(log)
    /\ next' = Set(next, s, next[s] + 1)
    /\ IF closed[s]
       THEN pc' = Set(pc, s, "exit") /\ UNCHANGED ev
       ELSE IF log[next[s]] <= last[s]
       THEN UNCHANGED <<pc, ev>>
       ELSE pc' = Set(pc, s, "run") /\ ev' = Set(ev, s, log[next[s]])
    /\ UNCHANGED <<index, alive, unsent, log, subscriptions, last, response, initial,
                   asked, start, told, overtaken, session>>

\* Mutant: a failed `upgrade` continues instead of breaking.
Closed_Continues(s) ==
    /\ pc[s] = "loop"
    /\ ~alive
    /\ UNCHANGED vars

\* The channel has closed, or `upgrade` fails.
Closed(s) ==
    /\ pc[s] = "loop"
    /\ ~alive
    /\ pc' = Set(pc, s, "exit")
    /\ UNCHANGED <<index, alive, unsent, log, subscriptions, next, ev, last, response,
                   initial, asked, start, told, overtaken, session>>

\* Mutant: the query starts from the event's tick.
Push_SinceEvent(s) ==
    /\ pc[s] = "run"
    /\ LET a == answer(root, Tick(ev[s]), 0, FALSE)
       IN  /\ queue' = Set(queue, s, Append(queue[s], pdu(a.files)))
           /\ told' = Set(told, s, update(told[s], pdu(a.files)))
    /\ pc' = Set(pc, s, "loop")
    /\ last' = Set(last, s, ev[s])
    /\ UNCHANGED <<index, alive, unsent, log, subscriptions, next, ev, response, initial,
                   asked, start, overtaken, conn, closed, view>>

\* query::run from last_tick, and the PDU it is worth.
Push(s) ==
    /\ pc[s] = "run"
    /\ LET a == answer(root, Tick(last[s]), 0, FALSE)
           silent == a.files = {} /\ ~a.fresh
           sent == ~silent /\ ~closed[s]
       IN  /\ IF silent THEN UNCHANGED queue ELSE Enqueue(s, pdu(a.files))
           /\ pc' = Set(pc, s, IF silent \/ sent THEN "loop" ELSE "exit")
           /\ told' = Set(told, s, IF sent THEN update(told[s], pdu(a.files)) ELSE told[s])
           /\ overtaken' = Set(overtaken, s, overtaken[s] \/ (sent /\ response[s] = "due"))
    /\ last' = Set(last, s, ev[s])
    /\ UNCHANGED <<index, alive, unsent, log, subscriptions, next, ev, response, initial,
                   asked, start, conn, closed, view>>

\* Mutant: the registration outlives the task.
Exit_StaysRegistered(s) ==
    /\ pc[s] = "exit"
    /\ pc' = Set(pc, s, "done")
    /\ UNCHANGED <<index, alive, unsent, log, subscriptions, next, ev, last, response,
                   initial, asked, start, told, overtaken, session>>

\* The task's end removes the subscription of its name, whoever's it is.
Exit(s) ==
    /\ pc[s] = "exit"
    /\ subscriptions' = IF alive THEN subscriptions \ {Name[s]} ELSE subscriptions
    /\ pc' = Set(pc, s, "done")
    /\ UNCHANGED <<index, alive, unsent, log, next, ev, last, response, initial, asked,
                   start, told, overtaken, session>>

\* The command: it tells the push task nothing.
Unsubscribe(n) ==
    /\ alive
    /\ n \in subscriptions
    /\ subscriptions' = subscriptions \ {n}
    /\ UNCHANGED <<index, alive, unsent, log, task, session>>

-----------------------------------------------------------------------------
(* The connection: writer_loop, and the client. *)
Write(s) ==
    /\ ~closed[s]
    /\ queue[s] # <<>>
    /\ queue' = Set(queue, s, Tail(queue[s]))
    /\ IF conn[s]
       THEN view' = Set(view, s, update(view[s], Head(queue[s]))) /\ UNCHANGED closed
       ELSE closed' = Set(closed, s, TRUE) /\ UNCHANGED view
    /\ UNCHANGED <<index, alive, unsent, log, subscriptions, task, conn>>

\* rx.recv() gives None once the reader and the push task have dropped the
\* session.
WriterEnd(s) ==
    /\ ~closed[s] /\ ~conn[s]
    /\ queue[s] = <<>>
    /\ pc[s] \in {"off", "done"} /\ response[s] # "due"
    /\ closed' = Set(closed, s, TRUE)
    /\ UNCHANGED <<index, alive, unsent, log, subscriptions, task, queue, conn, view>>

\* The reader sees EOF and drops its handle on the session.
Hangup(s) ==
    /\ conn[s]
    /\ conn' = Set(conn, s, FALSE)
    /\ UNCHANGED <<index, alive, unsent, log, subscriptions, task, queue, closed, view>>

-----------------------------------------------------------------------------
Next ==
    \/ \E c \in PathChange : Apply(c)
    \/ Send
    \/ ClockBump
    \/ \E scan \in Scans : Recrawl(scan)
    \/ \E w \in 1..MaxTick : Prune(w)
    \/ Drop
    \/ \E n \in {Name[s] : s \in Subs} : Unsubscribe(n)
    \/ \E s \in Subs :
          \/ Ask(s) \/ Install(s) \/ Fence(s) \/ Respond(s)
          \/ Lagged(s) \/ Recv(s) \/ Closed(s) \/ Push(s) \/ Exit(s)
          \/ Write(s) \/ WriterEnd(s) \/ Hangup(s)

Spec == Init /\ [][Next]_vars

(* Every task and thread of the daemon keeps running: tokio polls a task    *)
(* that was woken, a blocking thread is not stopped.  Nothing makes the     *)
(* file system change, a client speak or hang up, or the root go away.      *)
Fairness ==
    /\ WF_vars(Send)
    /\ \A s \in Subs :
          /\ WF_vars(Install(s) \/ Fence(s) \/ Lagged(s) \/ Recv(s) \/ Closed(s)
                     \/ Push(s) \/ Exit(s))
          /\ WF_vars(Respond(s))
          /\ WF_vars(Write(s) \/ WriterEnd(s))

FairSpec == Spec /\ Fairness

-----------------------------------------------------------------------------
\* Types; no push loop waits past the end of the channel, or reports or was told
\* a tick the clock has not reached (subscribe.rs).
TypeOK ==
    /\ root \in RootType /\ ~root.jj_events
    /\ alive \in BOOLEAN
    /\ unsent \in 0..root.ticks
    /\ \A i \in DOMAIN log : log[i] \in 1..root.ticks
    /\ subscriptions \subseteq {Name[s] : s \in Subs}
    /\ \A s \in Subs :
          /\ pc[s] \in {"off", "install", "fence", "loop", "run", "exit", "done"}
          /\ next[s] \in 0..Len(log) + 1
          /\ {ev[s], last[s], asked[s], start[s]} \subseteq 0..root.ticks
          /\ response[s] \in {"none", "due", "sent"}
          /\ {initial[s], told[s], view[s]} \subseteq [Paths -> 0..root.ticks]
          /\ \A i \in DOMAIN queue[s] : queue[s][i] \in [Paths -> 0..root.ticks]
          /\ {conn[s], closed[s], overtaken[s]} \subseteq BOOLEAN

Serving(s) == alive /\ ~closed[s] /\ pc[s] \in {"loop", "run"}
Newer(p, tick) == contains(root.tree, p) /\ root.tree.entries[p].oclock > tick
Excused == pruned \cup crawled

\* Whatever the task has not yet served, it will be woken for: while the index
\* holds a change newer than last_tick, an event newer than last_tick is in
\* hand, in the ring or about to be sent.  Skipped events (Lagged), events at
\* or below last_tick (continue) and batches recorded but not yet announced
\* keep it.  A recrawl sends no event and is the exception.
NoLostWakeup ==
    \A s \in Subs : \A p \in Paths \ crawled :
        Serving(s) /\ Newer(p, last[s]) =>
            \/ pc[s] = "run"
            \/ unsent > last[s]
            \/ \E i \in next[s]..Len(log) : i >= Oldest /\ log[i] > last[s]

\* A change recorded after the push task's first last_tick was put on the
\* session's queue, or the next query of the task will find it.  Only sweeps
\* and recrawls take it away (run_push_loop's `last_tick = ev.tick`).
PushCovers ==
    \A s \in Subs : \A p \in Paths \ Excused :
        Serving(s) /\ stamp[p] > start[s] => told[s][p] = stamp[p] \/ Newer(p, last[s])

\* Nothing is under way: no event to send or to receive, nothing to write.
Quiet(s) ==
    /\ pc[s] = "loop" /\ unsent = 0 /\ next[s] > Len(log)
    /\ response[s] = "sent" /\ queue[s] = <<>>

\* The client's mirror: once everything is quiet, a client that reads its PDUs
\* in order has the latest version of every path, except what changed between
\* the initial query and the fence, what a sweep or a recrawl took away, and
\* the case of a push overtaking the response.
ClientMirror ==
    \A s \in Subs : \A p \in Paths \ Excused :
        alive /\ Quiet(s) /\ conn[s] /\ ~closed[s] /\ ~overtaken[s]
              /\ stamp[p] \notin asked[s] + 1 .. start[s]
        => view[s][p] = stamp[p]

\* A registered name always has a push task, or a subscribe call about to
\* start one, behind it: `status` and flush-subscriptions list no ghosts.
NoGhost ==
    \A n \in subscriptions :
        \E s \in Subs : Name[s] = n /\ pc[s] \in {"fence", "loop", "run", "exit"}

\* The client has still to be told of p: it changed after the fence, and neither
\* a sweep nor a recrawl took that away.
Owed(s, p) == stamp[p] > start[s] /\ p \notin Excused /\ told[s][p] # stamp[p]

\* Every change after the fence reaches the session's queue, unless a sweep or
\* recrawl, the end of the connection or the end of the root comes first.
EventuallyTold ==
    \A s \in Subs, p \in Paths :
        (Serving(s) /\ Owed(s, p)) ~> (~Owed(s, p) \/ closed[s] \/ ~alive)

\* Dropping the root ends every push task: they hold it weakly, so their
\* channel closes (the comment at subscribe.rs:47).
DropEndsTasks ==
    \A s \in Subs : ~alive ~> pc[s] \in {"off", "done"}

-----------------------------------------------------------------------------
(* Statements of the repository the code does not keep. *)

\* subscribe.rs:37-40: no event is missed between the initial answer and the
\* push task, "the starting tick fence is also captured here, before we run
\* the initial query".
FenceBeforeQuery ==
    \A s \in Subs : \A p \in Paths \ Excused :
        Serving(s) /\ stamp[p] > asked[s] => told[s][p] = stamp[p] \/ Newer(p, last[s])

\* root.rs:238: subscribers "consume deletions live via `TickEvent` broadcast,
\* not by re-reading the tree", so a sweep takes no deletion from them.
DeletionsReachSubscribers ==
    \A s \in Subs : \A p \in pruned \ crawled :
        alive /\ Quiet(s) /\ ~closed[s] /\ stamp[p] > start[s] => told[s][p] = stamp[p]

\* PROTOCOL.md:117: an "initial response", then "subsequent unilateral PDUs".
ResponseFirst == \A s \in Subs : ~overtaken[s]

\* session.rs:8-10: when the connection drops, the push tasks "notice and tear
\* themselves down".
HangupEndsTask ==
    \A s \in Subs : ~conn[s] ~> pc[s] \in {"off", "done"}
=============================================================================
