------------------------------ MODULE RootIndex ------------------------------
(***************************************************************************)
(* One root's index under everything that touches it at once: the watcher  *)
(* applying batches, command threads running queries, promotions, recrawls *)
(* and clock bumps, and the GC (or debug-ageout) pruning tombstones.       *)
(*                                                                         *)
(* The steps are the code's critical sections.  `writer` and `readers` are *)
(* the state of Root::tree's RwLock; what happens outside it (resolving a  *)
(* named cursor, reading the watermark, bumping the clock) is a step of    *)
(* its own.  A query on a plain clock changes nothing: it is the operator  *)
(* `answer`, and AnswerExact looks at every such query in every state in   *)
(* which it could take the lock.  The content of a scan and of a batch is  *)
(* arbitrary here; where they come from is Watcher's business.             *)
(***************************************************************************)
EXTENDS Root

CONSTANTS Procs,     \* threads running a cursor query or a sweep
          Cursors,   \* names of n: cursors
          MaxTick    \* bound on the clock (the one promotion may exceed it)

ASSUME RootIndexAssumption == MaxTick \in Nat

Idle == 0   \* the write lock is free; otherwise `writer` is the batch's tick

VARIABLES
    root,      \* RootType
    cursors,   \* Root::cursors, 0 where there is no entry
    writer,    \* the tick of the batch being applied under tree.write()
    pc,        \* where each thread is
    name,      \* the cursor of the thread's query
    cursor,    \* cursor tick the query resolved, or the sweep's watermark
    ans,       \* the answer computed under tree.read()
    \* history, for the properties only
    stamp,     \* last tick at which the index was told about each path
    pruned,    \* deletions since dropped by prune_tombstones
    crawled,   \* paths since dropped because a recrawl did not find them
    owed       \* per cursor: recorded changes not yet reported through it

threads == <<pc, name, cursor, ans>>
history == <<stamp, pruned, crawled, owed>>
vars == <<root, cursors, writer, pc, name, cursor, ans, stamp, pruned, crawled, owed>>

\* Every since a plain query can carry.
PlainSpecs == {None, [kind |-> "Epoch"], [kind |-> "Other"], [kind |-> "Scm"]}
         \cup {Tick(t) : t \in 0..MaxTick + 1}
Named(c) == [kind |-> "Named", name |-> c]

NoAnswer == [fresh |-> FALSE, files |-> {}, clock |-> 0]

\* Threads inside query::run's read-locked section.
readers == {t \in Procs : pc[t] = "finish"}

CanRead == writer = Idle
CanWrite == writer = Idle /\ readers = {}
CanBump == root.ticks < MaxTick

\* Paths the index knew and a fresh crawl does not.
Vanished(scan) == Known(root.tree) \ DOMAIN scan

\* A path in `scan` counts as reported at the crawl's tick.
Restamp(scan, tick) == [p \in Paths |-> IF p \in DOMAIN scan THEN tick ELSE stamp[p]]

-----------------------------------------------------------------------------
\* register_root seeds the tree before anyone can reach the root; a jj root
\* is seeded with no entries at all.
Init ==
    /\ \E jj \in BOOLEAN, scan \in Scans :
          /\ jj => scan = [p \in {} |-> 0]
          /\ root = seed(RootNew(jj), scan)
          /\ stamp = [p \in Paths |-> IF p \in DOMAIN scan THEN 2 ELSE 0]
    /\ cursors = [c \in Cursors |-> 0]
    /\ writer = Idle
    /\ pc = [t \in Procs |-> "idle"]
    /\ name \in [Procs -> Cursors]
    /\ cursor = [t \in Procs |-> 0]
    /\ ans = [t \in Procs |-> NoAnswer]
    /\ pruned = {}
    /\ crawled = {}
    /\ owed = [c \in Cursors |-> {}]

(* The watcher's batch: Root::apply_changes. *)
ApplyBegin(arena_full) ==
    /\ CanWrite /\ CanBump
    /\ root' = apply_begin(root, arena_full)
    /\ writer' = root.ticks + 1
    /\ UNCHANGED <<cursors, threads, history>>

\* A removal of a path a full index never had leaves no trace.
Recorded(c) == c.op # "Remove" \/ root.jj_events \/ contains(root.tree, c.path)

ApplyOne(c) ==
    /\ writer # Idle
    /\ root' = apply_one(root, writer, c)
    /\ IF Recorded(c)
       THEN /\ stamp' = [stamp EXCEPT ![c.path] = writer]
            /\ pruned' = pruned \ {c.path}
            /\ crawled' = crawled \ {c.path}
            /\ owed' = [d \in Cursors |-> IF cursors[d] > 0
                                          THEN owed[d] \cup {c.path} ELSE owed[d]]
       ELSE UNCHANGED history
    /\ UNCHANGED <<cursors, writer, threads>>

ApplyEnd ==
    /\ writer # Idle
    /\ writer' = Idle
    /\ UNCHANGED <<root, cursors, threads, history>>

(* commands::clock, which bumps without the tree lock. *)
ClockBump ==
    /\ CanBump
    /\ root' = bump(root)
    /\ UNCHANGED <<cursors, writer, threads, history>>

(* Root::invalidate_jj_events: from the watcher, debug-recrawl or           *)
(* debug-inject-drop.                                                       *)
Invalidate ==
    /\ CanWrite /\ CanBump
    /\ root.jj_events
    /\ root' = invalidate_jj_events(root)
    /\ UNCHANGED <<cursors, writer, threads, history>>

(* debug-recrawl of a full index: the scan replaces the tree. *)
Recrawl(scan) ==
    /\ CanWrite /\ CanBump
    /\ ~root.jj_events
    /\ root' = seed(root, scan)
    /\ stamp' = Restamp(scan, root.ticks + 1)
    /\ pruned' = pruned \ DOMAIN scan
    /\ crawled' = (crawled \ DOMAIN scan) \cup Vanished(scan)
    /\ UNCHANGED <<cursors, writer, threads, owed>>

(* Root::promote_to_full, before any query, subscription or trigger that    *)
(* jj's event index cannot serve.  On a full index it does nothing.         *)
Promote(scan) ==
    /\ CanWrite
    /\ root.jj_events
    /\ root' = promote_to_full(root, scan)
    /\ stamp' = Restamp(scan, root.ticks + 1)
    /\ UNCHANGED <<cursors, writer, threads, pruned, crawled, owed>>

-----------------------------------------------------------------------------
(* A query on a named cursor: the cursor resolved before the lock, the scan *)
(* under it, the cursor moved before it is released.                        *)
resolve_named_cursor(t, c) ==
    /\ pc[t] = "idle"
    /\ name' = [name EXCEPT ![t] = c]
    /\ cursor' = [cursor EXCEPT ![t] = cursors[c]]
    /\ pc' = [pc EXCEPT ![t] = "read"]
    /\ UNCHANGED <<root, cursors, writer, ans, history>>

Run(t, empty_on_fresh_instance) ==
    /\ pc[t] = "read"
    /\ CanRead
    /\ ans' = [ans EXCEPT ![t] = answer(root, Named(name[t]), cursor[t],
                                        empty_on_fresh_instance)]
    /\ pc' = [pc EXCEPT ![t] = "finish"]
    /\ UNCHANGED <<root, cursors, writer, name, cursor, history>>

\* Fresh, or from tick 0: the answer is the client's new baseline.
Baseline(t) == ans[t].fresh \/ cursor[t] = 0

Finish(t) ==
    /\ pc[t] = "finish"
    /\ cursors' = [cursors EXCEPT ![name[t]] = ans[t].clock]
    /\ owed' = [owed EXCEPT ![name[t]] = IF Baseline(t) THEN {} ELSE @ \ ans[t].files]
    /\ pc' = [pc EXCEPT ![t] = "idle"]
    /\ cursor' = [cursor EXCEPT ![t] = 0]
    /\ ans' = [ans EXCEPT ![t] = NoAnswer]
    /\ UNCHANGED <<root, writer, name, stamp, pruned, crawled>>

-----------------------------------------------------------------------------
\* Mutant: the event index is swept like any other.
PruneBegin_Jj(t) ==
    /\ pc[t] = "idle"
    /\ cursor' = [cursor EXCEPT ![t] = root.ticks]
    /\ pc' = [pc EXCEPT ![t] = "watermark"]
    /\ UNCHANGED <<root, cursors, writer, name, ans, history>>

(* Root::prune_tombstones: the tick, then the cursors, then the lock. *)
PruneBegin(t) ==
    /\ pc[t] = "idle"
    /\ ~root.jj_events
    /\ cursor' = [cursor EXCEPT ![t] = root.ticks]
    /\ pc' = [pc EXCEPT ![t] = "watermark"]
    /\ UNCHANGED <<root, cursors, writer, name, ans, history>>

PruneWatermark(t) ==
    /\ pc[t] = "watermark"
    /\ \E w \in Watermarks(cursor[t], cursors) : cursor' = [cursor EXCEPT ![t] = w]
    /\ pc' = [pc EXCEPT ![t] = "prune"]
    /\ UNCHANGED <<root, cursors, writer, name, ans, history>>

PruneApply(t) ==
    /\ pc[t] = "prune"
    /\ CanWrite
    /\ root' = prune(root, cursor[t])
    /\ pruned' = pruned \cup Prunable(root.tree, cursor[t])
    /\ pc' = [pc EXCEPT ![t] = "idle"]
    /\ cursor' = [cursor EXCEPT ![t] = 0]
    /\ UNCHANGED <<cursors, writer, name, ans, stamp, crawled, owed>>

-----------------------------------------------------------------------------
Next ==
    \/ \E b \in BOOLEAN : ApplyBegin(b)
    \/ \E c \in PathChange : ApplyOne(c)
    \/ ApplyEnd
    \/ ClockBump
    \/ Invalidate
    \/ \E scan \in Scans : Recrawl(scan)
    \/ \E scan \in Scans : Promote(scan)
    \/ \E t \in Procs :
          \/ \E c \in Cursors : resolve_named_cursor(t, c)
          \/ \E b \in BOOLEAN : Run(t, b)
          \/ Finish(t)
          \/ PruneBegin(t)
          \/ PruneWatermark(t)
          \/ PruneApply(t)

Spec == Init /\ [][Next]_vars

-----------------------------------------------------------------------------
\* Types: in particular the counters and clocks of tree.rs and root.rs stay
\* natural numbers.
TypeOK ==
    /\ root \in RootType
    /\ cursors \in [Cursors -> Nat]
    /\ writer \in Nat
    /\ pc \in [Procs -> {"idle", "read", "finish", "watermark", "prune"}]
    /\ name \in [Procs -> Cursors]
    /\ cursor \in [Procs -> Nat]
    /\ ans \in [Procs -> [fresh: BOOLEAN, files: SUBSET Paths, clock: Nat]]
    /\ stamp \in [Paths -> Nat]
    /\ pruned \in SUBSET Paths
    /\ crawled \in SUBSET Paths
    /\ owed \in [Cursors -> SUBSET Paths]

\* The counters `status` reports (tree.rs:210) stay exact through every mix of
\* batches, resets, crawls and sweeps.
TreeCounters == CountersExact(root.tree)

Exact(s, cur) ==
    LET a == answer(root, s, cur, FALSE)
        newer == {p \in Paths : stamp[p] > since_tick(s, cur)}
    IN  ~a.fresh /\ on_tick_axis(s, cur)
        => newer \ (pruned \cup crawled) \subseteq a.files /\ a.files \subseteq newer

\* What a clock promises, whatever happened since it was handed out: a query
\* that names a tick and is not answered as a fresh instance reports every
\* path the index was told about after that tick, and no other.  The only
\* ones it may leave out are deletions a sweep pruned and paths a recrawl
\* replaced: jj resets, caps, invalidations and promotions lose nothing.
AnswerExact ==
    CanRead =>
        /\ \A s \in PlainSpecs : Exact(s, 0)
        /\ \A t \in Procs : pc[t] = "read" => Exact(Named(name[t]), cursor[t])

\* While a root is a jj event index, its clocks stay answerable across sweeps
\* (tests/jj_events.rs, tombstone_sweeps_leave_jj_clocks_answerable): nothing
\* is ever pruned or crawled away from it.
JjKeepsAll == root.jj_events => pruned = {} /\ crawled = {}

\* A named cursor never skips a change: what was recorded while the cursor
\* existed and no query through it has reported is still in the index, newer
\* than the cursor, or the next query through it is answered afresh.  Sweeps
\* racing with queries, and queries racing each other over one cursor, keep
\* it; only a recrawl breaks it.
CursorNoLoss ==
    \A c \in Cursors : \A p \in owed[c] \ crawled :
        \/ contains(root.tree, p) /\ root.tree.entries[p].oclock > cursors[c]
        \/ cursors[c] < root.oldest_available_tick

-----------------------------------------------------------------------------
(* The inductive invariant behind those properties. *)

\* The index holds what it was last told, or no longer claims to.
StampInv ==
    \A p \in Paths :
        /\ stamp[p] <= root.ticks
        /\ IF contains(root.tree, p)
           THEN root.tree.entries[p].oclock = stamp[p]
           ELSE stamp[p] <= root.oldest_available_tick \/ p \in pruned \cup crawled

\* Nothing is ahead of the clock.
ClockBounds ==
    /\ root.ticks > 0
    /\ root.oldest_available_tick <= root.ticks
    /\ writer <= root.ticks
    /\ \A c \in Cursors : cursors[c] <= root.ticks
    /\ \A t \in Procs : /\ cursor[t] <= root.ticks
                        /\ ans[t].clock <= root.ticks
                        /\ pc[t] = "finish" => ans[t].clock > 0

\* While a batch is applied nobody reads, and every cursor, every resolved
\* cursor and, once there is a cursor, every watermark is older than it.
WriterInv ==
    writer # Idle =>
        /\ readers = {}
        /\ \A c \in Cursors : cursors[c] < writer
        /\ \A t \in Procs :
              /\ pc[t] = "read" => cursor[t] < writer
              /\ pc[t] = "prune" /\ (\E c \in Cursors : cursors[c] > 0)
                 => cursor[t] < writer

SweepInv == \A t \in Procs : pc[t] \in {"watermark", "prune"} => ~root.jj_events

\* Path p is in the index with a tick newer than `tick`.
Newer(p, tick) == contains(root.tree, p) /\ root.tree.entries[p].oclock > tick

\* What is owed to a cursor survives the queries and sweeps under way.
OwedInv ==
    \A c \in Cursors :
        /\ cursors[c] = 0 => owed[c] = {}
        /\ \A t \in Procs :
              /\ pc[t] = "read" /\ name[t] = c =>
                    \A p \in owed[c] \ crawled :
                        Newer(p, cursor[t]) \/ cursor[t] < root.oldest_available_tick
              /\ pc[t] = "finish" /\ name[t] = c =>
                    Baseline(t) \/ owed[c] \ crawled \subseteq ans[t].files
              /\ pc[t] = "prune" =>
                    \A p \in owed[c] \ crawled :
                        Newer(p, cursor[t]) \/ cursors[c] < root.oldest_available_tick

\* A reset outdates a cursor and what queries resolved of it together, and a
\* query ends at a clock the index still answers.
ResetInv ==
    \A t \in Procs :
        /\ pc[t] = "read" /\ cursors[name[t]] < root.oldest_available_tick
           => cursor[t] < root.oldest_available_tick
        /\ pc[t] = "finish" => ans[t].clock >= root.oldest_available_tick

IInv ==
    /\ TypeOK
    /\ TreeCounters
    /\ StampInv
    /\ ClockBounds
    /\ WriterInv
    /\ SweepInv
    /\ JjKeepsAll
    /\ CursorNoLoss
    /\ ResetInv
    /\ OwedInv
=============================================================================
