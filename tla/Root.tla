-------------------------------- MODULE Root --------------------------------
(***************************************************************************)
(* The index half of one watched root (daemon/root.rs, daemon/clock.rs,    *)
(* query/run.rs): its clock, its tree, whether it is still the event-only  *)
(* index kept for jj, and the oldest clock that index can answer.  Every   *)
(* operator is one critical section of Root::tree, as a function from the  *)
(* root before it to the root after it.                                    *)
(***************************************************************************)
EXTENDS Tree

CONSTANT JJ_EVENT_INDEX_MAX_ENTRIES   \* root.rs:124

ASSUME RootAssumption == JJ_EVENT_INDEX_MAX_ENTRIES \in Nat

RootType == [ticks: Nat, tree: TreeType, jj_events: BOOLEAN,
             oldest_available_tick: Nat]

\* One element of the batch the watcher hands to apply_changes.
PathChange == [op: {"Upsert"}, path: Paths, meta: Metas]
         \cup [op: {"Remove", "Signal"}, path: Paths]

\* What initial_scan may return: some paths, each with its metadata.
Scans == UNION {[D -> Metas] : D \in SUBSET Paths}

-----------------------------------------------------------------------------
RootState(ticks, tree, jj, oldest) ==
    [ticks |-> ticks, tree |-> tree, jj_events |-> jj,
     oldest_available_tick |-> oldest]

RootNew(jj) == RootState(1, EmptyTree, jj, 0)

\* Clock::bump
bump(r) == RootState(r.ticks + 1, r.tree, r.jj_events, r.oldest_available_tick)

\* The fresh tree seed and promote_to_full build from a scan.
Crawled(scan, tick) ==
    [entries |-> [p \in Paths |-> IF p \in DOMAIN scan
                                  THEN from_metadata(scan[p], tick, FALSE, tick)
                                  ELSE NoEntry],
     live |-> Cardinality(DOMAIN scan), tombstones |-> 0]

seed(r, scan) ==
    RootState(r.ticks + 1, Crawled(scan, r.ticks + 1), r.jj_events,
              r.oldest_available_tick)

\* Mutant: the new index still claims to answer the event index's clocks.
promote_to_full_KeepsOldest(r, scan) ==
    IF ~r.jj_events
    THEN r
    ELSE RootState(r.ticks + 1, Crawled(scan, r.ticks + 1), FALSE,
                   r.oldest_available_tick)

promote_to_full(r, scan) ==
    IF ~r.jj_events
    THEN r
    ELSE RootState(r.ticks + 1, Crawled(scan, r.ticks + 1), FALSE, r.ticks + 1)

\* FALSE from the code (nothing done) is ~r.jj_events here.
invalidate_jj_events(r) ==
    IF ~r.jj_events
    THEN r
    ELSE RootState(r.ticks + 1, EmptyTree, TRUE, r.ticks + 1)

\* apply_changes up to its loop.  arena_full stands for arena_bytes() having
\* reached its cap, which may happen at any size of the map.
apply_begin(r, arena_full) ==
    IF r.jj_events /\ (len(r.tree) >= JJ_EVENT_INDEX_MAX_ENTRIES \/ arena_full)
    THEN RootState(r.ticks + 1, EmptyTree, TRUE, r.ticks + 1)
    ELSE bump(r)

\* One iteration of that loop; tick is the local of apply_changes.
apply_one(r, tick, c) ==
    LET t == r.tree
        known == contains(t, c.path)
        cclock == IF known THEN t.entries[c.path].cclock ELSE tick
        changed == IF c.op = "Upsert"
                   THEN upsert(t, c.path, c.meta, tick, ~known, cclock)
                   ELSE IF c.op = "Signal"
                   THEN record_signal(t, c.path, tick)
                   ELSE IF r.jj_events
                   THEN record_gone(t, c.path, tick)
                   ELSE mark_gone(t, c.path, tick)
    IN  RootState(r.ticks, changed, r.jj_events, r.oldest_available_tick)

\* prune_tombstones' watermark: the least of the tick it read and the ticks
\* of the cursors.  A cursor at 0 has no entry in Root::cursors.
CursorTicks(cursors) == {cursors[c] : c \in {d \in DOMAIN cursors : cursors[d] > 0}}

\* Mutant: the cursors are not consulted.
Watermarks_TickOnly(tick, cursors) == {tick}

Watermarks(tick, cursors) ==
    {w \in {tick} \cup CursorTicks(cursors) :
        w <= tick /\ \A u \in CursorTicks(cursors) : w <= u}

prune(r, watermark) ==
    RootState(r.ticks, prune_tombstones_before(r.tree, watermark), r.jj_events,
              r.oldest_available_tick)

-----------------------------------------------------------------------------
(* Clock specs and the since half of query::run.  A bare tick and a full   *)
(* clock string of this root instance are both kind "Tick"; a full string  *)
(* of another instance is "Other"; anything unparsable is "Epoch".         *)
None == [kind |-> "None"]
Tick(t) == [kind |-> "Tick", tick |-> t]

tick_against(since) == IF since.kind = "Tick" THEN since.tick ELSE 0

\* cursor is the tick resolve_named_cursor read, for a "Named" since.
since_tick(since, cursor) ==
    IF since.kind = "Named" THEN cursor ELSE tick_against(since)

on_tick_axis(since, cursor) ==
    \/ since.kind = "Named" /\ cursor > 0
    \/ since.kind \in {"Tick", "Other"}

is_fresh_instance(r, since, cursor) ==
    \/ since.kind = "None"
    \/ since_tick(since, cursor) = 0 /\ r.jj_events
    \/ /\ on_tick_axis(since, cursor)
       /\ since_tick(since, cursor) < r.oldest_available_tick

\* The paths a query that filters nothing out reports.
files(r, since, cursor) ==
    {p \in Known(r.tree) : \/ since.kind = "None"
                           \/ r.tree.entries[p].oclock > since_tick(since, cursor)}

\* query::run under the read lock.
answer(r, since, cursor, empty_on_fresh_instance) ==
    LET fresh == is_fresh_instance(r, since, cursor)
    IN  [fresh |-> fresh,
         files |-> IF fresh /\ empty_on_fresh_instance
                   THEN {} ELSE files(r, since, cursor),
         clock |-> r.ticks]
=============================================================================
