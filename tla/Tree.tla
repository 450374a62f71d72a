-------------------------------- MODULE Tree --------------------------------
(***************************************************************************)
(* The per-root file index (daemon/tree.rs): a map from root-relative path *)
(* to an entry, and the two counters `status` reports without a scan.      *)
(* Metadata is one opaque value per stat result.  The arena is left out:   *)
(* it decides only when the jj index is thrown away, see apply_begin in    *)
(* Root.                                                                   *)
(***************************************************************************)
EXTENDS Naturals, FiniteSets

CONSTANTS Paths,    \* root-relative paths
          Metas,    \* what symlink_metadata can return for a path that exists
          NoMeta,   \* the zeroed metadata of FileEntry::missing
          NoEntry   \* `entries.get(rel)` is None

Entry == [exists: BOOLEAN, meta: Metas \cup {NoMeta},
          cclock: Nat, oclock: Nat, is_new: BOOLEAN]

ASSUME TreeAssumption ==
    /\ IsFiniteSet(Paths)
    /\ NoMeta \notin Metas
    /\ NoEntry \notin Entry

TreeType == [entries: [Paths -> Entry \cup {NoEntry}],
             live: Nat, tombstones: Nat]

-----------------------------------------------------------------------------
contains(t, p) == t.entries[p] # NoEntry
Known(t) == {p \in Paths : contains(t, p)}
Live(t) == {p \in Known(t) : t.entries[p].exists}
Tombs(t) == {p \in Known(t) : ~t.entries[p].exists}
len(t) == Cardinality(Known(t))

saturating_sub(n, k) == IF k > n THEN 0 ELSE n - k

EmptyTree == [entries |-> [p \in Paths |-> NoEntry], live |-> 0, tombstones |-> 0]

\* FileEntry::missing, and the tombstone mark_gone makes of an entry
gone(md, tick, cclock) ==
    [exists |-> FALSE, meta |-> md, cclock |-> cclock, oclock |-> tick,
     is_new |-> FALSE]
missing(tick) == gone(NoMeta, tick, tick)

\* FileEntry::from_metadata, with the two fields upsert overwrites
from_metadata(md, tick, is_new, cclock) ==
    [exists |-> TRUE, meta |-> md, cclock |-> cclock, oclock |-> tick,
     is_new |-> is_new]

insert(t, p, e) == [t.entries EXCEPT ![p] = e]

\* Mutant: the old entry is not looked up before counting.
upsert_CountsTwice(t, p, md, tick, is_new, cclock) ==
    [entries |-> insert(t, p, from_metadata(md, tick, is_new, cclock)),
     live |-> t.live + 1, tombstones |-> t.tombstones]

upsert(t, p, md, tick, is_new, cclock) ==
    [entries |-> insert(t, p, from_metadata(md, tick, is_new, cclock)),
     live |-> IF p \in Live(t) THEN t.live ELSE t.live + 1,
     tombstones |-> IF p \in Tombs(t) THEN saturating_sub(t.tombstones, 1)
                                      ELSE t.tombstones]

\* Mutant: no saturation, and the counter moves for a second removal too.
mark_gone_Unchecked(t, p, tick) ==
    IF ~contains(t, p)
    THEN t
    ELSE [entries |-> insert(t, p, gone(t.entries[p].meta, tick, t.entries[p].cclock)),
          live |-> t.live - 1, tombstones |-> t.tombstones + 1]

mark_gone(t, p, tick) ==
    IF ~contains(t, p)
    THEN t
    ELSE [entries |-> insert(t, p, gone(t.entries[p].meta, tick, t.entries[p].cclock)),
          live |-> IF p \in Live(t) THEN saturating_sub(t.live, 1) ELSE t.live,
          tombstones |-> IF p \in Live(t) THEN t.tombstones + 1
                                          ELSE t.tombstones]

record_gone(t, p, tick) ==
    IF contains(t, p)
    THEN mark_gone(t, p, tick)
    ELSE [entries |-> insert(t, p, missing(tick)),
          live |-> t.live, tombstones |-> t.tombstones + 1]

record_signal(t, p, tick) ==
    LET cclock == IF contains(t, p) THEN t.entries[p].cclock ELSE tick
    IN  [entries |-> insert(t, p, from_metadata(NoMeta, tick, cclock = tick, cclock)),
         live |-> IF p \in Live(t) THEN t.live ELSE t.live + 1,
         tombstones |-> IF p \in Tombs(t) THEN saturating_sub(t.tombstones, 1)
                                          ELSE t.tombstones]

\* The entries `retain` drops, and the tree it leaves.
Prunable(t, watermark) == {p \in Tombs(t) : t.entries[p].oclock <= watermark}

prune_tombstones_before(t, watermark) ==
    IF t.tombstones = 0
    THEN t
    ELSE LET kept == [p \in Paths |-> IF p \in Prunable(t, watermark)
                                      THEN NoEntry ELSE t.entries[p]]
             removed == len(t) - Cardinality({p \in Paths : kept[p] # NoEntry})
         IN  [entries |-> kept, live |-> t.live,
              tombstones |-> saturating_sub(t.tombstones, removed)]

-----------------------------------------------------------------------------
\* `live` and `tombstones` count the entries they claim to count, so
\* live + tombstones = entries.len() (tree.rs:210) and no saturating_sub
\* ever saturates.
CountersExact(t) ==
    /\ t.live = Cardinality(Live(t))
    /\ t.tombstones = Cardinality(Tombs(t))
=============================================================================
