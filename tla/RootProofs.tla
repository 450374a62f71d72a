----------------------------- MODULE RootProofs -----------------------------
(***************************************************************************)
(* What each operation of Tree and each critical section of Root does, for *)
(* every set of paths: it keeps the tree and the root well typed and the   *)
(* tree's counters exact, and changes no more of the index than it says.   *)
(***************************************************************************)
EXTENDS Root, FiniteSetTheorems, TLAPS

\* The parts of a tree's type the other proofs use.
LEMMA TreeFacts ==
    ASSUME NEW t \in TreeType
    PROVE  /\ t.entries \in [Paths -> Entry \cup {NoEntry}]
           /\ t.live \in Nat /\ t.tombstones \in Nat
           /\ t = [entries |-> t.entries, live |-> t.live, tombstones |-> t.tombstones]
           /\ \A p \in Known(t) : p \in Paths /\ t.entries[p] \in Entry
  BY Zenon DEF TreeType, Known, contains

\* The sets the counters count are finite, and split the known paths.
LEMMA CountedFinite ==
    ASSUME NEW t
    PROVE  /\ IsFiniteSet(Known(t)) /\ IsFiniteSet(Live(t)) /\ IsFiniteSet(Tombs(t))
           /\ Cardinality(Known(t)) \in Nat
           /\ Cardinality(Live(t)) \in Nat
           /\ Cardinality(Tombs(t)) \in Nat
  <1>1. Known(t) \subseteq Paths /\ Live(t) \subseteq Paths /\ Tombs(t) \subseteq Paths
    BY DEF Known, Live, Tombs
  <1>. QED  BY <1>1, TreeAssumption, FS_Subset, FS_CardinalityType

\* A new tree is well typed and counts nothing (Tree::new).
LEMMA EmptyTreeOK == EmptyTree \in TreeType /\ CountersExact(EmptyTree)
  <1>1. EmptyTree \in TreeType
    BY DEF EmptyTree, TreeType
  <1>2. Live(EmptyTree) = {} /\ Tombs(EmptyTree) = {}
    BY DEF EmptyTree, Live, Tombs, Known, contains
  <1>. QED  BY <1>1, <1>2, FS_EmptySet, Z3 DEF CountersExact, EmptyTree

\* Storing an entry that exists adds its path to the live ones.
LEMMA InsertLive ==
    ASSUME NEW t \in TreeType, NEW u \in TreeType, NEW p \in Paths, NEW e \in Entry,
           e.exists, u.entries = insert(t, p, e)
    PROVE  Live(u) = Live(t) \cup {p} /\ Tombs(u) = Tombs(t) \ {p}
  <1>1. \A q \in Paths : u.entries[q] = IF q = p THEN e ELSE t.entries[q]
    BY TreeFacts DEF insert
  <1>2. e # NoEntry
    BY TreeAssumption
  <1>. QED  BY <1>1, <1>2 DEF Live, Tombs, Known, contains

\* Storing an entry that does not exist adds its path to the tombstones.
LEMMA InsertTomb ==
    ASSUME NEW t \in TreeType, NEW u \in TreeType, NEW p \in Paths, NEW e \in Entry,
           ~e.exists, u.entries = insert(t, p, e)
    PROVE  Live(u) = Live(t) \ {p} /\ Tombs(u) = Tombs(t) \cup {p}
  <1>1. \A q \in Paths : u.entries[q] = IF q = p THEN e ELSE t.entries[q]
    BY TreeFacts DEF insert
  <1>2. e # NoEntry
    BY TreeAssumption
  <1>. QED  BY <1>1, <1>2 DEF Live, Tombs, Known, contains

\* The counter updates for a path that becomes live: the ones of upsert and
\* record_signal.
LEMMA CountLive ==
    ASSUME NEW t \in TreeType, NEW p \in Paths, NEW e \in Entry, e.exists,
           CountersExact(t),
           NEW u, u = [entries |-> insert(t, p, e),
                       live |-> IF p \in Live(t) THEN t.live ELSE t.live + 1,
                       tombstones |-> IF p \in Tombs(t)
                                      THEN saturating_sub(t.tombstones, 1)
                                      ELSE t.tombstones]
    PROVE  u \in TreeType /\ CountersExact(u)
  <1>1. u \in TreeType
    BY TreeFacts DEF TreeType, insert, saturating_sub
  <1>2. Live(u) = Live(t) \cup {p} /\ Tombs(u) = Tombs(t) \ {p}
    BY <1>1, InsertLive
  <1>3. Cardinality(Live(u)) = u.live
    BY <1>2, CountedFinite, FS_AddElement DEF CountersExact
  <1>4. Cardinality(Tombs(u)) = IF p \in Tombs(t) THEN Cardinality(Tombs(t)) - 1
                                                  ELSE Cardinality(Tombs(t))
    BY <1>2, CountedFinite, FS_RemoveElement
  <1>5. p \in Tombs(t) => Cardinality(Tombs(t)) > 0
    BY CountedFinite, FS_EmptySet
  <1>. QED  BY <1>1, <1>3, <1>4, <1>5, CountedFinite DEF CountersExact, saturating_sub

\* Tree::upsert, whatever is_new and cclock its caller computed.
LEMMA UpsertOK ==
    ASSUME NEW t \in TreeType, CountersExact(t), NEW p \in Paths, NEW md \in Metas,
           NEW tick \in Nat, NEW is_new \in BOOLEAN, NEW cclock \in Nat
    PROVE  /\ upsert(t, p, md, tick, is_new, cclock) \in TreeType
           /\ CountersExact(upsert(t, p, md, tick, is_new, cclock))
  <1>. DEFINE e == from_metadata(md, tick, is_new, cclock)
  <1>1. e \in Entry /\ e.exists
    BY DEF from_metadata, Entry
  <1>. QED  BY <1>1, CountLive DEF upsert

\* Tree::record_signal.
LEMMA RecordSignalOK ==
    ASSUME NEW t \in TreeType, CountersExact(t), NEW p \in Paths, NEW tick \in Nat
    PROVE  /\ record_signal(t, p, tick) \in TreeType
           /\ CountersExact(record_signal(t, p, tick))
  <1>. DEFINE cclock == IF contains(t, p) THEN t.entries[p].cclock ELSE tick
              e == from_metadata(NoMeta, tick, cclock = tick, cclock)
  <1>1. cclock \in Nat
    BY TreeFacts DEF Known, contains, Entry
  <1>2. e \in Entry /\ e.exists
    BY <1>1 DEF from_metadata, Entry
  <1>3. record_signal(t, p, tick)
          = [entries |-> insert(t, p, e),
             live |-> IF p \in Live(t) THEN t.live ELSE t.live + 1,
             tombstones |-> IF p \in Tombs(t) THEN saturating_sub(t.tombstones, 1)
                                              ELSE t.tombstones]
    BY Zenon DEF record_signal
  <1>. HIDE DEF e
  <1>. QED  BY <1>2, <1>3, CountLive, Zenon

\* Tree::mark_gone.
LEMMA MarkGoneOK ==
    ASSUME NEW t \in TreeType, CountersExact(t), NEW p \in Paths, NEW tick \in Nat
    PROVE  mark_gone(t, p, tick) \in TreeType /\ CountersExact(mark_gone(t, p, tick))
  <1>. DEFINE u == mark_gone(t, p, tick)
  <1>1. CASE ~contains(t, p)
    BY <1>1 DEF mark_gone
  <1>2. CASE contains(t, p)
    <2>. DEFINE e == gone(t.entries[p].meta, tick, t.entries[p].cclock)
    <2>1. e \in Entry /\ ~e.exists
      BY <1>2, TreeFacts DEF Known, contains, Entry, gone
    <2>2. u \in TreeType /\ u.entries = insert(t, p, e)
      BY <1>2, <2>1, TreeFacts DEF mark_gone, TreeType, insert, saturating_sub
    <2>3. Live(u) = Live(t) \ {p} /\ Tombs(u) = Tombs(t) \cup {p}
      BY <2>1, <2>2, InsertTomb
    <2>4. p \in Live(t) <=> p \notin Tombs(t)
      BY <1>2 DEF Live, Tombs, Known, contains
    <2>5. Cardinality(Live(u)) = IF p \in Live(t) THEN Cardinality(Live(t)) - 1
                                                  ELSE Cardinality(Live(t))
      BY <2>3, CountedFinite, FS_RemoveElement, Zenon
    <2>6. Cardinality(Tombs(u)) = IF p \in Tombs(t) THEN Cardinality(Tombs(t))
                                                    ELSE Cardinality(Tombs(t)) + 1
      BY <2>3, CountedFinite, FS_AddElement, Zenon
    <2>7. p \in Live(t) => Cardinality(Live(t)) > 0
      BY CountedFinite, FS_EmptySet
    <2>8. /\ u.live = IF p \in Live(t) THEN saturating_sub(t.live, 1) ELSE t.live
          /\ u.tombstones = IF p \in Live(t) THEN t.tombstones + 1 ELSE t.tombstones
      BY <1>2 DEF mark_gone
    <2>. QED  BY <2>2, <2>4, <2>5, <2>6, <2>7, <2>8, CountedFinite
              DEF CountersExact, saturating_sub
  <1>. QED  BY <1>1, <1>2

\* Tree::record_gone.
LEMMA RecordGoneOK ==
    ASSUME NEW t \in TreeType, CountersExact(t), NEW p \in Paths, NEW tick \in Nat
    PROVE  record_gone(t, p, tick) \in TreeType /\ CountersExact(record_gone(t, p, tick))
  <1>. DEFINE u == record_gone(t, p, tick)
  <1>1. CASE contains(t, p)
    BY <1>1, MarkGoneOK DEF record_gone
  <1>2. CASE ~contains(t, p)
    <2>1. missing(tick) \in Entry /\ ~missing(tick).exists
      BY DEF missing, gone, Entry
    <2>2. /\ u \in TreeType /\ u.entries = insert(t, p, missing(tick))
          /\ u.live = t.live /\ u.tombstones = t.tombstones + 1
      BY <1>2, <2>1, TreeFacts DEF record_gone, TreeType, insert
    <2>3. Live(u) = Live(t) \ {p} /\ Tombs(u) = Tombs(t) \cup {p}
      BY <2>1, <2>2, InsertTomb
    <2>4. p \notin Live(t) /\ p \notin Tombs(t)
      BY <1>2 DEF Live, Tombs, Known, contains
    <2>5. Live(u) = Live(t)
      BY <2>3, <2>4
    <2>6. Cardinality(Tombs(u)) = Cardinality(Tombs(t)) + 1
      BY <2>3, <2>4, CountedFinite, FS_AddElement, Zenon
    <2>. QED  BY <2>2, <2>5, <2>6 DEF CountersExact
  <1>. QED  BY <1>1, <1>2

\* Taking a part of a finite set away takes its size away.
LEMMA CountRest ==
    ASSUME NEW S, NEW P, IsFiniteSet(S), P \subseteq S
    PROVE  Cardinality(S \ P) = Cardinality(S) - Cardinality(P)
  <1>1. S \cap P = P
    OBVIOUS
  <1>. QED  BY <1>1, FS_Difference, Zenon

\* Tree::prune_tombstones_before: it drops exactly the prunable tombstones.
LEMMA PruneOK ==
    ASSUME NEW t \in TreeType, CountersExact(t), NEW w \in Nat
    PROVE  /\ prune_tombstones_before(t, w) \in TreeType
           /\ CountersExact(prune_tombstones_before(t, w))
           /\ \A p \in Paths : prune_tombstones_before(t, w).entries[p] =
                 IF p \in Prunable(t, w) THEN NoEntry ELSE t.entries[p]
  <1>. DEFINE u == prune_tombstones_before(t, w)
              kept == [p \in Paths |-> IF p \in Prunable(t, w)
                                       THEN NoEntry ELSE t.entries[p]]
              left == {p \in Paths : kept[p] # NoEntry}
              removed == len(t) - Cardinality(left)
  <1>1. CASE t.tombstones = 0
    <2>1. Tombs(t) = {}
      BY <1>1, CountedFinite, FS_EmptySet, Zenon DEF CountersExact
    <2>2. Prunable(t, w) = {}
      BY <2>1 DEF Prunable
    <2>. QED  BY <1>1, <2>2 DEF prune_tombstones_before
  <1>2. CASE t.tombstones # 0
    <2>1. u = [entries |-> kept, live |-> t.live,
               tombstones |-> saturating_sub(t.tombstones, removed)]
      BY <1>2 DEF prune_tombstones_before
    <2>2. Prunable(t, w) \subseteq Tombs(t) /\ Prunable(t, w) \subseteq Known(t)
      BY DEF Prunable, Tombs
    <2>3. left = Known(t) \ Prunable(t, w)
      BY DEF Known, contains
    <2>4. IsFiniteSet(Prunable(t, w)) /\ Cardinality(Prunable(t, w)) \in Nat
      BY <2>2, CountedFinite, FS_Subset, FS_CardinalityType, Zenon
    <2>5. removed = Cardinality(Prunable(t, w))
      <3>1. Cardinality(Known(t) \ Prunable(t, w)) =
               Cardinality(Known(t)) - Cardinality(Prunable(t, w))
        BY <2>2, CountedFinite, CountRest
      <3>. HIDE DEF left
      <3>. QED  BY <2>3, <2>4, <3>1, CountedFinite DEF len
    <2>6. Cardinality(Tombs(t) \ Prunable(t, w)) =
             Cardinality(Tombs(t)) - Cardinality(Prunable(t, w))
      BY <2>2, CountedFinite, CountRest
    <2>7. Cardinality(Prunable(t, w)) <= Cardinality(Tombs(t))
      BY <2>2, CountedFinite, FS_Subset
    <2>8. saturating_sub(t.tombstones, removed) =
             Cardinality(Tombs(t)) - Cardinality(Prunable(t, w))
      BY <2>4, <2>5, <2>7, CountedFinite DEF CountersExact, saturating_sub
    <2>9. u \in TreeType /\ u.entries = kept /\ u.live = t.live
           /\ u.tombstones = Cardinality(Tombs(t)) - Cardinality(Prunable(t, w))
      BY <2>1, <2>4, <2>7, <2>8, TreeFacts, CountedFinite DEF TreeType
    <2>10. Live(u) = Live(t) /\ Tombs(u) = Tombs(t) \ Prunable(t, w)
      BY <2>9, Zenon DEF Live, Tombs, Known, contains, Prunable
    <2>. QED  BY <2>6, <2>9, <2>10 DEF CountersExact
  <1>. QED  BY <1>1, <1>2

-----------------------------------------------------------------------------
(* The critical sections of Root. *)

\* The fields of a root.
LEMMA RootFacts ==
    ASSUME NEW r \in RootType
    PROVE  /\ r.ticks \in Nat /\ r.tree \in TreeType /\ r.jj_events \in BOOLEAN
           /\ r.oldest_available_tick \in Nat
  BY Zenon DEF RootType

\* A scan names some paths, with metadata for each.
LEMMA ScanFacts ==
    ASSUME NEW scan \in Scans
    PROVE  DOMAIN scan \subseteq Paths /\ \A p \in DOMAIN scan : scan[p] \in Metas
  BY DEF Scans

\* The tree a crawl builds (seed and promote_to_full): the scanned paths, live,
\* all at the crawl's tick.
LEMMA CrawledOK ==
    ASSUME NEW scan \in Scans, NEW tick \in Nat
    PROVE  /\ Crawled(scan, tick) \in TreeType
           /\ CountersExact(Crawled(scan, tick))
           /\ \A p \in Paths :
                 /\ contains(Crawled(scan, tick), p) <=> p \in DOMAIN scan
                 /\ p \in DOMAIN scan => Crawled(scan, tick).entries[p].oclock = tick
  <1>. DEFINE u == Crawled(scan, tick)
              e(p) == from_metadata(scan[p], tick, FALSE, tick)
  <1>1. \A p \in DOMAIN scan : e(p) \in Entry /\ e(p).exists /\ e(p).oclock = tick
    BY ScanFacts DEF from_metadata, Entry
  <1>2. \A p \in DOMAIN scan : e(p) # NoEntry
    BY <1>1, TreeAssumption, Zenon
  <1>3. IsFiniteSet(DOMAIN scan) /\ Cardinality(DOMAIN scan) \in Nat
    BY ScanFacts, TreeAssumption, FS_Subset, FS_CardinalityType
  <1>4. \A p \in Paths : u.entries[p] = IF p \in DOMAIN scan THEN e(p) ELSE NoEntry
    BY DEF Crawled
  <1>5. u \in TreeType
    BY <1>1, <1>3, Zenon DEF Crawled, TreeType
  <1>6. \A p \in Paths : contains(u, p) <=> p \in DOMAIN scan
    BY <1>2, <1>4, Zenon DEF contains
  <1>7. Known(u) = DOMAIN scan
    BY <1>6, ScanFacts DEF Known
  <1>8. Live(u) = DOMAIN scan /\ Tombs(u) = {}
    BY <1>1, <1>4, <1>7, ScanFacts, Zenon DEF Live, Tombs
  <1>9. CountersExact(u)
    BY <1>8, FS_EmptySet, Zenon DEF CountersExact, Crawled
  <1>. QED  BY <1>1, <1>4, <1>5, <1>6, <1>9, Zenon

\* Root u is r after change c of the batch at `tick`.
Changed(r, tick, c, u) ==
    /\ u \in RootType /\ CountersExact(u.tree)
    /\ u.ticks = r.ticks /\ u.jj_events = r.jj_events
    /\ u.oldest_available_tick = r.oldest_available_tick
    /\ c.path \in Paths
    /\ \A q \in Paths \ {c.path} : u.tree.entries[q] = r.tree.entries[q]
    /\ IF c.op # "Remove" \/ r.jj_events \/ contains(r.tree, c.path)
       THEN contains(u.tree, c.path) /\ u.tree.entries[c.path].oclock = tick
       ELSE u.tree = r.tree

\* One change of a batch: it touches one path, and what it records of it
\* carries the batch's tick.
LEMMA ApplyOneOK ==
    ASSUME NEW r \in RootType, CountersExact(r.tree), NEW tick \in Nat,
           NEW c \in PathChange,
           NEW u, u = apply_one(r, tick, c)
    PROVE  Changed(r, tick, c, u)
  <1>. DEFINE t == r.tree
              p == c.path
              known == contains(t, p)
              cclock == IF known THEN t.entries[p].cclock ELSE tick
              kept == c.op # "Remove" \/ r.jj_events \/ known
  <1>1. p \in Paths /\ c.op \in {"Upsert", "Remove", "Signal"}
    BY DEF PathChange
  <1>2. t \in TreeType /\ t.entries \in [Paths -> Entry \cup {NoEntry}] /\ CountersExact(t)
    BY RootFacts, TreeFacts
  <1>3. cclock \in Nat /\ known \in BOOLEAN
    BY <1>1, <1>2, Zenon DEF contains, Entry
  <1>0. ASSUME NEW v \in TreeType, CountersExact(v),
               u = RootState(r.ticks, v, r.jj_events, r.oldest_available_tick),
               \A q \in Paths \ {p} : v.entries[q] = t.entries[q],
               kept => contains(v, p) /\ v.entries[p].oclock = tick,
               ~kept => v = t
        PROVE  Changed(r, tick, c, u)
    <2>1. u.tree = v /\ u \in RootType /\ u.ticks = r.ticks /\ u.jj_events = r.jj_events
          /\ u.oldest_available_tick = r.oldest_available_tick
      BY <1>0 DEF RootState, RootType
    <2>. QED  BY <1>0, <1>1, <2>1, Zenon DEF Changed
  <1>4. CASE c.op = "Upsert"
    <2>. DEFINE v == upsert(t, p, c.meta, tick, ~known, cclock)
                e == from_metadata(c.meta, tick, ~known, cclock)
    <2>1. c.meta \in Metas
      BY <1>4 DEF PathChange
    <2>2. v \in TreeType /\ CountersExact(v)
      BY <1>1, <1>2, <1>3, <2>1, UpsertOK, Zenon
    <2>3. u = RootState(r.ticks, v, r.jj_events, r.oldest_available_tick)
      BY <1>4, Zenon DEF apply_one
    <2>4. e \in Entry /\ e.oclock = tick
      BY <1>3, <2>1, Zenon DEF from_metadata, Entry
    <2>5. v.entries = [t.entries EXCEPT ![p] = e]
      BY DEF upsert, insert
    <2>. HIDE DEF v, e
    <2>6. contains(v, p) /\ v.entries[p].oclock = tick
          /\ \A q \in Paths \ {p} : v.entries[q] = t.entries[q]
      BY <1>1, <1>2, <2>4, <2>5, TreeAssumption DEF contains
    <2>. QED  BY <1>0, <1>4, <2>2, <2>3, <2>6, Zenon
  <1>5. CASE c.op = "Signal"
    <2>. DEFINE v == record_signal(t, p, tick)
                e == from_metadata(NoMeta, tick, cclock = tick, cclock)
    <2>1. v \in TreeType /\ CountersExact(v)
      BY <1>1, <1>2, RecordSignalOK
    <2>2. u = RootState(r.ticks, v, r.jj_events, r.oldest_available_tick)
      BY <1>5 DEF apply_one
    <2>3. e \in Entry /\ e.oclock = tick
      BY <1>3, Zenon DEF from_metadata, Entry
    <2>4. v.entries = [t.entries EXCEPT ![p] = e]
      BY DEF record_signal, insert
    <2>. HIDE DEF v, e
    <2>5. contains(v, p) /\ v.entries[p].oclock = tick
          /\ \A q \in Paths \ {p} : v.entries[q] = t.entries[q]
      BY <1>1, <1>2, <2>3, <2>4, TreeAssumption, Zenon DEF contains
    <2>. QED  BY <1>0, <1>5, <2>1, <2>2, <2>5, Zenon
  <1>6. CASE c.op = "Remove"
    <2>. DEFINE g == gone(t.entries[p].meta, tick, t.entries[p].cclock)
    <2>1. known => g \in Entry /\ g.oclock = tick
      BY <1>1, <1>2, Zenon DEF contains, gone, Entry
    <2>2. missing(tick) \in Entry /\ missing(tick).oclock = tick
      BY DEF missing, gone, Entry
    <2>3. CASE known
      <3>. DEFINE v == mark_gone(t, p, tick)
      <3>1. v \in TreeType /\ CountersExact(v)
        BY <1>1, <1>2, MarkGoneOK, Zenon
      <3>2. u = RootState(r.ticks, v, r.jj_events, r.oldest_available_tick)
        BY <1>6, <2>3, Zenon DEF apply_one, record_gone
      <3>3. v.entries = [t.entries EXCEPT ![p] = g]
        BY <2>3, Zenon DEF mark_gone, insert
      <3>. HIDE DEF v, g
      <3>4. contains(v, p) /\ v.entries[p].oclock = tick
            /\ \A q \in Paths \ {p} : v.entries[q] = t.entries[q]
        BY <1>1, <1>2, <2>1, <2>3, <3>3, TreeAssumption, Zenon DEF contains
      <3>. QED  BY <1>0, <2>3, <3>1, <3>2, <3>4, Zenon
    <2>4. CASE ~known /\ r.jj_events
      <3>. DEFINE v == record_gone(t, p, tick)
      <3>1. v \in TreeType /\ CountersExact(v)
        BY <1>1, <1>2, RecordGoneOK, Zenon
      <3>2. u = RootState(r.ticks, v, r.jj_events, r.oldest_available_tick)
        BY <1>6, <2>4 DEF apply_one
      <3>3. v.entries = [t.entries EXCEPT ![p] = missing(tick)]
        BY <2>4, Zenon DEF record_gone, insert
      <3>. HIDE DEF v
      <3>4. contains(v, p) /\ v.entries[p].oclock = tick
            /\ \A q \in Paths \ {p} : v.entries[q] = t.entries[q]
        BY <1>1, <1>2, <2>2, <3>3, TreeAssumption, Zenon DEF contains
      <3>. QED  BY <1>0, <2>4, <3>1, <3>2, <3>4, Zenon
    <2>5. CASE ~known /\ ~r.jj_events
      <3>1. u = RootState(r.ticks, t, r.jj_events, r.oldest_available_tick)
        BY <1>6, <2>5, Zenon DEF apply_one, mark_gone
      <3>. QED  BY <1>0, <1>2, <1>6, <2>5, <3>1, Zenon
    <2>. QED  BY <2>3, <2>4, <2>5, Zenon
  <1>. QED  BY <1>1, <1>4, <1>5, <1>6, Zenon

\* Nothing is in an empty index.
LEMMA EmptyFacts == \A p \in Paths : ~contains(EmptyTree, p)
  BY DEF EmptyTree, contains

\* The start of a batch takes the next tick; at its cap the jj index is
\* dropped, and then says that it only answers from that tick on.
LEMMA ApplyBeginOK ==
    ASSUME NEW r \in RootType, CountersExact(r.tree), NEW full \in BOOLEAN,
           NEW u, u = apply_begin(r, full)
    PROVE  /\ u \in RootType /\ CountersExact(u.tree)
           /\ u.ticks = r.ticks + 1 /\ u.jj_events = r.jj_events
           /\ \/ u.tree = r.tree /\ u.oldest_available_tick = r.oldest_available_tick
              \/ /\ \A p \in Paths : ~contains(u.tree, p)
                 /\ u.oldest_available_tick = r.ticks + 1
  <1>1. CASE u = bump(r)
    BY <1>1 DEF bump, RootState, RootType
  <1>2. CASE r.jj_events /\ u = RootState(r.ticks + 1, EmptyTree, TRUE, r.ticks + 1)
    BY <1>2, EmptyTreeOK, EmptyFacts DEF RootState, RootType
  <1>. QED  BY <1>1, <1>2, Zenon DEF apply_begin

\* An invalidation drops the jj index the same way.
LEMMA InvalidateOK ==
    ASSUME NEW r \in RootType, r.jj_events,
           NEW u, u = invalidate_jj_events(r)
    PROVE  /\ u \in RootType /\ CountersExact(u.tree)
           /\ u.ticks = r.ticks + 1 /\ u.jj_events
           /\ u.oldest_available_tick = r.ticks + 1
           /\ \A p \in Paths : ~contains(u.tree, p)
  BY EmptyTreeOK, EmptyFacts DEF invalidate_jj_events, RootState, RootType

\* A recrawl replaces the tree at the next tick and keeps the rest.
LEMMA SeedOK ==
    ASSUME NEW r \in RootType, NEW scan \in Scans, NEW u, u = seed(r, scan)
    PROVE  /\ u \in RootType /\ CountersExact(u.tree)
           /\ u.ticks = r.ticks + 1 /\ u.jj_events = r.jj_events
           /\ u.oldest_available_tick = r.oldest_available_tick
           /\ \A p \in Paths :
                 /\ contains(u.tree, p) <=> p \in DOMAIN scan
                 /\ p \in DOMAIN scan => u.tree.entries[p].oclock = r.ticks + 1
  <1>. DEFINE t == Crawled(scan, r.ticks + 1)
  <1>1. r.ticks + 1 \in Nat
    BY RootFacts
  <1>2. /\ t \in TreeType /\ CountersExact(t)
        /\ \A p \in Paths : /\ contains(t, p) <=> p \in DOMAIN scan
                            /\ p \in DOMAIN scan => t.entries[p].oclock = r.ticks + 1
    BY <1>1, CrawledOK, Zenon
  <1>. HIDE DEF t
  <1>3. u = RootState(r.ticks + 1, t, r.jj_events, r.oldest_available_tick)
    BY DEF seed, t
  <1>4. u.tree = t /\ u \in RootType /\ u.ticks = r.ticks + 1
        /\ u.jj_events = r.jj_events
        /\ u.oldest_available_tick = r.oldest_available_tick
    BY <1>1, <1>2, <1>3 DEF RootState, RootType
  <1>. QED  BY <1>2, <1>4

\* Root u is r with the crawl `scan` for its index and no past.
Promoted(r, scan, u) ==
    /\ u \in RootType /\ CountersExact(u.tree)
    /\ u.ticks = r.ticks + 1 /\ u.jj_events = FALSE
    /\ u.oldest_available_tick = r.ticks + 1
    /\ \A p \in Paths :
          /\ contains(u.tree, p) <=> p \in DOMAIN scan
          /\ p \in DOMAIN scan => u.tree.entries[p].oclock = r.ticks + 1

\* A promotion does that too, ends the jj index, and answers only from the
\* crawl's tick on.
LEMMA PromoteOK ==
    ASSUME NEW r \in RootType, r.jj_events, NEW scan \in Scans,
           NEW u, u = promote_to_full(r, scan)
    PROVE  Promoted(r, scan, u)
  <1>. DEFINE t == Crawled(scan, r.ticks + 1)
  <1>1. r.ticks + 1 \in Nat
    BY RootFacts
  <1>2. /\ t \in TreeType /\ CountersExact(t)
        /\ \A p \in Paths : /\ contains(t, p) <=> p \in DOMAIN scan
                            /\ p \in DOMAIN scan => t.entries[p].oclock = r.ticks + 1
    BY <1>1, CrawledOK, Zenon
  <1>. HIDE DEF t
  <1>3. u = RootState(r.ticks + 1, t, FALSE, r.ticks + 1)
    BY DEF promote_to_full, t
  <1>4. u.tree = t /\ u \in RootType /\ u.ticks = r.ticks + 1
        /\ u.jj_events = FALSE /\ u.oldest_available_tick = r.ticks + 1
    BY <1>1, <1>2, <1>3 DEF RootState, RootType
  <1>. QED  BY <1>2, <1>4, Zenon DEF Promoted

\* Root u is r without its prunable tombstones.
Pruned(r, w, u) ==
    /\ u \in RootType /\ CountersExact(u.tree)
    /\ u.ticks = r.ticks /\ u.jj_events = r.jj_events
    /\ u.oldest_available_tick = r.oldest_available_tick
    /\ \A p \in Paths :
          IF p \in Prunable(r.tree, w)
          THEN ~contains(u.tree, p) /\ r.tree.entries[p].oclock <= w
          ELSE u.tree.entries[p] = r.tree.entries[p]

\* A sweep drops the tombstones up to its watermark and nothing else.
LEMMA PruneRootOK ==
    ASSUME NEW r \in RootType, CountersExact(r.tree), NEW w \in Nat,
           NEW u, u = prune(r, w)
    PROVE  Pruned(r, w, u)
  <1>. DEFINE v == prune_tombstones_before(r.tree, w)
  <1>1. r.tree \in TreeType
    BY RootFacts
  <1>2. v \in TreeType /\ CountersExact(v)
    BY <1>1, PruneOK
  <1>3. \A p \in Paths : IF p \in Prunable(r.tree, w)
                         THEN ~contains(v, p) /\ r.tree.entries[p].oclock <= w
                         ELSE v.entries[p] = r.tree.entries[p]
    <2>1. CASE r.tree.tombstones = 0
      <3>1. Tombs(r.tree) = {}
        BY <2>1, CountedFinite, FS_EmptySet, Zenon DEF CountersExact
      <3>2. Prunable(r.tree, w) = {}
        BY <3>1 DEF Prunable
      <3>. QED  BY <2>1, <3>2, Zenon DEF prune_tombstones_before
    <2>2. CASE r.tree.tombstones # 0
      BY <2>2, Zenon DEF prune_tombstones_before, Prunable, contains
    <2>. QED  BY <2>1, <2>2, Zenon
  <1>. HIDE DEF v
  <1>4. u = RootState(r.ticks, v, r.jj_events, r.oldest_available_tick)
    BY DEF prune, v
  <1>5. u.tree = v /\ u \in RootType /\ u.ticks = r.ticks /\ u.jj_events = r.jj_events
        /\ u.oldest_available_tick = r.oldest_available_tick
    BY <1>2, <1>4 DEF RootState, RootType
  <1>. QED  BY <1>2, <1>3, <1>5, Zenon DEF Pruned

=============================================================================
