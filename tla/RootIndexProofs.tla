-------------------------- MODULE RootIndexProofs --------------------------
(***************************************************************************)
(* RootIndex for every set of paths, threads and cursors and every bound   *)
(* on the clock: its invariants, from the inductive invariant IInv.  First *)
(* the steps that write the index, then cursor queries and sweeps; last,   *)
(* Query.                                                                  *)
(***************************************************************************)
EXTENDS RootIndex, Query, RootProofs

\* The types the steps below use.
LEMMA TypeFacts ==
    ASSUME TypeOK
    PROVE  /\ root \in RootType /\ root.ticks \in Nat /\ root.oldest_available_tick \in Nat
           /\ writer \in Nat
           /\ \A c \in Cursors : cursors[c] \in Nat /\ owed[c] \subseteq Paths
           /\ \A t \in Procs : /\ name[t] \in Cursors /\ cursor[t] \in Nat
                               /\ ans[t].clock \in Nat
           /\ \A p \in Paths : stamp[p] \in Nat
  BY RootFacts, Zenon DEF TypeOK

\* Every cursor, watermark and answer is older than the next tick.
LEMMA Outdated ==
    ASSUME IInv
    PROVE  /\ \A c \in Cursors : cursors[c] < root.ticks + 1 /\ cursors[c] <= root.ticks + 1
           /\ \A t \in Procs : /\ cursor[t] < root.ticks + 1 /\ cursor[t] <= root.ticks + 1
                               /\ ans[t].clock <= root.ticks + 1
           /\ root.ticks + 1 \in Nat /\ root.ticks + 1 > 0
           /\ root.oldest_available_tick <= root.ticks + 1
  <1>1. TypeOK /\ ClockBounds
    BY Zenon DEF IInv
  <1>. QED  BY <1>1, TypeFacts, Z3 DEF ClockBounds

\* The start of a batch (apply_changes) keeps the invariant: its tick is
\* newer than everything handed out so far.
LEMMA ApplyBeginStep ==
    ASSUME IInv, NEW b \in BOOLEAN, ApplyBegin(b)
    PROVE  IInv'
  <1>1. /\ root' \in RootType /\ CountersExact(root'.tree)
        /\ root'.ticks = root.ticks + 1 /\ root'.jj_events = root.jj_events
        /\ \/ /\ root'.tree = root.tree
              /\ root'.oldest_available_tick = root.oldest_available_tick
           \/ /\ \A p \in Paths : ~contains(root'.tree, p)
              /\ root'.oldest_available_tick = root.ticks + 1
    BY ApplyBeginOK, Zenon DEF IInv, TypeOK, TreeCounters, ApplyBegin
  <1>2. root \in RootType /\ root.ticks \in Nat /\ root.oldest_available_tick \in Nat
        /\ root'.oldest_available_tick \in Nat
    BY <1>1, RootFacts, Zenon DEF IInv, TypeOK
  <1>3. writer' = root.ticks + 1 /\ readers = {} /\ writer = Idle
        /\ UNCHANGED <<cursors, threads, history>>
    BY Zenon DEF ApplyBegin, CanWrite
  <1>4. TypeOK'
    BY <1>1, <1>2, <1>3, Z3 DEF IInv, TypeOK, threads, history
  <1>5. StampInv'
    BY <1>1, <1>2, <1>3 DEF IInv, TypeOK, StampInv, history
  <1>6. ClockBounds'
    BY <1>1, <1>2, <1>3 DEF IInv, TypeOK, ClockBounds, threads, history
  <1>7. WriterInv'
    BY <1>1, <1>2, <1>3 DEF IInv, TypeOK, ClockBounds, WriterInv, readers, threads
  <1>8. SweepInv' /\ JjKeepsAll'
    BY <1>1, <1>3, Zenon DEF IInv, SweepInv, JjKeepsAll, threads, history
  <1>9. CursorNoLoss'
    BY <1>1, <1>2, <1>3, Z3 DEF IInv, TypeOK, ClockBounds, CursorNoLoss, threads, history
  <1>10. ResetInv'
    BY <1>1, <1>2, <1>3, Z3 DEF IInv, TypeOK, ClockBounds, ResetInv, readers, threads
  <1>11. OwedInv'
    BY <1>1, <1>2, <1>3, Z3 DEF IInv, TypeOK, ClockBounds, OwedInv, Newer, readers, threads, history
  <1>. QED  BY <1>1, <1>4, <1>5, <1>6, <1>7, <1>8, <1>9, <1>10, <1>11, Zenon DEF IInv, TreeCounters

\* One change of a batch keeps it: the batch's tick is newer than every cursor
\* and every watermark that counts.
LEMMA ApplyOneStep ==
    ASSUME IInv, NEW c \in PathChange, ApplyOne(c)
    PROVE  IInv'
  <1>1. /\ root' \in RootType /\ CountersExact(root'.tree)
        /\ root'.ticks = root.ticks /\ root'.jj_events = root.jj_events
        /\ root'.oldest_available_tick = root.oldest_available_tick
        /\ c.path \in Paths
        /\ \A q \in Paths \ {c.path} : root'.tree.entries[q] = root.tree.entries[q]
        /\ IF Recorded(c)
           THEN contains(root'.tree, c.path) /\ root'.tree.entries[c.path].oclock = writer
           ELSE root'.tree = root.tree
    <2>1. root \in RootType /\ CountersExact(root.tree) /\ writer \in Nat
          /\ root' = apply_one(root, writer, c)
      BY Zenon DEF IInv, TypeOK, TreeCounters, ApplyOne
    <2>2. Changed(root, writer, c, root')
      BY <2>1, ApplyOneOK, Zenon
    <2>. QED  BY <2>2, Zenon DEF Changed, Recorded
  <1>2. root \in RootType /\ root.ticks \in Nat /\ root.oldest_available_tick \in Nat
    BY RootFacts, Zenon DEF IInv, TypeOK
  <1>3. writer # Idle /\ UNCHANGED <<cursors, writer, threads>>
    BY Zenon DEF ApplyOne
  <1>4. CASE ~Recorded(c)
    <2>1. root' = root
      BY <1>1, <1>4, Z3 DEF IInv, TypeOK, RootType
    <2>2. UNCHANGED history
      BY <1>4, Zenon DEF ApplyOne
    <2>. QED
      BY <1>3, <2>1, <2>2, ZenonT(40) DEF IInv, TypeOK, TreeCounters, StampInv, ClockBounds, WriterInv,
           SweepInv, JjKeepsAll, CursorNoLoss, ResetInv, OwedInv, Newer, Baseline, readers,
           threads, history
  <1>5. CASE Recorded(c)
    <2>1. /\ stamp' = [stamp EXCEPT ![c.path] = writer]
          /\ pruned' = pruned \ {c.path}
          /\ crawled' = crawled \ {c.path}
          /\ owed' = [d \in Cursors |-> IF cursors[d] > 0
                                        THEN owed[d] \cup {c.path} ELSE owed[d]]
      BY <1>5, Zenon DEF ApplyOne
    <2>2. contains(root'.tree, c.path) /\ root'.tree.entries[c.path].oclock = writer
      BY <1>1, <1>5, Zenon
    <2>3. \A q \in Paths \ {c.path} :
             /\ contains(root'.tree, q) <=> contains(root.tree, q)
             /\ root'.tree.entries[q].oclock = root.tree.entries[q].oclock
      BY <1>1, Zenon DEF contains
    <2>4. TypeOK'
      BY <1>1, <1>3, <2>1, Zenon DEF IInv, TypeOK, threads
    <2>5. StampInv'
      BY <1>1, <1>2, <2>1, <2>2, <2>3, Zenon DEF IInv, TypeOK, ClockBounds, StampInv
    <2>6. ClockBounds' /\ WriterInv' /\ SweepInv' /\ JjKeepsAll' /\ ResetInv'
      BY <1>1, <1>3, <2>1, Zenon DEF IInv, ClockBounds, WriterInv, SweepInv, JjKeepsAll,
           ResetInv, readers, threads
    <2>7. CursorNoLoss'
      BY <1>1, <1>2, <1>3, <2>1, <2>2, <2>3, Zenon DEF IInv, TypeOK, WriterInv, CursorNoLoss
    <2>8. OwedInv'
      <3>1. \A d \in Cursors : cursors'[d] = 0 => owed'[d] = {}
        BY <1>3, <2>1 DEF IInv, TypeOK, OwedInv
      <3>2. \A t \in Procs : pc'[t] # "finish"
        BY <1>3, Zenon DEF IInv, WriterInv, readers, threads
      <3>3. ASSUME NEW d \in Cursors, NEW t \in Procs, pc[t] = "read", name[t] = d,
                   NEW p \in owed'[d] \ crawled'
            PROVE  Newer(p, cursor[t])' \/ cursor'[t] < root'.oldest_available_tick
        <4>1. CASE p = c.path
          BY <1>3, <2>2, <3>3, <4>1, Zenon DEF IInv, TypeOK, WriterInv, Newer, threads
        <4>2. CASE p # c.path
          <5>1. p \in owed[d] \ crawled /\ p \in Paths
            BY <2>1, <4>2, Zenon DEF IInv, TypeOK
          <5>. QED  BY <1>1, <1>3, <2>3, <3>3, <4>2, <5>1, Zenon DEF IInv, OwedInv, Newer, threads
        <4>. QED  BY <4>1, <4>2, Zenon
      <3>4. ASSUME NEW d \in Cursors, NEW t \in Procs, pc[t] = "prune",
                   NEW p \in owed'[d] \ crawled'
            PROVE  Newer(p, cursor[t])' \/ cursors'[d] < root'.oldest_available_tick
        <4>1. CASE p = c.path
          <5>1. cursors[d] > 0
            BY <2>1, <3>4, <4>1 DEF IInv, TypeOK, OwedInv
          <5>. QED  BY <1>3, <2>2, <3>4, <4>1, <5>1, Zenon DEF IInv, TypeOK, WriterInv, Newer, threads
        <4>2. CASE p # c.path
          <5>1. p \in owed[d] \ crawled /\ p \in Paths
            BY <2>1, <4>2, Zenon DEF IInv, TypeOK
          <5>. QED  BY <1>1, <1>3, <2>3, <3>4, <4>2, <5>1, Zenon DEF IInv, OwedInv, Newer, threads
        <4>. QED  BY <4>1, <4>2, Zenon
      <3>. QED  BY <1>3, <3>1, <3>2, <3>3, <3>4, Zenon DEF OwedInv, threads
    <2>. QED  BY <1>1, <2>4, <2>5, <2>6, <2>7, <2>8, Zenon DEF IInv, TreeCounters
  <1>. QED  BY <1>4, <1>5, Zenon

\* Releasing the write lock, or bumping the clock without it, changes nothing
\* the invariant can lose.
LEMMA ApplyEndStep ==
    ASSUME IInv, ApplyEnd
    PROVE  IInv'
  <1>1. writer' = Idle /\ UNCHANGED <<root, cursors, threads, history>>
    BY Zenon DEF ApplyEnd
  <1>2. TypeOK' /\ TreeCounters' /\ StampInv' /\ ClockBounds' /\ WriterInv'
    BY <1>1, Z3 DEF IInv, TypeOK, TreeCounters, StampInv, ClockBounds, WriterInv, threads,
         history, Idle, RootType
  <1>3. SweepInv' /\ JjKeepsAll' /\ CursorNoLoss' /\ ResetInv'
    BY <1>1, Zenon DEF IInv, SweepInv, JjKeepsAll, CursorNoLoss, ResetInv, threads, history
  <1>4. OwedInv'
    BY <1>1, Zenon DEF IInv, OwedInv, Newer, Baseline, threads, history
  <1>. QED  BY <1>2, <1>3, <1>4 DEF IInv

\* A clock command only moves the clock on: everything handed out is still older.
LEMMA ClockBumpStep ==
    ASSUME IInv, ClockBump
    PROVE  IInv'
  <1>1. /\ root' \in RootType /\ root'.tree = root.tree
        /\ root'.ticks = root.ticks + 1 /\ root'.jj_events = root.jj_events
        /\ root'.oldest_available_tick = root.oldest_available_tick
        /\ UNCHANGED <<cursors, writer, threads, history>>
    BY Z3 DEF IInv, TypeOK, ClockBump, bump, RootState, RootType
  <1>2. root.ticks \in Nat /\ root.oldest_available_tick \in Nat
    BY RootFacts, Zenon DEF IInv, TypeOK
  <1>3. TypeOK' /\ TreeCounters' /\ StampInv' /\ ClockBounds' /\ WriterInv'
    <2>1. TypeOK' /\ TreeCounters' /\ WriterInv'
      BY <1>1, Zenon DEF IInv, TypeOK, TreeCounters, WriterInv, readers, threads, history
    <2>2. StampInv'
      BY <1>1, <1>2, Z3 DEF IInv, TypeOK, StampInv, history
    <2>3. ClockBounds'
      BY <1>1, <1>2, Z3 DEF IInv, TypeOK, ClockBounds, threads
    <2>. QED  BY <2>1, <2>2, <2>3, Zenon
  <1>4. SweepInv' /\ JjKeepsAll' /\ CursorNoLoss' /\ ResetInv'
    BY <1>1, Zenon DEF IInv, SweepInv, JjKeepsAll, CursorNoLoss, ResetInv, threads, history
  <1>5. OwedInv'
    BY <1>1, Zenon DEF IInv, OwedInv, Newer, Baseline, threads, history
  <1>. QED  BY <1>3, <1>4, <1>5 DEF IInv

\* A reset of the jj index keeps it: the index then answers only from a tick
\* newer than every cursor and every clock handed out.
LEMMA InvalidateStep ==
    ASSUME IInv, Invalidate
    PROVE  IInv'
  <1>1. /\ root' \in RootType /\ CountersExact(root'.tree)
        /\ root'.ticks = root.ticks + 1 /\ root'.jj_events
        /\ root'.oldest_available_tick = root.ticks + 1
        /\ \A p \in Paths : ~contains(root'.tree, p)
    BY InvalidateOK, Zenon DEF IInv, TypeOK, Invalidate
  <1>2. root.ticks \in Nat /\ root.oldest_available_tick \in Nat
    BY RootFacts, Zenon DEF IInv, TypeOK
  <1>3. root.jj_events /\ readers = {} /\ writer = Idle
        /\ UNCHANGED <<cursors, writer, threads, history>>
    BY Zenon DEF Invalidate, CanWrite
  <1>4. TypeOK' /\ TreeCounters'
    BY <1>1, <1>3, Zenon DEF IInv, TypeOK, TreeCounters, threads, history
  <1>5. StampInv' /\ ClockBounds'
    BY <1>1, <1>2, <1>3, Z3 DEF IInv, TypeOK, StampInv, ClockBounds, threads, history
  <1>6. WriterInv' /\ SweepInv' /\ JjKeepsAll'
    BY <1>1, <1>3, Zenon DEF IInv, WriterInv, SweepInv, JjKeepsAll, threads, history
  <1>7. CursorNoLoss' /\ ResetInv'
    BY <1>1, <1>3, Outdated, Zenon DEF CursorNoLoss, ResetInv, readers, threads, history
  <1>8. OwedInv'
    BY <1>1, <1>3, Outdated, Zenon DEF IInv, OwedInv, readers, threads, history
  <1>. QED  BY <1>4, <1>5, <1>6, <1>7, <1>8, Zenon DEF IInv

\* A promotion keeps it for the same reason.
LEMMA PromoteStep ==
    ASSUME IInv, NEW scan \in Scans, Promote(scan)
    PROVE  IInv'
  <1>1. /\ root' \in RootType /\ CountersExact(root'.tree)
        /\ root'.ticks = root.ticks + 1 /\ root'.jj_events = FALSE
        /\ root'.oldest_available_tick = root.ticks + 1
        /\ \A p \in Paths :
              /\ contains(root'.tree, p) <=> p \in DOMAIN scan
              /\ p \in DOMAIN scan => root'.tree.entries[p].oclock = root.ticks + 1
    <2>1. root \in RootType /\ root.jj_events /\ root' = promote_to_full(root, scan)
      BY Zenon DEF IInv, TypeOK, Promote
    <2>2. Promoted(root, scan, root')
      BY <2>1, PromoteOK, Zenon
    <2>. QED  BY <2>2, Zenon DEF Promoted
  <1>2. root.ticks \in Nat /\ root.oldest_available_tick \in Nat
    BY RootFacts, Zenon DEF IInv, TypeOK
  <1>3. root.jj_events /\ readers = {} /\ writer = Idle
        /\ stamp' = [p \in Paths |-> IF p \in DOMAIN scan THEN root.ticks + 1 ELSE stamp[p]]
        /\ UNCHANGED <<cursors, writer, threads, pruned, crawled, owed>>
    BY Zenon DEF Promote, CanWrite, Restamp
  <1>4. TypeOK' /\ TreeCounters'
    <2>1. stamp' \in [Paths -> Nat]
      BY <1>3, Outdated, Zenon DEF IInv, TypeOK
    <2>. QED  BY <1>1, <1>3, <2>1, Zenon DEF IInv, TypeOK, TreeCounters, threads
  <1>5. StampInv'
    <2>1. \A p \in Paths : stamp[p] <= root.ticks /\ stamp[p] \in Nat
      BY Zenon DEF IInv, TypeOK, StampInv
    <2>. QED  BY <1>1, <1>2, <1>3, <2>1, Z3 DEF StampInv
  <1>6. ClockBounds'
    <2>1. 0 <= root.ticks + 1 /\ root.ticks + 1 <= root.ticks + 1
      BY <1>2, Z3
    <2>. QED  BY <1>1, <1>3, <2>1, Outdated, Zenon DEF IInv, ClockBounds, threads, Idle
  <1>7. WriterInv' /\ SweepInv' /\ JjKeepsAll'
    BY <1>1, <1>3, Zenon DEF IInv, WriterInv, SweepInv, JjKeepsAll, threads
  <1>8. CursorNoLoss'
    BY <1>1, <1>3, Outdated, Zenon DEF CursorNoLoss
  <1>9. ResetInv'
    BY <1>1, <1>3, Outdated, Zenon DEF ResetInv, readers, threads
  <1>10. OwedInv'
    BY <1>1, <1>3, Outdated, Zenon DEF IInv, OwedInv, readers, threads
  <1>. QED  BY <1>4, <1>5, <1>6, <1>7, <1>8, <1>9, <1>10, Zenon DEF IInv

\* A recrawl keeps it: what it finds carries a new tick, and what it does not
\* find is crawled away.
LEMMA RecrawlStep ==
    ASSUME IInv, NEW scan \in Scans, Recrawl(scan)
    PROVE  IInv'
  <1>1. /\ root' \in RootType /\ CountersExact(root'.tree)
        /\ root'.ticks = root.ticks + 1 /\ root'.jj_events = root.jj_events
        /\ root'.oldest_available_tick = root.oldest_available_tick
        /\ \A p \in Paths :
              /\ contains(root'.tree, p) <=> p \in DOMAIN scan
              /\ p \in DOMAIN scan => root'.tree.entries[p].oclock = root.ticks + 1
    <2>1. root \in RootType /\ root' = seed(root, scan)
      BY Zenon DEF IInv, TypeOK, Recrawl
    <2>. QED  BY <2>1, SeedOK, Zenon
  <1>2. root.ticks \in Nat /\ root.oldest_available_tick \in Nat
    BY RootFacts, Zenon DEF IInv, TypeOK
  <1>3. ~root.jj_events /\ readers = {} /\ writer = Idle
        /\ stamp' = [p \in Paths |-> IF p \in DOMAIN scan THEN root.ticks + 1 ELSE stamp[p]]
        /\ UNCHANGED <<cursors, writer, threads, owed>>
        /\ pruned' = pruned \ DOMAIN scan
    BY Zenon DEF Recrawl, CanWrite, Restamp
  <1>4. \A p \in Paths : p \in crawled' <=> p \notin DOMAIN scan
                                            /\ (p \in crawled \/ contains(root.tree, p))
    BY Zenon DEF Recrawl, Vanished, Known
  <1>5. TypeOK' /\ TreeCounters'
    <2>1. crawled' \in SUBSET Paths /\ pruned' \in SUBSET Paths
      BY <1>3, Zenon DEF IInv, TypeOK, Recrawl, Vanished, Known
    <2>2. stamp' \in [Paths -> Nat]
      BY <1>3, Outdated, Zenon DEF IInv, TypeOK
    <2>. QED  BY <1>1, <1>3, <2>1, <2>2, Zenon DEF IInv, TypeOK, TreeCounters, threads
  <1>6. StampInv'
    <2>1. \A p \in Paths : stamp[p] <= root.ticks /\ stamp[p] \in Nat
      BY Zenon DEF IInv, TypeOK, StampInv
    <2>2. \A p \in Paths : ~contains(root.tree, p) =>
             stamp[p] <= root.oldest_available_tick \/ p \in pruned \cup crawled
      BY Zenon DEF IInv, StampInv
    <2>. QED  BY <1>1, <1>2, <1>3, <1>4, <2>1, <2>2, Z3 DEF StampInv
  <1>7. ClockBounds' /\ WriterInv' /\ SweepInv' /\ JjKeepsAll' /\ ResetInv'
    <2>1. 0 <= root.ticks + 1
      BY <1>2, Z3
    <2>2. ClockBounds'
      BY <1>1, <1>3, <2>1, Outdated, Zenon DEF IInv, ClockBounds, threads, Idle
    <2>. QED  BY <1>1, <1>3, <2>2, Zenon DEF IInv, WriterInv, SweepInv, JjKeepsAll, ResetInv, threads
  <1>8. ASSUME NEW c \in Cursors, NEW p \in owed[c] \ crawled'
        PROVE  /\ p \in Paths
               /\ \/ contains(root'.tree, p) /\ root'.tree.entries[p].oclock = root.ticks + 1
                  \/ p \notin crawled /\ ~contains(root.tree, p)
    BY <1>1, <1>4, <1>8, Zenon DEF IInv, TypeOK
  <1>9. CursorNoLoss'
    <2>1. ASSUME NEW c \in Cursors, NEW p \in owed[c] \ crawled'
          PROVE  \/ contains(root'.tree, p) /\ root'.tree.entries[p].oclock > cursors[c]
                 \/ cursors[c] < root.oldest_available_tick
      <3>1. cursors[c] \in Nat /\ cursors[c] < root.ticks + 1
        BY Outdated, Zenon DEF IInv, TypeOK
      <3>2. p \notin crawled /\ ~contains(root.tree, p) => cursors[c] < root.oldest_available_tick
        BY <2>1, Zenon DEF IInv, CursorNoLoss
      <3>. QED  BY <1>2, <1>8, <2>1, <3>1, <3>2, Zenon
    <2>. QED  BY <1>1, <1>3, <2>1, Zenon DEF CursorNoLoss
  <1>10. OwedInv'
    <2>1. \A t \in Procs : pc[t] # "finish"
      BY <1>3, Zenon DEF readers
    <2>2. ASSUME NEW c \in Cursors, NEW t \in Procs, NEW p \in owed[c] \ crawled'
          PROVE  /\ pc[t] = "read" /\ name[t] = c =>
                       Newer(p, cursor[t])' \/ cursor[t] < root.oldest_available_tick
                 /\ pc[t] = "prune" =>
                       Newer(p, cursor[t])' \/ cursors[c] < root.oldest_available_tick
      <3>1. CASE contains(root'.tree, p) /\ root'.tree.entries[p].oclock = root.ticks + 1
        <4>1. cursor[t] \in Nat /\ cursor[t] < root.ticks + 1 /\ cursor'[t] = cursor[t]
          BY <1>3, Outdated, Zenon DEF IInv, TypeOK, threads
        <4>. QED  BY <1>2, <3>1, <4>1, Zenon DEF Newer
      <3>2. CASE p \notin crawled /\ ~contains(root.tree, p)
        BY <2>2, <3>2, Zenon DEF IInv, OwedInv, Newer
      <3>. QED  BY <1>8, <2>2, <3>1, <3>2, Zenon
    <2>. QED  BY <1>1, <1>3, <2>1, <2>2, Zenon DEF IInv, OwedInv, threads
  <1>. QED  BY <1>5, <1>6, <1>7, <1>9, <1>10, Zenon DEF IInv

-----------------------------------------------------------------------------

\* A fresh root satisfies it.
LEMMA InitOK == Init => IInv
  <1>. SUFFICES ASSUME Init PROVE IInv
    OBVIOUS
  <1>1. PICK mode \in BOOLEAN, scan \in Scans :
            /\ root = seed(RootNew(mode), scan)
            /\ stamp = [p \in Paths |-> IF p \in DOMAIN scan THEN 2 ELSE 0]
    BY Zenon DEF Init
  <1>2. RootNew(mode) \in RootType /\ RootNew(mode).ticks = 1
        /\ RootNew(mode).oldest_available_tick = 0
    BY EmptyTreeOK, Zenon DEF RootNew, RootState, RootType
  <1>3. /\ root \in RootType /\ CountersExact(root.tree)
        /\ root.ticks = 2 /\ root.oldest_available_tick = 0
        /\ \A p \in Paths : /\ contains(root.tree, p) <=> p \in DOMAIN scan
                            /\ p \in DOMAIN scan => root.tree.entries[p].oclock = 2
    BY <1>1, <1>2, SeedOK
  <1>4. TypeOK
    BY <1>1, <1>3, Zenon DEF Init, TypeOK, NoAnswer, Idle
  <1>5. StampInv
    BY <1>1, <1>3 DEF StampInv
  <1>6. ClockBounds /\ WriterInv /\ SweepInv /\ JjKeepsAll /\ ResetInv
    BY <1>3 DEF Init, ClockBounds, WriterInv, SweepInv, JjKeepsAll, ResetInv, NoAnswer, Idle
  <1>7. CursorNoLoss /\ OwedInv
    BY Zenon DEF Init, CursorNoLoss, OwedInv
  <1>. QED  BY <1>3, <1>4, <1>5, <1>6, <1>7, Zenon DEF IInv, TreeCounters

\* Resolving a named cursor keeps it: what the cursor is owed, the query is.
LEMMA ResolveStep ==
    ASSUME IInv, NEW t \in Procs, NEW c \in Cursors, resolve_named_cursor(t, c)
    PROVE  IInv'
  <1>1. /\ name' = [name EXCEPT ![t] = c]
        /\ cursor' = [cursor EXCEPT ![t] = cursors[c]]
        /\ pc' = [pc EXCEPT ![t] = "read"]
        /\ pc[t] = "idle"
        /\ UNCHANGED <<root, cursors, writer, ans, stamp, pruned, crawled, owed>>
    BY Zenon DEF resolve_named_cursor, history
  <1>2. root \in RootType /\ root.ticks \in Nat /\ root.oldest_available_tick \in Nat
    BY RootFacts, Zenon DEF IInv, TypeOK
  <1>3. TypeOK' /\ TreeCounters' /\ StampInv'
    BY <1>1, Zenon DEF IInv, TypeOK, TreeCounters, StampInv
  <1>4. ClockBounds'
    BY <1>1, <1>2, Zenon DEF IInv, TypeOK, ClockBounds
  <1>5. WriterInv'
    BY <1>1, <1>2, Zenon DEF IInv, TypeOK, WriterInv, readers
  <1>6. SweepInv' /\ JjKeepsAll' /\ CursorNoLoss' /\ ResetInv'
    BY <1>1, <1>2, Zenon DEF IInv, TypeOK, SweepInv, JjKeepsAll, CursorNoLoss, ResetInv
  <1>7. OwedInv'
    <2>1. /\ \A u \in Procs \ {t} : pc'[u] = pc[u] /\ name'[u] = name[u] /\ cursor'[u] = cursor[u]
          /\ pc'[t] = "read" /\ name'[t] = c /\ cursor'[t] = cursors[c]
      BY <1>1, Zenon DEF IInv, TypeOK
    <2>2. ASSUME NEW d \in Cursors, NEW u \in Procs
          PROVE  /\ pc'[u] = "read" /\ name'[u] = d =>
                       \A p \in owed[d] \ crawled :
                           Newer(p, cursor[u])' \/ cursor'[u] < root.oldest_available_tick
                 /\ pc'[u] = "finish" /\ name'[u] = d =>
                       Baseline(u)' \/ owed[d] \ crawled \subseteq ans[u].files
                 /\ pc'[u] = "prune" =>
                       \A p \in owed[d] \ crawled :
                           Newer(p, cursor[u])' \/ cursors[d] < root.oldest_available_tick
      <3>0. CursorNoLoss /\ OwedInv
        BY Zenon DEF IInv
      <3>1. CASE u = t
        BY <1>1, <2>1, <3>0, <3>1, Z3 DEF CursorNoLoss, Newer
      <3>2. CASE u # t
        BY <1>1, <2>1, <3>0, <3>2, Z3 DEF OwedInv, Newer, Baseline
      <3>. QED  BY <3>1, <3>2, Zenon
    <2>. QED  BY <1>1, <2>2, Zenon DEF IInv, OwedInv
  <1>. QED  BY <1>3, <1>4, <1>5, <1>6, <1>7, Zenon DEF IInv

\* The scan under the read lock keeps it: it reports everything the cursor is
\* owed, or is a new baseline.
LEMMA RunStep ==
    ASSUME IInv, NEW t \in Procs, NEW b \in BOOLEAN, Run(t, b)
    PROVE  IInv'
  <1>. DEFINE a == answer(root, Named(name[t]), cursor[t], b)
  <1>1. /\ ans' = [ans EXCEPT ![t] = a]
        /\ pc' = [pc EXCEPT ![t] = "finish"]
        /\ pc[t] = "read" /\ writer = Idle
        /\ UNCHANGED <<root, cursors, writer, name, cursor, stamp, pruned, crawled, owed>>
    BY Zenon DEF Run, CanRead, history
  <1>2. root \in RootType /\ root.ticks \in Nat /\ root.oldest_available_tick \in Nat
        /\ root.tree \in TreeType /\ name[t] \in Cursors /\ cursor[t] \in Nat
    BY RootFacts, Zenon DEF IInv, TypeOK
  <1>3. a.clock = root.ticks /\ a.fresh \in BOOLEAN /\ a.files \in SUBSET Paths
        /\ a \in [fresh: BOOLEAN, files: SUBSET Paths, clock: Nat]
    <2>1. files(root, Named(name[t]), cursor[t]) \in SUBSET Paths
      BY Zenon DEF files, Known
    <2>2. is_fresh_instance(root, Named(name[t]), cursor[t]) \in BOOLEAN
      BY Zenon DEF is_fresh_instance
    <2>. QED  BY <1>2, <2>1, <2>2, Zenon DEF answer
  <1>4. a.fresh \/ cursor[t] = 0 \/ owed[name[t]] \ crawled \subseteq a.files
    <2>. SUFFICES ASSUME ~a.fresh, cursor[t] # 0, NEW p \in owed[name[t]] \ crawled
                  PROVE  p \in a.files
      OBVIOUS
    <2>1. ~ is_fresh_instance(root, Named(name[t]), cursor[t])
      BY Zenon DEF answer
    <2>2. ~ (cursor[t] < root.oldest_available_tick)
      BY <1>2, <2>1 DEF is_fresh_instance, on_tick_axis, since_tick, Named
    <2>3. Newer(p, cursor[t]) /\ p \in Paths
      BY <1>1, <1>2, <2>2, Zenon DEF IInv, TypeOK, OwedInv
    <2>. QED
      BY <2>1, <2>3, Zenon DEF answer, files, Known, Newer, since_tick, Named
  <1>. HIDE DEF a
  <1>5. TypeOK' /\ TreeCounters' /\ StampInv'
    BY <1>1, <1>3, Zenon DEF IInv, TypeOK, TreeCounters, StampInv
  <1>6. ClockBounds' /\ WriterInv'
    BY <1>1, <1>2, <1>3, Z3 DEF IInv, TypeOK, ClockBounds, WriterInv, readers
  <1>7. SweepInv' /\ JjKeepsAll' /\ CursorNoLoss' /\ ResetInv'
    BY <1>1, <1>2, <1>3, Zenon DEF IInv, TypeOK, ClockBounds, SweepInv, JjKeepsAll,
         CursorNoLoss, ResetInv
  <1>8. OwedInv'
    <2>1. \A u \in Procs : /\ pc'[u] = IF u = t THEN "finish" ELSE pc[u]
                          /\ ans'[u] = IF u = t THEN a ELSE ans[u]
      BY <1>1, Zenon DEF IInv, TypeOK
    <2>2. OwedInv
      BY Zenon DEF IInv
    <2>3. ASSUME NEW d \in Cursors, NEW u \in Procs
          PROVE  /\ pc'[u] = "read" /\ name'[u] = d =>
                       \A p \in owed[d] \ crawled :
                           Newer(p, cursor[u])' \/ cursor'[u] < root.oldest_available_tick
                 /\ pc'[u] = "finish" /\ name'[u] = d =>
                       Baseline(u)' \/ owed[d] \ crawled \subseteq ans'[u].files
                 /\ pc'[u] = "prune" =>
                       \A p \in owed[d] \ crawled :
                           Newer(p, cursor[u])' \/ cursors[d] < root.oldest_available_tick
      <3>1. CASE u = t
        BY <1>1, <1>4, <2>1, <3>1, Z3 DEF Baseline
      <3>2. CASE u # t
        <4>1. /\ pc'[u] = pc[u] /\ cursor'[u] = cursor[u] /\ name'[u] = name[u]
              /\ ans'[u] = ans[u] /\ root' = root
          BY <1>1, <2>1, <3>2, Zenon DEF IInv, TypeOK
        <4>. QED  BY <2>2, <4>1, Zenon DEF OwedInv, Newer, Baseline
      <3>. QED  BY <3>1, <3>2, Zenon
    <2>. QED  BY <1>1, <2>2, <2>3, Zenon DEF OwedInv
  <1>. QED  BY <1>5, <1>6, <1>7, <1>8, Zenon DEF IInv

\* Moving the cursor keeps it: nothing is owed to it any more.
LEMMA FinishStep ==
    ASSUME IInv, NEW t \in Procs, Finish(t)
    PROVE  IInv'
  <1>. DEFINE n == name[t]
  <1>1. /\ cursors' = [cursors EXCEPT ![n] = ans[t].clock]
        /\ owed' = [owed EXCEPT ![n] = IF Baseline(t) THEN {} ELSE owed[n] \ ans[t].files]
        /\ pc' = [pc EXCEPT ![t] = "idle"]
        /\ cursor' = [cursor EXCEPT ![t] = 0]
        /\ ans' = [ans EXCEPT ![t] = NoAnswer]
        /\ pc[t] = "finish"
        /\ UNCHANGED <<root, writer, name, stamp, pruned, crawled>>
    BY Zenon DEF Finish, IInv, TypeOK
  <1>2. root \in RootType /\ root.ticks \in Nat /\ root.oldest_available_tick \in Nat
        /\ n \in Cursors /\ ans[t].clock \in Nat
    BY RootFacts, Zenon DEF IInv, TypeOK
  <1>3. NoAnswer \in [fresh: BOOLEAN, files: SUBSET Paths, clock: Nat] /\ NoAnswer.clock = 0
    BY Zenon DEF NoAnswer
  <1>4. writer = Idle /\ ans[t].clock > 0
    BY <1>1, Zenon DEF IInv, WriterInv, ClockBounds, readers
  <1>5. owed'[n] \ crawled = {} /\ owed'[n] \subseteq owed[n]
    BY <1>1, <1>2, Zenon DEF IInv, TypeOK, OwedInv
  <1>6. /\ \A c \in Cursors \ {n} : cursors'[c] = cursors[c] /\ owed'[c] = owed[c]
        /\ cursors'[n] = ans[t].clock
        /\ \A u \in Procs \ {t} : pc'[u] = pc[u] /\ cursor'[u] = cursor[u] /\ ans'[u] = ans[u]
        /\ pc'[t] = "idle" /\ cursor'[t] = 0 /\ ans'[t].clock = 0
    BY <1>1, <1>2, <1>3, Zenon DEF IInv, TypeOK
  <1>7. TypeOK' /\ TreeCounters' /\ StampInv'
    BY <1>1, <1>2, <1>3, <1>5, Zenon DEF IInv, TypeOK, TreeCounters, StampInv
  <1>8. ClockBounds'
    BY <1>1, <1>2, <1>6, Z3 DEF IInv, TypeOK, ClockBounds
  <1>9. WriterInv' /\ SweepInv' /\ JjKeepsAll'
    BY <1>1, <1>4, <1>6, Zenon DEF IInv, WriterInv, SweepInv, JjKeepsAll
  <1>10. CursorNoLoss'
    BY <1>1, <1>5, <1>6, Zenon DEF IInv, CursorNoLoss
  <1>11. ResetInv'
    BY <1>1, <1>2, <1>6, Z3 DEF IInv, TypeOK, ResetInv
  <1>12. OwedInv'
    <2>. SUFFICES ASSUME NEW c \in Cursors
                  PROVE  /\ cursors'[c] = 0 => owed'[c] = {}
                         /\ \A u \in Procs :
                              /\ pc'[u] = "read" /\ name'[u] = c =>
                                    \A p \in owed'[c] \ crawled' :
                                        Newer(p, cursor[u])' \/ cursor'[u] < root'.oldest_available_tick
                              /\ pc'[u] = "finish" /\ name'[u] = c =>
                                    Baseline(u)' \/ owed'[c] \ crawled' \subseteq ans'[u].files
                              /\ pc'[u] = "prune" =>
                                    \A p \in owed'[c] \ crawled' :
                                        Newer(p, cursor[u])' \/ cursors'[c] < root'.oldest_available_tick
      BY Zenon DEF OwedInv
    <2>1. CASE c = n
      <3>1. cursors'[c] # 0
        BY <1>2, <1>4, <1>6, <2>1, Z3
      <3>. QED  BY <1>1, <1>5, <2>1, <3>1, Zenon
    <2>2. CASE c # n
      <3>1. cursors'[c] = cursors[c] /\ owed'[c] = owed[c]
        BY <1>6, <2>2, Zenon
      <3>2. \A u \in Procs : pc'[u] \in {"read", "finish", "prune"} =>
               /\ pc'[u] = pc[u] /\ cursor'[u] = cursor[u] /\ ans'[u] = ans[u]
               /\ name'[u] = name[u]
        BY <1>1, <1>6, Zenon
      <3>3. root' = root /\ crawled' = crawled /\ OwedInv
        BY <1>1, Zenon DEF IInv
      <3>. QED  BY <3>1, <3>2, <3>3, Z3 DEF OwedInv, Newer, Baseline
    <2>. QED  BY <2>1, <2>2, Zenon
  <1>. QED  BY <1>7, <1>8, <1>9, <1>10, <1>11, <1>12, Zenon DEF IInv

\* A sweep that reads the clock has only that to lose.
LEMMA PruneBeginStep ==
    ASSUME IInv, NEW t \in Procs, PruneBegin(t)
    PROVE  IInv'
  <1>1. /\ cursor' = [cursor EXCEPT ![t] = root.ticks]
        /\ pc' = [pc EXCEPT ![t] = "watermark"]
        /\ pc[t] = "idle" /\ ~root.jj_events
        /\ UNCHANGED <<root, cursors, writer, name, ans, stamp, pruned, crawled, owed>>
    BY Zenon DEF PruneBegin, history
  <1>2. root \in RootType /\ root.ticks \in Nat /\ root.oldest_available_tick \in Nat
    BY RootFacts, Zenon DEF IInv, TypeOK
  <1>3. TypeOK' /\ TreeCounters' /\ StampInv' /\ ClockBounds'
    <2>1. TypeOK' /\ TreeCounters' /\ StampInv'
      BY <1>1, <1>2, Zenon DEF IInv, TypeOK, TreeCounters, StampInv
    <2>2. root.ticks <= root.ticks
      BY <1>2, Z3
    <2>3. ClockBounds'
      BY <1>1, <2>2, Zenon DEF IInv, TypeOK, ClockBounds
    <2>. QED  BY <2>1, <2>3, Zenon
  <1>4. WriterInv' /\ SweepInv' /\ JjKeepsAll' /\ CursorNoLoss' /\ ResetInv'
    BY <1>1, <1>2, Zenon DEF IInv, TypeOK, WriterInv, SweepInv, JjKeepsAll,
         CursorNoLoss, ResetInv, readers
  <1>5. OwedInv'
    <2>1. \A u \in Procs : /\ pc'[u] = IF u = t THEN "watermark" ELSE pc[u]
                          /\ u # t => cursor'[u] = cursor[u]
      BY <1>1, Zenon DEF IInv, TypeOK
    <2>2. OwedInv
      BY Zenon DEF IInv
    <2>. QED  BY <1>1, <2>1, <2>2, Z3 DEF OwedInv, Newer, Baseline
  <1>. QED  BY <1>3, <1>4, <1>5, Zenon DEF IInv

\* Taking the watermark keeps it: it is no newer than any cursor.
LEMMA PruneWatermarkStep ==
    ASSUME IInv, NEW t \in Procs, PruneWatermark(t)
    PROVE  IInv'
  <1>1. PICK w \in Watermarks(cursor[t], cursors) : cursor' = [cursor EXCEPT ![t] = w]
    BY Zenon DEF PruneWatermark
  <1>2. /\ pc' = [pc EXCEPT ![t] = "prune"]
        /\ pc[t] = "watermark"
        /\ UNCHANGED <<root, cursors, writer, name, ans, stamp, pruned, crawled, owed>>
    BY Zenon DEF PruneWatermark, history
  <1>3. root \in RootType /\ root.ticks \in Nat /\ root.oldest_available_tick \in Nat
        /\ cursor[t] \in Nat
    BY RootFacts, Zenon DEF IInv, TypeOK
  <1>4. w \in Nat /\ w <= cursor[t] /\ \A c \in Cursors : cursors[c] > 0 => w <= cursors[c]
    BY <1>3, Z3 DEF Watermarks, CursorTicks, IInv, TypeOK
  <1>5. TypeOK' /\ TreeCounters' /\ StampInv' /\ ClockBounds'
    <2>1. TypeOK' /\ TreeCounters' /\ StampInv'
      BY <1>1, <1>2, <1>4, Zenon DEF IInv, TypeOK, TreeCounters, StampInv
    <2>4. cursor[t] <= root.ticks
      BY Zenon DEF IInv, ClockBounds
    <2>2. w <= root.ticks
      BY <1>3, <1>4, <2>4, Z3
    <2>3. ClockBounds'
      BY <1>1, <1>2, <2>2, Zenon DEF IInv, TypeOK, ClockBounds
    <2>. QED  BY <2>1, <2>3, Zenon
  <1>6. WriterInv'
    BY <1>1, <1>2, <1>3, <1>4, Z3 DEF IInv, TypeOK, WriterInv, readers
  <1>7. SweepInv' /\ JjKeepsAll' /\ CursorNoLoss' /\ ResetInv'
    BY <1>1, <1>2, <1>3, Zenon DEF IInv, TypeOK, SweepInv, JjKeepsAll, CursorNoLoss, ResetInv
  <1>8. ASSUME NEW c \in Cursors, NEW p \in owed[c] \ crawled
        PROVE  Newer(p, w) \/ cursors[c] < root.oldest_available_tick
    <2>1. cursors[c] > 0
      BY Z3 DEF IInv, TypeOK, OwedInv
    <2>2. contains(root.tree, p) => root.tree.entries[p].oclock \in Nat
      BY <1>3, RootFacts, TreeFacts, Zenon DEF IInv, TypeOK, Entry, Known
    <2>. QED  BY <1>4, <2>1, <2>2, Z3T(30) DEF IInv, TypeOK, CursorNoLoss, Newer
  <1>9. OwedInv'
    <2>1. \A u \in Procs : /\ pc'[u] = IF u = t THEN "prune" ELSE pc[u]
                          /\ cursor'[u] = IF u = t THEN w ELSE cursor[u]
      BY <1>1, <1>2, Zenon DEF IInv, TypeOK
    <2>2. \A c \in Cursors : \A p \in owed[c] \ crawled :
             Newer(p, w) \/ cursors[c] < root.oldest_available_tick
      BY <1>8, Zenon
    <2>3. OwedInv
      BY Zenon DEF IInv
    <2>4. ASSUME NEW d \in Cursors, NEW u \in Procs
          PROVE  /\ pc'[u] = "read" /\ name[u] = d =>
                       \A p \in owed[d] \ crawled :
                           Newer(p, cursor[u])' \/ cursor'[u] < root.oldest_available_tick
                 /\ pc'[u] = "finish" /\ name[u] = d =>
                       Baseline(u)' \/ owed[d] \ crawled \subseteq ans[u].files
                 /\ pc'[u] = "prune" =>
                       \A p \in owed[d] \ crawled :
                           Newer(p, cursor[u])' \/ cursors[d] < root.oldest_available_tick
      <3>1. CASE u = t
        BY <1>2, <2>1, <2>2, <3>1, Z3 DEF Newer
      <3>2. CASE u # t
        <4>1. /\ pc'[u] = pc[u] /\ cursor'[u] = cursor[u] /\ root' = root /\ ans' = ans
          BY <1>2, <2>1, <3>2, Zenon
        <4>. QED  BY <2>3, <4>1, Zenon DEF OwedInv, Newer, Baseline
      <3>. QED  BY <3>1, <3>2, Zenon
    <2>. QED  BY <1>2, <2>3, <2>4, Zenon DEF OwedInv
  <1>. QED  BY <1>5, <1>6, <1>7, <1>9, Zenon DEF IInv

\* Dropping the tombstones keeps it: what a cursor is owed is newer than the
\* watermark.
LEMMA PruneApplyStep ==
    ASSUME IInv, NEW t \in Procs, PruneApply(t)
    PROVE  IInv'
  <1>. DEFINE dropped == Prunable(root.tree, cursor[t])
  <1>1. /\ root' = prune(root, cursor[t])
        /\ pruned' = pruned \cup dropped
        /\ pc' = [pc EXCEPT ![t] = "idle"]
        /\ cursor' = [cursor EXCEPT ![t] = 0]
        /\ pc[t] = "prune" /\ writer = Idle /\ readers = {}
        /\ UNCHANGED <<cursors, writer, name, ans, stamp, crawled, owed>>
    BY Zenon DEF PruneApply, CanWrite
  <1>2. root \in RootType /\ root.ticks \in Nat /\ root.oldest_available_tick \in Nat
        /\ cursor[t] \in Nat /\ CountersExact(root.tree)
    BY RootFacts, Zenon DEF IInv, TypeOK, TreeCounters
  <1>3. /\ root' \in RootType /\ CountersExact(root'.tree)
        /\ root'.ticks = root.ticks /\ root'.jj_events = root.jj_events
        /\ root'.oldest_available_tick = root.oldest_available_tick
        /\ \A p \in Paths :
              IF p \in dropped
              THEN ~contains(root'.tree, p) /\ root.tree.entries[p].oclock <= cursor[t]
              ELSE root'.tree.entries[p] = root.tree.entries[p]
    <2>1. root \in RootType /\ CountersExact(root.tree) /\ cursor[t] \in Nat
          /\ root' = prune(root, cursor[t])
      BY <1>1, <1>2, Zenon
    <2>2. Pruned(root, cursor[t], root')
      BY <2>1, PruneRootOK, Zenon
    <2>. QED  BY <2>2, Zenon DEF Pruned
  <1>4. dropped \in SUBSET Paths
    BY Zenon DEF Prunable, Tombs, Known
  <1>. HIDE DEF dropped
  <1>5. TypeOK' /\ TreeCounters'
    BY <1>1, <1>3, <1>4, Zenon DEF IInv, TypeOK, TreeCounters
  <1>6. StampInv'
    BY <1>1, <1>3, Zenon DEF IInv, StampInv, contains
  <1>7. ClockBounds' /\ WriterInv' /\ ResetInv'
    <2>1. \A u \in Procs : /\ pc'[u] = IF u = t THEN "idle" ELSE pc[u]
                          /\ cursor'[u] = IF u = t THEN 0 ELSE cursor[u]
      BY <1>1, Zenon DEF IInv, TypeOK
    <2>2. 0 <= root.ticks
      BY <1>2, Z3
    <2>3. ClockBounds'
      <3>1. ClockBounds /\ root'.ticks = root.ticks
            /\ root'.oldest_available_tick = root.oldest_available_tick
        BY <1>3, Zenon DEF IInv
      <3>2. writer' = writer /\ cursors' = cursors /\ ans' = ans
        BY <1>1, Zenon
      <3>. QED  BY <2>1, <2>2, <3>1, <3>2, Zenon DEF ClockBounds
    <2>4. WriterInv'
      BY <1>1, Zenon DEF WriterInv
    <2>5. ResetInv'
      <3>1. /\ ResetInv /\ root'.oldest_available_tick = root.oldest_available_tick
            /\ cursors' = cursors /\ ans' = ans /\ name' = name
        BY <1>1, <1>3, Zenon DEF IInv
      <3>. QED  BY <2>1, <3>1, Zenon DEF ResetInv
    <2>. QED  BY <2>3, <2>4, <2>5, Zenon
  <1>8. SweepInv' /\ JjKeepsAll'
    BY <1>1, <1>3, Zenon DEF IInv, TypeOK, SweepInv, JjKeepsAll
  <1>9. ASSUME NEW c \in Cursors, NEW p \in owed[c] \ crawled
        PROVE  /\ p \in Paths
               /\ \/ root'.tree.entries[p] = root.tree.entries[p]
                  \/ cursors[c] < root.oldest_available_tick
    <2>1. p \in Paths
      BY Zenon DEF IInv, TypeOK
    <2>2. contains(root.tree, p) => root.tree.entries[p].oclock \in Nat
      BY <1>2, <2>1, RootFacts, TreeFacts, Zenon DEF Entry, Known
    <2>3. Newer(p, cursor[t]) \/ cursors[c] < root.oldest_available_tick
      BY <1>1, Zenon DEF IInv, OwedInv
    <2>4. CASE p \in dropped
      <3>1. cursor[t] \in Nat /\ root.tree.entries[p].oclock <= cursor[t]
        BY <1>2, <1>3, <2>1, <2>4, Zenon
      <3>2. ~Newer(p, cursor[t])
        BY <2>2, <3>1, Z3 DEF Newer
      <3>. QED  BY <2>1, <2>3, <3>2, Zenon
    <2>5. CASE p \notin dropped
      BY <1>3, <2>1, <2>5, Zenon
    <2>. QED  BY <2>4, <2>5, Zenon
  <1>10. CursorNoLoss'
    BY <1>1, <1>3, <1>9, Zenon DEF IInv, CursorNoLoss, contains
  <1>11. OwedInv'
    <2>1. \A u \in Procs : pc'[u] # "finish"
      BY <1>1, Zenon DEF readers, IInv, TypeOK
    <2>2. ASSUME NEW c \in Cursors, NEW u \in Procs, pc'[u] \in {"read", "prune"},
                 NEW p \in owed[c] \ crawled
          PROVE  /\ pc'[u] = "read" /\ name[u] = c =>
                       Newer(p, cursor[u])' \/ cursor'[u] < root'.oldest_available_tick
                 /\ pc'[u] = "prune" =>
                       Newer(p, cursor[u])' \/ cursors[c] < root'.oldest_available_tick
      <3>1. u # t /\ pc'[u] = pc[u] /\ cursor'[u] = cursor[u]
        BY <1>1, <2>2, Zenon DEF IInv, TypeOK
      <3>2. \/ root'.tree.entries[p] = root.tree.entries[p]
            \/ cursors[c] < root.oldest_available_tick
        BY <1>9, Zenon
      <3>3. CASE pc[u] = "read" /\ name[u] = c
        <4>1. Newer(p, cursor[u]) \/ cursor[u] < root.oldest_available_tick
          BY <3>3, Zenon DEF IInv, OwedInv
        <4>2. cursors[c] < root.oldest_available_tick => cursor[u] < root.oldest_available_tick
          BY <3>3, Zenon DEF IInv, ResetInv
        <4>. QED  BY <1>3, <3>1, <3>2, <3>3, <4>1, <4>2, Zenon DEF Newer, contains
      <3>4. CASE pc[u] = "prune"
        <4>1. Newer(p, cursor[u]) \/ cursors[c] < root.oldest_available_tick
          BY <3>4, Zenon DEF IInv, OwedInv
        <4>. QED  BY <1>3, <3>1, <3>2, <3>4, <4>1, Zenon DEF Newer, contains
      <3>. QED  BY <3>1, <3>3, <3>4, Zenon
    <2>3. \A c \in Cursors : cursors'[c] = 0 => owed'[c] = {}
      BY <1>1, Zenon DEF IInv, OwedInv
    <2>. QED  BY <1>1, <2>1, <2>2, <2>3, Zenon DEF OwedInv
  <1>. QED  BY <1>5, <1>6, <1>7, <1>8, <1>10, <1>11, Zenon DEF IInv

\* Every step keeps the invariant.
LEMMA NextOK == IInv /\ [Next]_vars => IInv'
  <1>. SUFFICES ASSUME IInv, [Next]_vars PROVE IInv'
    BY Zenon
  <1>1. CASE UNCHANGED vars
    BY <1>1, ZenonT(40) DEF vars, IInv, TypeOK, TreeCounters, StampInv, ClockBounds, WriterInv, SweepInv,
         JjKeepsAll, CursorNoLoss, ResetInv, OwedInv, Newer, Baseline, readers
  <1>2. CASE \E b \in BOOLEAN : ApplyBegin(b)
    BY <1>2, ApplyBeginStep, Zenon
  <1>3. CASE \E c \in PathChange : ApplyOne(c)
    BY <1>3, ApplyOneStep, Zenon
  <1>4. CASE ApplyEnd
    BY <1>4, ApplyEndStep, Zenon
  <1>5. CASE ClockBump
    BY <1>5, ClockBumpStep
  <1>6. CASE Invalidate
    BY <1>6, InvalidateStep
  <1>7. CASE \E scan \in Scans : Recrawl(scan)
    BY <1>7, RecrawlStep, Zenon
  <1>8. CASE \E scan \in Scans : Promote(scan)
    BY <1>8, PromoteStep, Zenon
  <1>9. ASSUME NEW t \in Procs,
               \/ \E c \in Cursors : resolve_named_cursor(t, c)
               \/ \E b \in BOOLEAN : Run(t, b)
               \/ Finish(t) \/ PruneBegin(t) \/ PruneWatermark(t) \/ PruneApply(t)
        PROVE  IInv'
    BY <1>9, ResolveStep, RunStep, FinishStep, PruneBeginStep, PruneWatermarkStep, PruneApplyStep, Zenon
  <1>. QED  BY <1>1, <1>2, <1>3, <1>4, <1>5, <1>6, <1>7, <1>8, <1>9, Zenon DEF Next

-----------------------------------------------------------------------------
\* RootIndex keeps its inductive invariant.
THEOREM Inductive == Spec => []IInv
  BY InitOK, NextOK, PTL DEF Spec

\* Every variable keeps its type, whatever the threads sharing a root do.
THEOREM TypeCorrect == Spec => []TypeOK
  <1>1. IInv => TypeOK
    BY DEF IInv
  <1>. QED  BY <1>1, Inductive, PTL

\* The live and tombstone counters of a tree are exact at every step.
THEOREM CountersCorrect == Spec => []TreeCounters
  <1>1. IInv => TreeCounters
    BY DEF IInv
  <1>. QED  BY <1>1, Inductive, PTL

\* A jj event index is never pruned: prune_tombstones' guard is enough, even
\* though it is read before the lock is taken.
THEOREM JjKeepsAllCorrect == Spec => []JjKeepsAll
  <1>1. IInv => JjKeepsAll
    BY Zenon DEF IInv
  <1>. QED  BY <1>1, Inductive, PTL

\* No change recorded while a named cursor exists is lost to it by sweeps,
\* resets, promotions or other queries through the same cursor.
THEOREM CursorCorrect == Spec => []CursorNoLoss
  <1>1. IInv => CursorNoLoss
    BY Zenon DEF IInv
  <1>. QED  BY <1>1, Inductive, PTL

\* What one answer reports: the heart of AnswerExact.
LEMMA ExactAnswer ==
    ASSUME IInv, NEW s, NEW cur \in Nat, since_tick(s, cur) \in Nat,
           s.kind # "None"
    PROVE  Exact(s, cur)
  <1>. DEFINE n == since_tick(s, cur)
              a == answer(root, s, cur, FALSE)
              newer == {p \in Paths : stamp[p] > n}
  <1>. SUFFICES ASSUME ~a.fresh, on_tick_axis(s, cur)
                PROVE  newer \ (pruned \cup crawled) \subseteq a.files /\ a.files \subseteq newer
    BY Zenon DEF Exact
  <1>1. ~ is_fresh_instance(root, s, cur) /\ a.files = files(root, s, cur)
    BY Zenon DEF answer
  <1>2. root.oldest_available_tick \in Nat /\ n \in Nat /\ stamp \in [Paths -> Nat]
    BY RootFacts, Zenon DEF IInv, TypeOK
  <1>3. root.oldest_available_tick <= n
    BY <1>1, <1>2 DEF is_fresh_instance
  <1>4. \A p \in Paths : p \in a.files <=> contains(root.tree, p) /\ stamp[p] > n
    BY <1>1, Zenon DEF files, Known, IInv, StampInv
  <1>5. a.files \subseteq Paths
    BY <1>1, Zenon DEF files, Known
  <1>6. ASSUME NEW p \in newer \ (pruned \cup crawled)
        PROVE  p \in a.files
    <2>1. p \in Paths /\ stamp[p] \in Nat /\ stamp[p] > n /\ p \notin pruned \cup crawled
      BY <1>2, Zenon
    <2>2. contains(root.tree, p)
      BY <1>2, <1>3, <2>1, Z3 DEF IInv, StampInv
    <2>. QED  BY <1>4, <2>1, <2>2, Zenon
  <1>. QED  BY <1>4, <1>5, <1>6, Zenon

\* A query on a tick that is not answered as a fresh instance reports exactly
\* the paths recorded since, for any number of paths, threads and cursors.
THEOREM AnswerCorrect == Spec => []AnswerExact
  <1>1. IInv => AnswerExact
    <2>. SUFFICES ASSUME IInv PROVE AnswerExact
      OBVIOUS
    <2>1. ASSUME NEW s \in PlainSpecs PROVE Exact(s, 0)
      <3>1. CASE s = None
        BY <3>1, Zenon DEF Exact, answer, is_fresh_instance, None
      <3>2. CASE s # None
        <4>1. s.kind # "None" /\ since_tick(s, 0) \in Nat
          BY <2>1, <3>2, RootIndexAssumption, Z3 DEF PlainSpecs, Tick, since_tick, tick_against, None
        <4>. QED  BY <4>1, ExactAnswer, Zenon
      <3>. QED  BY <3>1, <3>2, Zenon
    <2>2. ASSUME NEW t \in Procs PROVE Exact(Named(name[t]), cursor[t])
      <3>1. cursor[t] \in Nat
        BY Zenon DEF IInv, TypeOK
      <3>2. Named(name[t]).kind # "None" /\ since_tick(Named(name[t]), cursor[t]) = cursor[t]
        BY Zenon DEF Named, since_tick
      <3>. QED  BY <3>1, <3>2, ExactAnswer, Zenon
    <2>. QED  BY <2>1, <2>2, Zenon DEF AnswerExact
  <1>. QED  BY <1>1, Inductive, PTL

-----------------------------------------------------------------------------
\* Query, over any disk and any expressions: an answer holds paths of the disk,
\* and every path it owes.

\* No relative_root is below .git or .jj.
OutsideInternal == \A s \in Shapes : s.base = <<>> \/ ~is_jj_internal(s.base)

\* What parse_spec makes of a query.
LEMMA QueryFields ==
    ASSUME NEW q \in Queries
    PROVE  /\ q.raw \in Raws /\ q.base \in Seq(Name) /\ q.case_sensitive \in BOOLEAN
           /\ \E s \in Shapes : q.base = s.base
  <1>1. PICK raw \in Raws, since \in {"none", "clock", "scm"}, s \in Shapes :
          q = [raw |-> raw, since |-> since, base |-> s.base, generators |-> s.generators,
               case_sensitive |-> s.case_sensitive,
               always_include_directories |-> s.always_include_directories,
               empty_on_fresh_instance |-> s.empty_on_fresh_instance]
    BY DEF Queries
  <1>. QED  BY <1>1, QueryAssumption

\* A path has one name or more.
LEMMA OneOrMore ==
    ASSUME NEW S, NEW rel \in Seq(S), Len(rel) > 0
    PROVE  Len(rel) = 1 \/ Len(rel) > 1
  OBVIOUS

\* A path of one name.
LEMMA OneName ==
    ASSUME NEW S, NEW rel \in Seq(S), Len(rel) = 1
    PROVE  rel = <<rel[1]>>
  OBVIOUS

\* Path::parent of a path below the top directory `dir`.
LEMMA ParentOf ==
    ASSUME NEW S, NEW rel \in Seq(S), Len(rel) > 1, NEW dir, rel[1] = dir
    PROVE  \/ parent(rel) = <<dir>>
           \/ /\ Len(<<dir>>) < Len(parent(rel))
              /\ SubSeq(parent(rel), 1, Len(<<dir>>)) = <<dir>>
  <1>. PICK n \in Nat : n = Len(rel)
    OBVIOUS
  <1>. DEFINE sub == SubSeq(rel, 1, n - 1)
  <1>0. sub \in Seq(S) /\ Len(sub) = n - 1 /\ sub[1] = rel[1]
    OBVIOUS
  <1>. PICK up \in Seq(S) : up = sub
    BY <1>0
  <1>1. Len(up) = n - 1 /\ n > 1 /\ up[1] = dir /\ up = parent(rel)
    BY <1>0 DEF parent
  <1>. HIDE DEF sub
  <1>2. CASE n = 2
    <2>1. Len(up) = 1
      BY <1>1, <1>2
    <2>. QED  BY <1>1, <2>1
  <1>3. CASE n > 2
    <2>1. Len(SubSeq(up, 1, 1)) = 1 /\ SubSeq(up, 1, 1)[1] = dir /\ SubSeq(up, 1, 1) \in Seq(S)
      BY <1>1, <1>3
    <2>2. SubSeq(up, 1, 1) = <<dir>>
      BY <2>1, OneName, Zenon
    <2>3. 1 < Len(up) /\ Len(<<dir>>) = 1
      BY <1>1, <1>3
    <2>. QED  BY <1>1, <2>2, <2>3
  <1>. QED  BY <1>1, <1>2, <1>3

\* jj's own query selects nothing below .git or .jj, in any order of its parts
\* and under any case rule: it may be answered from an index without them.
LEMMA OwnQuerySkips ==
    ASSUME NEW raw \in Raws, NEW rel \in DiskPaths, NEW cs \in BOOLEAN,
           is_jj_fsmonitor_query(Parse(raw)), Eval(Parse(raw), rel, cs)
    PROVE  ~is_jj_internal(rel)
  <1>. SUFFICES ASSUME is_jj_internal(rel)  PROVE FALSE
    OBVIOUS
  <1>. DEFINE parts == Parse(raw).of.list
              cased(x) == x.cased /\ cs
  <1>1. PICK dir \in {".git", ".jj"} : rel[1] = dir
    BY DEF is_jj_internal
  <1>2. rel \in Seq(Name) /\ Len(rel) > 0
    BY QueryAssumption
  <1>3. /\ \A i \in DOMAIN parts : ~Eval(parts[i], rel, cs)
        /\ \A i \in DOMAIN parts :
             /\ parts[i].kind = "name" =>
                  ~match_name(rel, parts[i].names, parts[i].scope, cased(parts[i]))
             /\ parts[i].kind = "dirname" =>
                  ~match_dirname(rel, parts[i].path, cased(parts[i]))
    <2>1. Parse(raw).kind = "not" /\ Parse(raw).of.kind = "anyof"
      BY Zenon DEF is_jj_fsmonitor_query
    <2>2. /\ Eval(Parse(raw), rel, cs) <=> ~\E i \in DOMAIN parts : Eval(parts[i], rel, cs)
          /\ \A i \in DOMAIN parts :
               /\ parts[i].kind = "name" =>
                    (Eval(parts[i], rel, cs)
                       <=> match_name(rel, parts[i].names, parts[i].scope, cased(parts[i])))
               /\ parts[i].kind = "dirname" =>
                    (Eval(parts[i], rel, cs)
                       <=> match_dirname(rel, parts[i].path, cased(parts[i])))
      BY <2>1, EvalAssumption, Zenon
    <2>. QED  BY <2>2, Zenon
  <1>4. CASE Len(rel) = 1
    <2>1. rel = <<dir>>
      BY <1>1, <1>2, <1>4
    <2>2. PICK i \in DOMAIN parts :
            /\ parts[i].kind = "name" /\ parts[i].scope = "wholename"
            /\ \E j \in DOMAIN parts[i].names : parts[i].names[j] = <<dir>>
      BY DEF is_jj_fsmonitor_query, Range
    <2>3. match_name(rel, parts[i].names, parts[i].scope, cased(parts[i]))
      BY <2>1, <2>2, Zenon DEF match_name, Equal
    <2>. QED  BY <1>3, <2>2, <2>3, Zenon
  <1>5. CASE Len(rel) > 1
    <2>1. PICK i \in DOMAIN parts : parts[i].kind = "dirname" /\ parts[i].path = <<dir>>
      BY Zenon DEF is_jj_fsmonitor_query
    <2>2. \/ parent(rel) = <<dir>>
          \/ /\ Len(<<dir>>) < Len(parent(rel))
             /\ SubSeq(parent(rel), 1, Len(<<dir>>)) = <<dir>>
      BY <1>1, <1>2, <1>5, ParentOf
    <2>3. rel # <<>> /\ <<dir>> # <<>>
      BY <1>5
    <2>4. match_dirname(rel, parts[i].path, cased(parts[i]))
      BY <2>1, <2>2, <2>3, Zenon DEF match_dirname, Equal
    <2>. QED  BY <1>3, <2>1, <2>4, Zenon
  <1>. QED  BY <1>2, <1>4, <1>5, OneOrMore, Zenon

\* What Row selects for a query with no relative_root, or one outside .git and
\* .jj, when the query is jj's own: nothing a jj root leaves out of its index.
LEMMA OwnRows ==
    ASSUME OutsideInternal,
           NEW q \in Queries, NEW rel \in DiskPaths, NEW allowed,
           is_jj_fsmonitor_query(Parse(q.raw)), Row(q, Parse(q.raw), rel, allowed)
    PROVE  ~is_jj_internal(rel)
  <1>1. q.raw \in Raws /\ q.base \in Seq(Name) /\ q.case_sensitive \in BOOLEAN
        /\ (q.base = <<>> \/ ~is_jj_internal(q.base))
    BY QueryFields DEF OutsideInternal
  <1>2. rel \in Seq(Name) /\ Len(rel) > 0
    BY QueryAssumption
  <1>3. /\ starts_with(rel, q.base)
        /\ Eval(Parse(q.raw), SubSeq(rel, Len(q.base) + 1, Len(rel)), q.case_sensitive)
    BY Zenon DEF Row
  <1>4. CASE q.base = <<>>
    <2>1. SubSeq(rel, Len(q.base) + 1, Len(rel)) = rel
      BY <1>2, <1>4
    <2>. QED  BY <1>1, <1>3, <2>1, OwnQuerySkips
  <1>5. CASE q.base # <<>>
    <2>1. rel[1] = q.base[1]
      BY <1>1, <1>2, <1>3, <1>5 DEF starts_with
    <2>. QED  BY <1>1, <1>5, <2>1, Zenon DEF is_jj_internal
  <1>. QED  BY <1>4, <1>5

\* A row is its name below relative_root, prefixed with relative_root.
LEMMA StripOK ==
    ASSUME NEW S, NEW rel \in Seq(S), NEW base \in Seq(S), starts_with(rel, base)
    PROVE  base \o SubSeq(rel, Len(base) + 1, Len(rel)) = rel
  BY DEF starts_with

\* The command keeps the types, and answers with paths of the disk.
LEMMA AskTypes ==
    ASSUME QueryTypeOK,
           NEW q \in Queries, NEW allowed, Ask(q, allowed)
    PROVE  QueryTypeOK'
  <1>. DEFINE e == Parse(q.raw)
              promoted == jj /\ ~is_jj_fsmonitor_query(e)
  <1>1. q.raw \in Raws /\ q.base \in Seq(Name)
    BY QueryFields, Zenon
  <1>2. query' = q /\ disk' = disk
    BY Zenon DEF Ask
  <1>3. CASE e = Error
    <2>1. result' = [status |-> "error"] /\ changed' = changed /\ jj' = jj /\ outdated' = outdated
      BY <1>3, Zenon DEF Ask
    <2>2. result'.status # "ok"
      BY <2>1
    <2>. QED  BY <1>1, <1>2, <2>1, <2>2, Zenon DEF QueryTypeOK
  <1>4. CASE e # Error
    <2>1. /\ jj' = (jj /\ ~promoted) /\ outdated' = (outdated \/ promoted)
          /\ changed' = IF promoted THEN disk ELSE changed
      BY <1>4, Zenon DEF Ask
    <2>2. {jj', outdated'} \subseteq BOOLEAN /\ changed' \subseteq disk
      BY <2>1, Zenon DEF QueryTypeOK
    <2>3. PICK rows : /\ rows \subseteq Indexed(jj')
                      /\ \A p \in rows : Row(q, e, p, allowed)
                      /\ result'.files = Strip(q, rows)
      BY <1>4 DEF Ask
    <2>4. rows \subseteq disk
      BY <2>3, Zenon DEF Indexed, QueryTypeOK
    <2>5. ASSUME NEW f \in result'.files  PROVE (q.base \o f) \in disk
      <3>1. PICK rel \in rows : f = SubSeq(rel, Len(q.base) + 1, Len(rel))
        BY <2>3, <2>5, Zenon DEF Strip
      <3>2. rel \in disk /\ rel \in Seq(Name) /\ starts_with(rel, q.base)
        BY <2>3, <2>4, QueryAssumption, Zenon DEF Row, QueryTypeOK
      <3>. QED  BY <1>1, <3>1, <3>2, StripOK, Zenon
    <2>. QED  BY <1>1, <1>2, <2>2, <2>5, Zenon DEF QueryTypeOK
  <1>. QED  BY <1>3, <1>4

\* The command answers with every path it owes.
LEMMA AskComplete ==
    ASSUME OutsideInternal, QueryTypeOK,
           NEW q \in Queries, NEW allowed, Ask(q, allowed)
    PROVE  Complete'
  <1>. DEFINE e == Parse(q.raw)
              own == is_jj_fsmonitor_query(e)
              fresh == \/ q.since = "none"
                       \/ q.since = "clock" /\ outdated'
                       \/ q.since = "scm" /\ jj'
              rows == {p \in Indexed(jj') :
                         /\ ~(fresh /\ q.empty_on_fresh_instance)
                         /\ q.since = "clock" => p \in changed'
                         /\ Row(q, e, p, allowed)}
              due == IF fresh /\ q.empty_on_fresh_instance THEN {}
                     ELSE IF q.since = "clock" THEN changed'
                     ELSE IF jj' THEN {} ELSE disk
  <1>1. query' = q /\ disk' = disk
    BY Zenon DEF Ask
  <1>2. CASE e = Error
    <2>1. result' = [status |-> "error"]
      BY <1>2, Zenon DEF Ask
    <2>2. result'.status # "ok"
      BY <2>1
    <2>. QED  BY <2>2, Zenon DEF Complete
  <1>3. CASE e # Error
    <2>1. /\ jj' = (jj /\ ~(jj /\ ~own))
          /\ changed' = IF jj /\ ~own THEN disk ELSE changed
      BY <1>3, Zenon DEF Ask
    <2>2. /\ result'.files = Strip(q, rows)
          /\ result'.scm = allowed /\ result'.fresh = fresh
      <3>1. result' = [status |-> "ok", scm |-> allowed, files |-> Strip(q, rows),
                       fresh |-> fresh]
        BY <1>3, Zenon DEF Ask
      <3>. QED  BY <3>1, Zenon
    <2>3. changed' \subseteq disk /\ disk \subseteq DiskPaths
      BY <2>1, Zenon DEF QueryTypeOK
    <2>4. ASSUME NEW p \in due, Row(q, e, p, allowed)  PROVE p \in rows
      <3>1. ~(fresh /\ q.empty_on_fresh_instance) /\ (q.since = "clock" => p \in changed')
        BY <2>4, Zenon
      <3>2. p \in disk /\ p \in DiskPaths
        BY <2>3, <2>4, <3>1, Zenon
      <3>3. CASE jj'
        <4>1. own /\ p \in changed
          BY <2>1, <2>4, <3>1, <3>3, Zenon
        <4>2. ~is_jj_internal(p)
          BY <2>4, <3>2, <4>1, OwnRows, Zenon
        <4>. QED  BY <2>4, <3>1, <3>3, <4>1, <4>2, Zenon DEF Indexed
      <3>4. CASE ~jj'
        BY <2>4, <3>1, <3>2, <3>4, Zenon DEF Indexed
      <3>. QED  BY <3>3, <3>4
    <2>5. Strip(q, {p \in due : Row(q, e, p, allowed)}) \subseteq result'.files
      BY <2>2, <2>4, Zenon DEF Strip
    <2>. QED  BY <1>1, <2>2, <2>5, Zenon DEF Complete, Strip, Row
  <1>. QED  BY <1>2, <1>3

\* Every step keeps the types.
LEMMA QueryTypes ==
    ASSUME QueryTypeOK, [QueryNext]_queryVars
    PROVE  QueryTypeOK'
  <1>1. CASE Reply
    <2>1. result'.status # "ok"
      BY <1>1 DEF Reply, NoResult
    <2>2. query' = Unset /\ disk' = disk /\ changed' = changed /\ jj' = jj /\ outdated' = outdated
      BY <1>1, Zenon DEF Reply
    <2>. QED  BY <2>1, <2>2, Zenon DEF QueryTypeOK
  <1>2. ASSUME NEW q \in Queries, NEW allowed \in ScmSets(q), Ask(q, allowed)
        PROVE  QueryTypeOK'
    BY <1>2, AskTypes, Zenon
  <1>3. CASE UNCHANGED queryVars
    BY <1>3 DEF queryVars, QueryTypeOK
  <1>. QED  BY <1>1, <1>2, <1>3, Zenon DEF QueryNext

\* Every step keeps the answer complete.
LEMMA QueryComplete ==
    ASSUME OutsideInternal,
           QueryTypeOK, Complete, [QueryNext]_queryVars
    PROVE  Complete'
  <1>1. CASE Reply
    <2>1. result'.status # "ok"
      BY <1>1 DEF Reply, NoResult
    <2>. QED  BY <2>1, Zenon DEF Complete
  <1>2. ASSUME NEW q \in Queries, NEW allowed \in ScmSets(q), Ask(q, allowed)
        PROVE  Complete'
    BY <1>2, AskComplete, Zenon
  <1>3. CASE UNCHANGED queryVars
    <2>. DEFINE Holds(q, r, c, j, d) ==
                  r.status = "ok" =>
                    Strip(q, {p \in IF r.fresh /\ q.empty_on_fresh_instance THEN {}
                                          ELSE IF q.since = "clock" THEN c
                                          ELSE IF j THEN {} ELSE d :
                                      Row(q, Parse(q.raw), p, r.scm)}) \subseteq r.files
    <2>1. Holds(query, result, changed, jj, disk)
      BY Zenon DEF Complete
    <2>2. query' = query /\ result' = result /\ changed' = changed /\ jj' = jj /\ disk' = disk
      BY <1>3 DEF queryVars
    <2>3. Holds(query', result', changed', jj', disk') => Complete'
      BY Zenon DEF Complete
    <2>. HIDE DEF Holds
    <2>. QED  BY <2>1, <2>2, <2>3, Zenon
  <1>. QED  BY <1>1, <1>2, <1>3, Zenon DEF QueryNext

\* Nothing is answered yet.
LEMMA QueryInitOK ==
    ASSUME QueryInit
    PROVE  QueryTypeOK /\ Complete
  <1>1. result.status # "ok"
    BY DEF QueryInit, NoResult
  <1>2. changed \subseteq disk /\ disk \subseteq DiskPaths /\ {jj, outdated} \subseteq BOOLEAN
        /\ query = Unset
    BY DEF QueryInit
  <1>. QED  BY <1>1, <1>2, Zenon DEF QueryTypeOK, Complete

\* For every working copy and every expression, each row of an answer is, put
\* below relative_root again, a path of the disk (run.rs strips the prefix).
THEOREM AnswersAreOnDisk == QuerySpec => []QueryTypeOK
  <1>1. QueryInit => QueryTypeOK
    BY QueryInitOK
  <1>2. QueryTypeOK /\ [QueryNext]_queryVars => QueryTypeOK'
    BY QueryTypes
  <1>. QED  BY <1>1, <1>2, PTL DEF QuerySpec

\* For every working copy and every expression, an answer holds every path it
\* owes: a query taken for jj's own (is_jj_fsmonitor_query) selects nothing a jj
\* root leaves out of its index, whatever the order and the case rule of its
\* parts, and any other query builds the full index first.
THEOREM AnswersAreComplete ==
    ASSUME OutsideInternal
    PROVE  QuerySpec => []Complete
  <1>1. QueryInit => Complete
    BY QueryInitOK
  <1>2. QueryTypeOK /\ Complete /\ [QueryNext]_queryVars => Complete'
    BY QueryComplete
  <1>. QED  BY <1>1, <1>2, AnswersAreOnDisk, PTL DEF QuerySpec
=============================================================================
