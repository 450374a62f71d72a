---------------------------- MODULE WatcherProofs ----------------------------
(***************************************************************************)
(* Watcher for every set of paths, worlds and directories and every length *)
(* of the kernel's queue: a settled full index is the disk, and no client, *)
(* of either index, trusts a stale path.                                   *)
(***************************************************************************)
EXTENDS Watcher, RootProofs

Event == [kind : {"Change", "Remove", "Access"}, path : DOMAIN disk] \cup [kind : {"Rescan"}]
Stats == Metas \cup {NoMeta}

TypeInv ==
    /\ DOMAIN disk \subseteq Paths \ {DirSignal} /\ disk \in [DOMAIN disk -> Stats]
    /\ attached \in BOOLEAN
    /\ queue \in Seq(Event) /\ events \in Seq(Event) /\ out \in Seq(PathChange)
    /\ root \in RootType /\ CountersExact(root.tree)
    /\ wpc \in {"wait", "collect", "apply"}
    /\ op \in {"register", "promote", "recrawl", "none"}
    /\ todo \subseteq DOMAIN disk /\ got \in Scans /\ DOMAIN got \subseteq DOMAIN disk \ todo
    /\ seen \in [DOMAIN disk -> Stats] /\ clk \in Nat

\* Who holds what: there are no events, clients or batches before the watch; a
\* batch has its mode_transition, a promotion excludes it, and no query is
\* answered between two changes of a batch.
PhaseInv ==
    /\ op = "register" <=> ~attached
    /\ ~attached => queue = <<>> /\ wpc = "wait" /\ clk = 0 /\ crawled = {}
    /\ wpc = "wait" => out = <<>>
    /\ wpc # "collect" => events = <<>>
    /\ wpc = "collect" => jj_mode = root.jj_events
    /\ wpc = "apply" => out # <<>> /\ clk < root.ticks
    /\ op = "promote" => wpc = "wait" /\ root.jj_events /\ "promote" \in World.crawls
    /\ op = "recrawl" => ~root.jj_events
    /\ clk <= root.ticks
    /\ root.jj_events => crawled = {}
    /\ crawled \cap Known(root.tree) = {}

-----------------------------------------------------------------------------
\* Event e is about path p, and collecting it looks at p.
About(e, p) == e.kind \in {"Change", "Remove"} /\ e.path = p
Mute(s, p) == \A i \in 1..Len(s) : ~About(s[i], p)

\* The last event about p in s is a removal exactly if m is what p is then.
Says(s, p, m) ==
    \E i \in 1..Len(s) : /\ About(s[i], p) /\ (s[i].kind = "Remove" <=> m = NoMeta)
                         /\ \A j \in 1..Len(s) : i < j => ~About(s[j], p)

\* The last change of p in batch s makes it m.
Silent(s, p) == \A i \in 1..Len(s) : s[i].path # p
Gives(c, m) == (c.op = "Upsert" /\ c.meta = m) \/ (c.op = "Remove" /\ m = NoMeta)
Brings(s, p, m) ==
    \E i \in 1..Len(s) : /\ s[i].path = p /\ Gives(s[i], m)
                         /\ \A j \in 1..Len(s) : i < j => s[j].path # p

Told(p) == Says(queue, p, disk[p]) \/ (Mute(queue, p) /\ Says(events, p, disk[p]))
Quiet(p) == Mute(queue, p) /\ Mute(events, p)
Got(p) == IF p \in DOMAIN got THEN got[p] ELSE NoMeta

\* Unless the kernel dropped a change, its last event about a path is true.
QueueInv == attached /\ MayBeFull => \A p \in DOMAIN disk \ dropped : Told(p) \/ Quiet(p)

\* What a crawl has found is still so, or an event says otherwise.
CrawlInv ==
    /\ op = "register" /\ ~root.jj_events /\ root.ticks = 1 =>
          \A p \in DOMAIN disk \ (todo \cup gap) : Got(p) = disk[p]
    /\ op = "promote" => \A p \in DOMAIN disk \ (todo \cup dropped) : Told(p) \/ Got(p) = disk[p]
    /\ op = "recrawl" => \A p \in DOMAIN disk \ (todo \cup raced) : Got(p) = disk[p]

\* What a full index has wrong, an event or a change of the batch puts right.
IndexOK(p) ==
    \/ Told(p)
    \/ /\ Quiet(p)
       /\ \/ Brings(out, p, disk[p])
          \/ Silent(out, p) /\ Indexed(p) = disk[p]
IndexInv ==
    ~root.jj_events /\ (attached \/ root.ticks > 1) =>
        \A p \in DOMAIN disk \ (gap \cup dropped \cup raced) : IndexOK(p)

-----------------------------------------------------------------------------
Newer(p) == contains(root.tree, p) /\ root.tree.entries[p].oclock > clk
Outdated == clk < root.oldest_available_tick

\* What has changed since a client looked is on its way into the event index.
Heard(s, p) == \E i \in 1..Len(s) : s[i].kind = "Rescan" \/ About(s[i], p)
Carries(s, p) == \E i \in 1..Len(s) : s[i].path = p \/ (p \in Dir /\ s[i].path = DirSignal)
Due(p) ==
    \/ Heard(queue, p) \/ Heard(events, p) \/ Carries(out, p)
    \/ Newer(p) \/ (p \in Dir /\ Newer(DirSignal))
JjInv ==
    root.jj_events /\ clk > 0 =>
        \A p \in DOMAIN disk : seen[p] = disk[p] \/ Outdated \/ Due(p)

\* A client of a full index has what the index has, or will be told.
FullInv ==
    ~root.jj_events /\ clk > 0 =>
        \A p \in DOMAIN disk \ crawled : seen[p] = Indexed(p) \/ Outdated \/ Newer(p)

IInv == TypeInv /\ PhaseInv /\ QueueInv /\ CrawlInv /\ IndexInv /\ JjInv /\ FullInv

-----------------------------------------------------------------------------
(* Sequences of events and of changes. *)

\* An event or a change that is added at the end has the last word.
LEMMA Appended ==
    ASSUME NEW S, NEW s \in Seq(S), NEW e \in S, NEW t, t = Append(s, e), NEW p, NEW m
    PROVE  /\ Mute(s, p) /\ ~About(e, p) => Mute(t, p)
           /\ Says(s, p, m) /\ ~About(e, p) => Says(t, p, m)
           /\ About(e, p) /\ (e.kind = "Remove" <=> m = NoMeta) => Says(t, p, m)
           /\ Heard(s, p) => Heard(t, p)
           /\ e.kind = "Rescan" \/ About(e, p) => Heard(t, p)
           /\ Silent(s, p) /\ e.path # p => Silent(t, p)
           /\ Brings(s, p, m) /\ e.path # p => Brings(t, p, m)
           /\ e.path = p /\ Gives(e, m) => Brings(t, p, m)
           /\ Carries(s, p) => Carries(t, p)
           /\ e.path = p \/ (p \in Dir /\ e.path = DirSignal) => Carries(t, p)
  <1>1. /\ Len(s) \in Nat /\ Len(t) = Len(s) + 1 /\ t[Len(s) + 1] = e
        /\ \A i \in 1..Len(s) : t[i] = s[i]
    BY Z3
  <1>2. /\ Len(s) + 1 \in 1..Len(t) /\ \A j \in 1..Len(t) : ~(Len(s) + 1 < j)
        /\ \A j \in 1..Len(t) : j \in 1..Len(s) \/ j = Len(s) + 1
        /\ \A j \in 1..Len(s) : j \in 1..Len(t)
    BY <1>1, Z3
  <1>3. Mute(s, p) /\ ~About(e, p) => Mute(t, p)
    BY <1>1, <1>2, Zenon DEF Mute
  <1>4. Says(s, p, m) /\ ~About(e, p) => Says(t, p, m)
    BY <1>1, <1>2, Z3 DEF Says
  <1>5. About(e, p) /\ (e.kind = "Remove" <=> m = NoMeta) => Says(t, p, m)
    BY <1>1, <1>2, Zenon DEF Says
  <1>6. /\ Heard(s, p) => Heard(t, p)
        /\ e.kind = "Rescan" \/ About(e, p) => Heard(t, p)
    BY <1>1, <1>2, Zenon DEF Heard
  <1>7. Silent(s, p) /\ e.path # p => Silent(t, p)
    BY <1>1, <1>2, Zenon DEF Silent
  <1>8. /\ Brings(s, p, m) /\ e.path # p => Brings(t, p, m)
        /\ e.path = p /\ Gives(e, m) => Brings(t, p, m)
    BY <1>1, <1>2, Z3 DEF Brings
  <1>9. /\ Carries(s, p) => Carries(t, p)
        /\ e.path = p \/ (p \in Dir /\ e.path = DirSignal) => Carries(t, p)
    BY <1>1, <1>2, Zenon DEF Carries
  <1>. QED  BY <1>3, <1>4, <1>5, <1>6, <1>7, <1>8, <1>9, Zenon

\* What a sequence says is said by the rest of it, or by its head.
LEMMA Tailed ==
    ASSUME NEW S, NEW s \in Seq(S), s # <<>>, NEW e, e = Head(s), NEW t, t = Tail(s),
           NEW p, NEW m
    PROVE  /\ e \in S /\ t \in Seq(S)
           /\ Mute(s, p) => Mute(t, p) /\ ~About(e, p)
           /\ Says(s, p, m) =>
                 \/ Says(t, p, m)
                 \/ Mute(t, p) /\ About(e, p) /\ (e.kind = "Remove" <=> m = NoMeta)
           /\ Heard(s, p) => Heard(t, p) \/ e.kind = "Rescan" \/ About(e, p)
           /\ Silent(s, p) => Silent(t, p) /\ e.path # p
           /\ Brings(s, p, m) => Brings(t, p, m) \/ (Silent(t, p) /\ e.path = p /\ Gives(e, m))
           /\ Carries(s, p) => Carries(t, p) \/ e.path = p \/ (p \in Dir /\ e.path = DirSignal)
  <1>1. /\ Len(s) \in Nat /\ Len(s) > 0 /\ Len(t) = Len(s) - 1 /\ e = s[1]
        /\ \A i \in 1..Len(t) : t[i] = s[i + 1]
        /\ e \in S /\ t \in Seq(S)
    BY Z3
  <1>2. /\ 1 \in 1..Len(s)
        /\ \A i \in 1..Len(t) : i + 1 \in 1..Len(s) /\ 1 < i + 1
        /\ \A i \in 1..Len(s) : i = 1 \/ \E k \in 1..Len(t) : i = k + 1
        /\ \A i, j \in 1..Len(t) : i < j => i + 1 < j + 1
    <2>1. \A i \in 1..Len(s) : i = 1 \/ (i - 1 \in 1..Len(t) /\ i = (i - 1) + 1)
      BY ONLY <1>1, Z3
    <2>2. /\ 1 \in 1..Len(s)
          /\ \A i \in 1..Len(t) : i + 1 \in 1..Len(s) /\ 1 < i + 1
          /\ \A i, j \in 1..Len(t) : i < j => i + 1 < j + 1
      BY ONLY <1>1, Z3
    <2>. QED  BY <2>1, <2>2, Zenon
  <1>3. Mute(s, p) => Mute(t, p) /\ ~About(e, p)
    BY <1>1, <1>2, Zenon DEF Mute
  <1>4. Says(s, p, m) => \/ Says(t, p, m)
                         \/ Mute(t, p) /\ About(e, p) /\ (e.kind = "Remove" <=> m = NoMeta)
    <2>. HAVE Says(s, p, m)
    <2>0. PICK i \in 1..Len(s) : /\ About(s[i], p) /\ (s[i].kind = "Remove" <=> m = NoMeta)
                                 /\ \A j \in 1..Len(s) : i < j => ~About(s[j], p)
      BY Zenon DEF Says
    <2>1. CASE i = 1
      BY <1>1, <1>2, <2>0, <2>1, Zenon DEF Mute
    <2>2. ASSUME NEW k \in 1..Len(t), i = k + 1
          PROVE  Says(t, p, m)
      <3>1. t[k] = s[i] /\ \A j \in 1..Len(t) : k < j => ~About(t[j], p)
        BY <1>1, <1>2, <2>0, <2>2, Zenon
      <3>. QED  BY <2>0, <3>1, Zenon DEF Says
    <2>3. i = 1 \/ \E k \in 1..Len(t) : i = k + 1
      BY <1>2, Zenon
    <2>. QED  BY <2>1, <2>2, <2>3, Zenon
  <1>5. Heard(s, p) => Heard(t, p) \/ e.kind = "Rescan" \/ About(e, p)
    <2>. HAVE Heard(s, p)
    <2>0. PICK i \in 1..Len(s) : s[i].kind = "Rescan" \/ About(s[i], p)
      BY Zenon DEF Heard
    <2>1. CASE i = 1
      BY <1>1, <2>0, <2>1, Zenon
    <2>2. ASSUME NEW k \in 1..Len(t), i = k + 1
          PROVE  Heard(t, p)
      BY <1>1, <2>0, <2>2, Zenon DEF Heard
    <2>. QED  BY <1>2, <2>1, <2>2, Zenon
  <1>6. Silent(s, p) => Silent(t, p) /\ e.path # p
    BY <1>1, <1>2, Zenon DEF Silent
  <1>7. Brings(s, p, m) => Brings(t, p, m) \/ (Silent(t, p) /\ e.path = p /\ Gives(e, m))
    <2>. HAVE Brings(s, p, m)
    <2>0. PICK i \in 1..Len(s) : /\ s[i].path = p /\ Gives(s[i], m)
                                 /\ \A j \in 1..Len(s) : i < j => s[j].path # p
      BY Zenon DEF Brings
    <2>1. CASE i = 1
      BY <1>1, <1>2, <2>0, <2>1, Zenon DEF Silent
    <2>2. ASSUME NEW k \in 1..Len(t), i = k + 1
          PROVE  Brings(t, p, m)
      BY <1>1, <1>2, <2>0, <2>2, Z3 DEF Brings
    <2>. QED  BY <1>2, <2>1, <2>2, Zenon
  <1>8. Carries(s, p) => Carries(t, p) \/ e.path = p \/ (p \in Dir /\ e.path = DirSignal)
    <2>. HAVE Carries(s, p)
    <2>0. PICK i \in 1..Len(s) : s[i].path = p \/ (p \in Dir /\ s[i].path = DirSignal)
      BY Zenon DEF Carries
    <2>1. CASE i = 1
      BY <1>1, <2>0, <2>1, Zenon
    <2>2. ASSUME NEW k \in 1..Len(t), i = k + 1
          PROVE  Carries(t, p)
      BY <1>1, <2>0, <2>2, Zenon DEF Carries
    <2>. QED  BY <1>2, <2>1, <2>2, Zenon
  <1>. QED  BY <1>1, <1>3, <1>4, <1>5, <1>6, <1>7, <1>8, Zenon

Parted(s, f, t, p, m) ==
    /\ Mute(s, p) => Mute(f, p) /\ Mute(t, p)
    /\ Says(s, p, m) => Says(t, p, m) \/ (Mute(t, p) /\ Says(f, p, m))
    /\ Heard(s, p) => Heard(f, p) \/ Heard(t, p)

\* A batch taken from the queue and what is left of it say what the queue said.
LEMMA Taken ==
    ASSUME NEW S, NEW s \in Seq(S), NEW n \in 1..Len(s), NEW f, f = SubSeq(s, 1, n),
           NEW t, t = SubSeq(s, n + 1, Len(s)), NEW p, NEW m
    PROVE  f \in Seq(S) /\ t \in Seq(S) /\ Parted(s, f, t, p, m)
  <1>1. /\ Len(s) \in Nat /\ n \in Nat /\ Len(f) = n /\ Len(t) = Len(s) - n
        /\ \A i \in 1..Len(f) : f[i] = s[i]
        /\ \A i \in 1..Len(t) : t[i] = s[n + i]
        /\ f \in Seq(S) /\ t \in Seq(S)
    BY Z3
  <1>2. /\ \A i \in 1..Len(f) : i \in 1..Len(s)
        /\ \A i \in 1..Len(t) : n + i \in 1..Len(s)
        /\ \A i \in 1..Len(f), j \in 1..Len(t) : i < n + j
        /\ \A i, j \in 1..Len(t) : i < j => n + i < n + j
        /\ \A i \in 1..Len(s) : i \in 1..Len(f) \/ \E k \in 1..Len(t) : i = n + k
    <2>1. \A i \in 1..Len(s) : i \in 1..Len(f) \/ (i - n \in 1..Len(t) /\ i = n + (i - n))
      BY ONLY <1>1, Z3
    <2>2. /\ \A i \in 1..Len(f) : i \in 1..Len(s)
          /\ \A i \in 1..Len(t) : n + i \in 1..Len(s)
          /\ \A i \in 1..Len(f), j \in 1..Len(t) : i < n + j
          /\ \A i, j \in 1..Len(t) : i < j => n + i < n + j
      BY ONLY <1>1, Z3
    <2>. QED  BY <2>1, <2>2, Zenon
  <1>3. Mute(s, p) => Mute(f, p) /\ Mute(t, p)
    BY <1>1, <1>2, Zenon DEF Mute
  <1>4. Says(s, p, m) => Says(t, p, m) \/ (Mute(t, p) /\ Says(f, p, m))
    <2>. HAVE Says(s, p, m)
    <2>0. PICK i \in 1..Len(s) : /\ About(s[i], p) /\ (s[i].kind = "Remove" <=> m = NoMeta)
                                 /\ \A j \in 1..Len(s) : i < j => ~About(s[j], p)
      BY Zenon DEF Says
    <2>1. ASSUME i \in 1..Len(f)
          PROVE  Mute(t, p) /\ Says(f, p, m)
      <3>1. Mute(t, p)
        BY <1>1, <1>2, <2>0, <2>1, Zenon DEF Mute
      <3>2. f[i] = s[i] /\ \A j \in 1..Len(f) : i < j => ~About(f[j], p)
        BY <1>1, <1>2, <2>0, <2>1, Zenon
      <3>. QED  BY <2>0, <2>1, <3>1, <3>2, Zenon DEF Says
    <2>2. ASSUME NEW k \in 1..Len(t), i = n + k
          PROVE  Says(t, p, m)
      <3>1. t[k] = s[i] /\ \A j \in 1..Len(t) : k < j => ~About(t[j], p)
        BY <1>1, <1>2, <2>0, <2>2, Zenon
      <3>. QED  BY <2>0, <3>1, Zenon DEF Says
    <2>3. i \in 1..Len(f) \/ \E k \in 1..Len(t) : i = n + k
      BY <1>2, Zenon
    <2>. QED  BY <2>1, <2>2, <2>3, Zenon
  <1>5. Heard(s, p) => Heard(f, p) \/ Heard(t, p)
    <2>. HAVE Heard(s, p)
    <2>0. PICK i \in 1..Len(s) : s[i].kind = "Rescan" \/ About(s[i], p)
      BY Zenon DEF Heard
    <2>1. ASSUME i \in 1..Len(f) PROVE Heard(f, p)
      BY <1>1, <2>0, <2>1, Zenon DEF Heard
    <2>2. ASSUME NEW k \in 1..Len(t), i = n + k PROVE Heard(t, p)
      BY <1>1, <2>0, <2>2, Zenon DEF Heard
    <2>3. i \in 1..Len(f) \/ \E k \in 1..Len(t) : i = n + k
      BY <1>2, Zenon
    <2>. QED  BY <2>1, <2>2, <2>3, Zenon
  <1>. QED  BY <1>1, <1>3, <1>4, <1>5, Zenon DEF Parted

\* Nothing says nothing.
LEMMA Nothing ==
    ASSUME NEW p, NEW m
    PROVE  /\ Mute(<<>>, p) /\ ~Says(<<>>, p, m) /\ ~Heard(<<>>, p)
           /\ Silent(<<>>, p) /\ ~Brings(<<>>, p, m) /\ ~Carries(<<>>, p)
  <1>1. \A i \in 1..Len(<<>>) : FALSE
    BY Z3
  <1>. QED  BY <1>1, Zenon DEF Mute, Says, Heard, Silent, Brings, Carries

-----------------------------------------------------------------------------
(* What an index says of a path. *)
Shows(r, p) == IF p \in Live(r.tree) THEN r.tree.entries[p].meta ELSE NoMeta

\* An entry that stays says what it said.
LEMMA ShownSame ==
    ASSUME NEW r, NEW u, NEW p \in Paths, u.tree.entries[p] = r.tree.entries[p]
    PROVE  Shows(u, p) = Shows(r, p) /\ (contains(u.tree, p) <=> contains(r.tree, p))
  BY Zenon DEF Shows, Live, Known, contains

\* A crawl leaves what it found.
LEMMA CrawlShown ==
    ASSUME NEW scan \in Scans, NEW tick \in Nat, NEW u, u.tree = Crawled(scan, tick),
           NEW p \in Paths
    PROVE  Shows(u, p) = IF p \in DOMAIN scan THEN scan[p] ELSE NoMeta
  <1>1. contains(u.tree, p) <=> p \in DOMAIN scan
    BY CrawledOK, Zenon
  <1>2. p \in DOMAIN scan => u.tree.entries[p] = from_metadata(scan[p], tick, FALSE, tick)
    BY Z3 DEF Crawled
  <1>3. p \in DOMAIN scan => u.tree.entries[p].exists /\ u.tree.entries[p].meta = scan[p]
    BY <1>2, Z3 DEF from_metadata
  <1>. QED  BY <1>1, <1>3, Zenon DEF Shows, Live, Known

\* A change of a full index leaves what it brings.
LEMMA ChangeShown ==
    ASSUME NEW r \in RootType, CountersExact(r.tree), ~r.jj_events, NEW tick \in Nat,
           NEW c \in PathChange, NEW u, u = apply_one(r, tick, c), NEW m, Gives(c, m)
    PROVE  Shows(u, c.path) = m
  <1>. DEFINE p == c.path
              t == r.tree
              known == contains(t, p)
              cclock == IF known THEN t.entries[p].cclock ELSE tick
  <1>1. Changed(r, tick, c, u)
    BY ApplyOneOK, Zenon
  <1>2. p \in Paths /\ t.entries \in [Paths -> Entry \cup {NoEntry}]
    BY <1>1, RootFacts, TreeFacts, Zenon DEF Changed
  <1>3. CASE c.op = "Upsert"
    <2>1. u.tree = upsert(t, p, c.meta, tick, ~known, cclock)
      BY <1>3, Zenon DEF apply_one, RootState
    <2>2. u.tree.entries = [t.entries EXCEPT ![p] = from_metadata(c.meta, tick, ~known, cclock)]
      BY <2>1, Z3 DEF upsert, insert
    <2>3. u.tree.entries[p] = from_metadata(c.meta, tick, ~known, cclock)
      BY <1>2, <2>2, Zenon
    <2>4. u.tree.entries[p].exists /\ u.tree.entries[p].meta = c.meta
      BY <2>3, Z3 DEF from_metadata
    <2>5. contains(u.tree, p) /\ c.meta = m
      BY <1>1, <1>3, Zenon DEF Changed, Gives
    <2>. QED  BY <1>2, <2>4, <2>5, Zenon DEF Shows, Live, Known
  <1>4. CASE c.op = "Remove" /\ known
    <2>1. u.tree = mark_gone(t, p, tick)
      BY <1>4, Zenon DEF apply_one, RootState
    <2>2. u.tree.entries = [t.entries EXCEPT ![p] = gone(t.entries[p].meta, tick, t.entries[p].cclock)]
      BY <1>4, <2>1, Z3 DEF mark_gone, insert
    <2>3. ~u.tree.entries[p].exists
      BY <1>2, <2>2, Z3 DEF gone
    <2>. QED  BY <1>4, <2>3, Zenon DEF Shows, Live, Gives
  <1>5. CASE c.op = "Remove" /\ ~known
    <2>1. u.tree = t
      BY <1>1, <1>5, Zenon DEF Changed
    <2>. QED  BY <1>5, <2>1, Zenon DEF Shows, Live, Known, Gives
  <1>. QED  BY <1>3, <1>4, <1>5, Zenon DEF Gives

-----------------------------------------------------------------------------
(* The disk and the kernel. *)

\* The types the steps below use.
LEMMA TypeFacts ==
    ASSUME TypeInv
    PROVE  /\ root \in RootType /\ root.ticks \in Nat /\ root.oldest_available_tick \in Nat
           /\ root.jj_events \in BOOLEAN /\ CountersExact(root.tree)
           /\ \A p \in Known(root.tree) : p \in Paths /\ root.tree.entries[p].oclock \in Nat
           /\ Len(queue) \in Nat /\ clk \in Nat
           /\ \A p \in DOMAIN disk : p \in Paths /\ p # DirSignal /\ disk[p] \in Stats
  <1>1. queue \in Seq(Event) => Len(queue) \in Nat
    BY Z3
  <1>2. root \in RootType /\ root.tree \in TreeType
    BY RootFacts, Zenon DEF TypeInv
  <1>3. \A p \in Known(root.tree) : p \in Paths /\ root.tree.entries[p] \in Entry
    BY <1>2, TreeFacts, Zenon
  <1>4. \A e \in Entry : e.oclock \in Nat
    BY Zenon DEF Entry
  <1>. QED  BY <1>1, <1>2, <1>3, <1>4, RootFacts, Zenon DEF TypeInv

\* An event about other paths changes nothing for a path.
LEMMA Grows ==
    ASSUME queue \in Seq(Event), NEW e \in Event, queue' = Append(queue, e), events' = events,
           NEW p, ~About(e, p), disk'[p] = disk[p]
    PROVE  /\ Told(p) => Told(p)'
           /\ Quiet(p) => Quiet(p)'
           /\ Heard(queue, p) => Heard(queue', p)
  <1>1. /\ Mute(queue, p) => Mute(queue', p)
        /\ Says(queue, p, disk[p]) => Says(queue', p, disk[p])
        /\ Heard(queue, p) => Heard(queue', p)
    BY Appended, Zenon
  <1>. QED  BY <1>1, Zenon DEF Told, Quiet

\* A file that is read leaves an event that says nothing.
LEMMA AccessStep ==
    ASSUME IInv, NEW q \in DOMAIN disk, Access(q)
    PROVE  IInv'
  <1>. DEFINE e == [kind |-> "Access", path |-> q]
  <1>1. /\ queue' = Append(queue, e)
        /\ UNCHANGED <<disk, attached, root, wpc, events, jj_mode, out, scope, op, todo, got,
                       seen, clk, gap, dropped, raced, crawled>>
    BY Zenon DEF Access, Queue, loop, crawl, client, history
  <1>2. e \in Event /\ \A p : ~About(e, p)
    BY Z3 DEF Event, About
  <1>3. queue \in Seq(Event)
    BY Zenon DEF IInv, TypeInv
  <1>. HIDE DEF e
  <1>4. \A p : /\ Told(p) => Told(p)'
               /\ Quiet(p) => Quiet(p)'
               /\ Heard(queue, p) => Heard(queue', p)
    BY <1>1, <1>2, <1>3, Grows, Zenon
  <1>5. TypeInv'
    <2>1. queue' \in Seq(Event)
      BY <1>1, <1>2, <1>3, Z3
    <2>2. Event' = Event
      BY <1>1, Zenon DEF Event
    <2>. QED  BY <1>1, <2>1, <2>2, Zenon DEF IInv, TypeInv
  <1>6. PhaseInv'
    <2>1. attached
      BY Zenon DEF Access
    <2>. QED  BY <1>1, <2>1, Zenon DEF IInv, PhaseInv, World
  <1>7. QueueInv'
    BY <1>1, <1>4, Zenon DEF IInv, QueueInv, MayBeFull, World
  <1>8. CrawlInv'
    BY <1>1, <1>4, Zenon DEF IInv, CrawlInv, Got
  <1>9. IndexInv'
    BY <1>1, <1>4, Zenon DEF IInv, IndexInv, IndexOK, Indexed
  <1>10. JjInv'
    BY <1>1, <1>4, Zenon DEF IInv, JjInv, Due, Newer, Outdated
  <1>11. FullInv'
    BY <1>1, Zenon DEF IInv, FullInv, Newer, Outdated, Indexed
  <1>. QED  BY <1>5, <1>6, <1>7, <1>8, <1>9, <1>10, <1>11, Zenon DEF IInv

\* A change on disk is announced, dropped with the queue full, or made before
\* there is a watch.
LEMMA FsStep ==
    ASSUME IInv, NEW p \in DOMAIN disk, NEW md \in Stats, Fs(p, md)
    PROVE  IInv'
  <1>. DEFINE e == [kind |-> IF md = NoMeta THEN "Remove" ELSE "Change", path |-> p]
              lost == [kind |-> "Rescan"]
  <1>1. /\ disk' = [disk EXCEPT ![p] = md] /\ Queue(e)
        /\ gap' = IF attached \/ root.jj_events THEN gap \ {p} ELSE gap \cup {p}
        /\ dropped' = IF attached /\ Overflowing /\ MayBeFull THEN dropped \cup {p}
                      ELSE dropped \ {p}
        /\ raced' = IF op = "recrawl" /\ p \notin todo THEN raced \cup {p} ELSE raced \ {p}
        /\ UNCHANGED <<attached, root, wpc, events, jj_mode, out, scope, op, todo, got,
                       seen, clk, crawled>>
    BY Zenon DEF Fs, loop, crawl, client
  <1>2. /\ e \in Event /\ \A q : About(e, q) <=> q = p
        /\ e.kind = "Remove" <=> md = NoMeta
    BY Z3 DEF Event, About
  <1>3. lost \in Event /\ lost.kind = "Rescan" /\ \A q : ~About(lost, q)
    BY Z3 DEF Event, About
  <1>. HIDE DEF e, lost
  <1>4. queue \in Seq(Event) /\ p \in Paths /\ Len(queue) \in Nat
    BY TypeFacts, Zenon DEF IInv, TypeInv
  <1>5. /\ DOMAIN disk' = DOMAIN disk /\ disk'[p] = md
        /\ \A q \in DOMAIN disk : q # p => disk'[q] = disk[q]
    BY <1>1, Zenon
  <1>6. World' = World /\ MayBeFull' = MayBeFull /\ Event' = Event
    BY <1>1, <1>5, Zenon DEF World, MayBeFull, Event
  <1>7. /\ ~attached => queue' = queue
        /\ attached /\ ~Overflowing => queue' = Append(queue, e)
        /\ attached /\ Overflowing => \/ queue[Len(queue)].kind = "Rescan" /\ queue' = queue
                                      \/ queue' = Append(queue, lost)
    BY <1>1, Zenon DEF Queue, lost
  <1>8. ASSUME NEW q \in DOMAIN disk, q # p
        PROVE  /\ Told(q) => Told(q)'
               /\ Quiet(q) => Quiet(q)'
               /\ Heard(queue, q) => Heard(queue', q)
    <2>1. CASE queue' = queue
      BY <1>1, <1>5, <1>8, <2>1, Zenon DEF Told, Quiet
    <2>2. CASE queue' = Append(queue, e)
      BY <1>1, <1>2, <1>4, <1>5, <1>8, <2>2, Grows, Zenon
    <2>3. CASE queue' = Append(queue, lost)
      BY <1>1, <1>3, <1>4, <1>5, <1>8, <2>3, Grows, Zenon
    <2>. QED  BY <1>7, <2>1, <2>2, <2>3, Zenon
  <1>9. attached => \/ Told(p)'
                    \/ Overflowing
    <2>. HAVE attached
    <2>1. CASE ~Overflowing
      <3>1. queue' = Append(queue, e)
        BY <1>7, <2>1, Zenon
      <3>2. Says(queue', p, md)
        BY <1>2, <1>4, <3>1, Appended, Zenon
      <3>. QED  BY <1>5, <3>2, Zenon DEF Told
    <2>. QED  BY <2>1, Zenon
  <1>10. attached => Heard(queue', p)
    <2>. HAVE attached
    <2>1. CASE queue' = Append(queue, e)
      BY <1>2, <1>4, <2>1, Appended, Zenon
    <2>2. CASE queue' = Append(queue, lost)
      BY <1>3, <1>4, <2>2, Appended, Zenon
    <2>3. CASE Overflowing /\ queue[Len(queue)].kind = "Rescan" /\ queue' = queue
      <3>1. Len(queue) \in 1..Len(queue)
        BY <1>4, <2>3, WatcherAssumption, Z3 DEF Overflowing
      <3>. QED  BY <2>3, <3>1, Zenon DEF Heard
    <2>. QED  BY <1>7, <2>1, <2>2, <2>3, Zenon
  <1>11. TypeInv'
    <2>1. queue' \in Seq(Event)
      <3>1. Append(queue, e) \in Seq(Event) /\ Append(queue, lost) \in Seq(Event)
        BY <1>2, <1>3, <1>4, Z3
      <3>. QED  BY <1>4, <1>7, <3>1, Zenon
    <2>2. disk' \in [DOMAIN disk -> Stats]
      BY <1>1, Zenon DEF IInv, TypeInv
    <2>. QED  BY <1>1, <1>5, <1>6, <2>1, <2>2, Zenon DEF IInv, TypeInv
  <1>12. PhaseInv'
    BY <1>1, <1>6, <1>7, Zenon DEF IInv, PhaseInv
  <1>13. QueueInv'
    BY <1>1, <1>5, <1>6, <1>8, <1>9, Zenon DEF IInv, QueueInv
  <1>14. CrawlInv'
    <2>1. op = "promote" => MayBeFull
      BY Zenon DEF IInv, PhaseInv, MayBeFull
    <2>2. op = "register" <=> ~attached
      BY Zenon DEF IInv, PhaseInv
    <2>3. \A q : Got(q)' = Got(q)
      BY <1>1, Zenon DEF Got
    <2>4. op = "register" /\ ~root.jj_events /\ root.ticks = 1 =>
             \A q \in DOMAIN disk \ (todo \cup gap') : Got(q) = disk'[q]
      BY <1>1, <1>5, <2>2, Zenon DEF IInv, CrawlInv
    <2>5. op = "promote" => \A q \in DOMAIN disk \ (todo \cup dropped') : Told(q)' \/ Got(q) = disk'[q]
      BY <1>1, <1>5, <1>8, <1>9, <2>1, <2>2, Zenon DEF IInv, CrawlInv
    <2>6. op = "recrawl" => \A q \in DOMAIN disk \ (todo \cup raced') : Got(q) = disk'[q]
      BY <1>1, <1>5, Zenon DEF IInv, CrawlInv
    <2>. QED  BY <1>1, <1>5, <2>3, <2>4, <2>5, <2>6, Zenon DEF CrawlInv
  <1>15. IndexInv'
    <2>1. ASSUME ~root.jj_events, attached \/ root.ticks > 1,
                 NEW q \in DOMAIN disk \ (gap' \cup dropped' \cup raced')
          PROVE  IndexOK(q)'
      <3>1. CASE q = p
        <4>1. attached /\ MayBeFull
          BY <1>1, <2>1, <3>1, Zenon DEF MayBeFull
        <4>. QED  BY <1>1, <1>9, <2>1, <3>1, <4>1, Zenon DEF IndexOK
      <3>2. CASE q # p
        <4>1. IndexOK(q)
          BY <1>1, <2>1, <3>2, Zenon DEF IInv, IndexInv
        <4>. QED  BY <1>1, <1>5, <1>8, <3>2, <4>1, Zenon DEF IndexOK, Indexed
      <3>. QED  BY <3>1, <3>2, Zenon
    <2>. QED  BY <1>1, <1>5, <2>1, Zenon DEF IndexInv
  <1>16. JjInv'
    <2>1. clk > 0 => attached
      BY Z3 DEF IInv, PhaseInv
    <2>2. ASSUME root.jj_events, clk > 0, NEW q \in DOMAIN disk
          PROVE  seen[q] = disk'[q] \/ Outdated \/ Due(q)'
      <3>1. CASE q = p
        BY <1>10, <2>1, <2>2, <3>1, Zenon DEF Due
      <3>2. CASE q # p
        <4>1. seen[q] = disk[q] \/ Outdated \/ Due(q)
          BY <2>2, Zenon DEF IInv, JjInv
        <4>. QED  BY <1>1, <1>5, <1>8, <3>2, <4>1, Zenon DEF Due, Newer
      <3>. QED  BY <3>1, <3>2, Zenon
    <2>. QED  BY <1>1, <1>5, <2>2, Zenon DEF JjInv, Outdated
  <1>17. FullInv'
    BY <1>1, <1>5, Zenon DEF IInv, FullInv, Newer, Outdated, Indexed
  <1>. QED  BY <1>11, <1>12, <1>13, <1>14, <1>15, <1>16, <1>17, Zenon DEF IInv

-----------------------------------------------------------------------------
(* Crawls. *)

\* What a crawl finds is so when it finds it.
LEMMA StatStep ==
    ASSUME IInv, NEW p \in DOMAIN disk, Stat(p)
    PROVE  IInv'
  <1>1. /\ p \in todo /\ todo' = todo \ {p}
        /\ got' = IF disk[p] = NoMeta THEN got
                  ELSE [q \in DOMAIN got \cup {p} |-> IF q = p THEN disk[p] ELSE got[q]]
        /\ UNCHANGED <<disk, attached, queue, root, wpc, events, jj_mode, out, scope, op,
                       seen, clk, gap, dropped, raced, crawled>>
    BY Zenon DEF Stat, loop, client, history
  <1>2. /\ got \in Scans /\ DOMAIN got \subseteq DOMAIN disk \ todo /\ todo \subseteq DOMAIN disk
        /\ p \in Paths /\ disk[p] \in Stats
    BY TypeFacts, Zenon DEF IInv, TypeInv
  <1>3. /\ got' \in Scans /\ DOMAIN got' \subseteq DOMAIN disk \ todo'
        /\ Got(p)' = disk[p]
        /\ \A q : q # p => Got(q)' = Got(q)
    <2>1. CASE disk[p] = NoMeta
      BY <1>1, <1>2, <2>1, Zenon DEF Got
    <2>2. CASE disk[p] # NoMeta
      <3>1. /\ DOMAIN got' = DOMAIN got \cup {p} /\ got'[p] = disk[p]
            /\ \A q \in DOMAIN got : got'[q] = got[q]
            /\ got' = [q \in DOMAIN got' |-> got'[q]]
        BY <1>1, <1>2, <2>2, Zenon
      <3>2. disk[p] \in Metas /\ DOMAIN got \subseteq Paths /\ \A q \in DOMAIN got : got[q] \in Metas
        BY <1>2, <2>2, ScanFacts, Zenon DEF Stats
      <3>3. got' \in [DOMAIN got' -> Metas] /\ DOMAIN got' \in SUBSET Paths
        BY <1>2, <3>1, <3>2, Zenon
      <3>4. got' \in Scans
        BY <3>3, Zenon DEF Scans
      <3>5. DOMAIN got' \subseteq DOMAIN disk \ todo'
        BY <1>1, <1>2, <3>1, Zenon
      <3>. QED  BY <3>1, <3>4, <3>5, Zenon DEF Got
    <2>. QED  BY <2>1, <2>2, Zenon
  <1>4. TypeInv'
    <2>1. Event' = Event
      BY <1>1, Zenon DEF Event
    <2>. QED  BY <1>1, <1>2, <1>3, <2>1, Zenon DEF IInv, TypeInv
  <1>5. PhaseInv' /\ QueueInv'
    BY <1>1, Zenon DEF IInv, PhaseInv, QueueInv, MayBeFull, World, Told, Quiet
  <1>6. CrawlInv'
    BY <1>1, <1>3, Zenon DEF IInv, CrawlInv, Told
  <1>7. IndexInv' /\ FullInv'
    BY <1>1, Zenon DEF IInv, IndexInv, IndexOK, Told, Quiet, Indexed, FullInv, Newer, Outdated
  <1>8. JjInv'
    BY <1>1, Zenon DEF IInv, JjInv, Due, Newer, Outdated
  <1>. QED  BY <1>4, <1>5, <1>6, <1>7, <1>8, Zenon DEF IInv

\* No crawl has found anything.
LEMMA NoScan == NoPaths \in Scans /\ DOMAIN NoPaths = {}
  <1>1. NoPaths \in [{} -> Metas] /\ DOMAIN NoPaths = {}
    BY Zenon DEF NoPaths
  <1>. QED  BY <1>1, Zenon DEF Scans

\* A step of a crawl that changes neither disk, queue, index nor client.
LEMMA CrawlOnly ==
    ASSUME IInv, UNCHANGED <<disk, attached, queue, root, wpc, events, jj_mode, out, scope,
                             seen, clk, gap, dropped, raced, crawled>>,
           todo' \subseteq DOMAIN disk, got' = NoPaths, op' \in {"promote", "recrawl", "none"},
           attached, op' = "promote" => wpc = "wait" /\ root.jj_events /\ "promote" \in World.crawls,
           op' = "recrawl" => ~root.jj_events,
           op' # "none" => todo' = DOMAIN disk
    PROVE  IInv'
  <1>1. TypeInv'
    <2>1. Event' = Event
      BY Zenon DEF Event
    <2>. QED  BY <2>1, NoScan, Zenon DEF IInv, TypeInv
  <1>2. PhaseInv'
    BY Zenon DEF IInv, PhaseInv, World
  <1>3. QueueInv'
    BY Zenon DEF IInv, QueueInv, MayBeFull, World, Told, Quiet
  <1>4. CrawlInv'
    BY Zenon DEF CrawlInv
  <1>5. IndexInv' /\ FullInv'
    BY Zenon DEF IInv, IndexInv, IndexOK, Told, Quiet, Indexed, FullInv, Newer, Outdated
  <1>6. JjInv'
    BY Zenon DEF IInv, JjInv, Due, Newer, Outdated
  <1>. QED  BY <1>1, <1>2, <1>3, <1>4, <1>5, <1>6, Zenon DEF IInv

\* The locks a promotion takes, and the start of a recrawl.
LEMMA CrawlBegins ==
    ASSUME IInv, PromoteBegin \/ RecrawlBegin
    PROVE  IInv'
  <1>1. attached
    BY Zenon DEF IInv, PhaseInv, PromoteBegin, RecrawlBegin
  <1>2. /\ UNCHANGED <<disk, attached, queue, root, wpc, events, jj_mode, out, scope,
                       seen, clk, gap, dropped, raced, crawled>>
        /\ todo' = DOMAIN disk /\ got' = NoPaths
    BY Zenon DEF PromoteBegin, RecrawlBegin, loop, client, history
  <1>3. /\ op' \in {"promote", "recrawl", "none"}
        /\ op' = "promote" => wpc = "wait" /\ root.jj_events /\ "promote" \in World.crawls
        /\ op' = "recrawl" => ~root.jj_events
    BY Z3 DEF PromoteBegin, RecrawlBegin
  <1>. QED  BY <1>1, <1>2, <1>3, CrawlOnly, Zenon

\* register_root seeds the index with what its crawl found.
LEMMA SeedStep ==
    ASSUME IInv, Seed
    PROVE  IInv'
  <1>1. /\ op = "register" /\ todo = {} /\ root.ticks = 1 /\ root' = seed(root, got)
        /\ UNCHANGED <<disk, attached, queue, wpc, events, jj_mode, out, scope, op, todo, got,
                       seen, clk, gap, dropped, raced, crawled>>
    BY Zenon DEF Seed, Scanned, loop, crawl, client, history
  <1>2. /\ ~attached /\ queue = <<>> /\ events = <<>> /\ out = <<>> /\ wpc = "wait" /\ clk = 0
        /\ crawled = {}
    BY <1>1, Zenon DEF IInv, PhaseInv
  <1>3. root \in RootType /\ got \in Scans /\ root.ticks + 1 \in Nat
    BY <1>1, TypeFacts, Z3 DEF IInv, TypeInv
  <1>4. /\ root' \in RootType /\ CountersExact(root'.tree)
        /\ root'.ticks = root.ticks + 1 /\ root'.jj_events = root.jj_events
    BY <1>1, <1>3, SeedOK, Zenon
  <1>5. root'.tree = Crawled(got, root.ticks + 1)
    BY <1>1, Z3 DEF seed, RootState
  <1>6. \A p \in DOMAIN disk : Indexed(p)' = Got(p)
    <2>1. \A p \in DOMAIN disk : p \in Paths
      BY TypeFacts, Zenon DEF IInv
    <2>. QED  BY <1>3, <1>5, <2>1, CrawlShown, Zenon DEF Indexed, Shows, Got
  <1>7. root'.ticks # 1 /\ root'.ticks >= 0
    BY <1>1, <1>4, Z3
  <1>8. TypeInv'
    <2>1. Event' = Event
      BY <1>1, Zenon DEF Event
    <2>. QED  BY <1>1, <1>4, <2>1, Zenon DEF IInv, TypeInv
  <1>9. PhaseInv'
    <2>1. clk' <= root'.ticks
      BY <1>1, <1>2, <1>4, Z3
    <2>. QED  BY <1>1, <1>2, <2>1, Zenon DEF PhaseInv
  <1>10. QueueInv' /\ CrawlInv'
    BY <1>1, <1>2, <1>7, Zenon DEF QueueInv, CrawlInv
  <1>11. IndexInv'
    <2>1. ASSUME ~root.jj_events, NEW p \in DOMAIN disk \ (gap \cup dropped \cup raced)
          PROVE  IndexOK(p)'
      <3>1. Got(p) = disk[p]
        BY <1>1, <2>1, Zenon DEF IInv, CrawlInv
      <3>. QED  BY <1>1, <1>2, <1>6, <3>1, Nothing, Zenon DEF IndexOK, Quiet
    <2>. QED  BY <1>1, <1>4, <2>1, Zenon DEF IndexInv
  <1>12. JjInv' /\ FullInv'
    <2>1. ~(clk' > 0)
      BY <1>1, <1>2, Z3
    <2>. QED  BY <2>1, Zenon DEF JjInv, FullInv
  <1>. QED  BY <1>8, <1>9, <1>10, <1>11, <1>12, Zenon DEF IInv

\* The watch is attached before anybody can ask.
LEMMA AttachStep ==
    ASSUME IInv, Attach
    PROVE  IInv'
  <1>1. /\ op = "register" /\ root.ticks > 1 /\ attached' = TRUE
        /\ op' = "none" /\ todo' = {} /\ got' = NoPaths
        /\ UNCHANGED <<disk, queue, root, wpc, events, jj_mode, out, scope,
                       seen, clk, gap, dropped, raced, crawled>>
    BY Zenon DEF Attach, EndCrawl, loop, client, history
  <1>2. queue = <<>> /\ events = <<>> /\ wpc = "wait" /\ clk = 0
    BY <1>1, Zenon DEF IInv, PhaseInv
  <1>3. TypeInv'
    <2>1. Event' = Event
      BY <1>1, Zenon DEF Event
    <2>. QED  BY <1>1, <2>1, NoScan, Zenon DEF IInv, TypeInv
  <1>4. PhaseInv'
    BY <1>1, <1>2, Zenon DEF IInv, PhaseInv
  <1>5. QueueInv'
    BY <1>1, <1>2, Nothing, Zenon DEF QueueInv, Quiet
  <1>6. CrawlInv'
    BY <1>1, Zenon DEF CrawlInv
  <1>7. IndexInv'
    BY <1>1, Zenon DEF IInv, IndexInv, IndexOK, Told, Quiet, Indexed
  <1>8. JjInv' /\ FullInv'
    <2>1. ~(clk' > 0)
      BY <1>1, <1>2, Z3
    <2>. QED  BY <2>1, Zenon DEF JjInv, FullInv
  <1>. QED  BY <1>3, <1>4, <1>5, <1>6, <1>7, <1>8, Zenon DEF IInv

\* A promotion's index is the disk, but for what events are to put right, and
\* no clock from before it is answered.
LEMMA PromoteStep ==
    ASSUME IInv, PromoteEnd
    PROVE  IInv'
  <1>1. /\ op = "promote" /\ todo = {} /\ root' = promote_to_full(root, got)
        /\ op' = "none" /\ todo' = {} /\ got' = NoPaths
        /\ UNCHANGED <<disk, attached, queue, wpc, events, jj_mode, out, scope,
                       seen, clk, gap, dropped, raced, crawled>>
    BY Zenon DEF PromoteEnd, Scanned, EndCrawl, loop, client, history
  <1>2. /\ attached /\ root.jj_events /\ wpc = "wait" /\ out = <<>> /\ crawled = {}
        /\ clk <= root.ticks /\ MayBeFull
    BY <1>1, Zenon DEF IInv, PhaseInv, MayBeFull
  <1>3. root \in RootType /\ got \in Scans /\ root.ticks \in Nat /\ root.ticks + 1 \in Nat /\ clk \in Nat
    BY TypeFacts, Z3 DEF IInv, TypeInv
  <1>4. Promoted(root, got, root')
    BY <1>1, <1>2, <1>3, PromoteOK, Zenon
  <1>5. root'.tree = Crawled(got, root.ticks + 1)
    BY <1>1, <1>2, Z3 DEF promote_to_full, RootState
  <1>6. \A p \in DOMAIN disk : Indexed(p)' = Got(p)
    <2>1. \A p \in DOMAIN disk : p \in Paths
      BY TypeFacts, Zenon DEF IInv
    <2>. QED  BY <1>3, <1>5, <2>1, CrawlShown, Zenon DEF Indexed, Shows, Got
  <1>7. clk < root.ticks + 1 /\ clk <= root.ticks + 1
    BY <1>2, <1>3, Z3
  <1>8. TypeInv'
    <2>1. Event' = Event
      BY <1>1, Zenon DEF Event
    <2>. QED  BY <1>1, <1>4, <2>1, NoScan, Zenon DEF IInv, TypeInv, Promoted
  <1>9. PhaseInv'
    BY <1>1, <1>2, <1>4, <1>7, Zenon DEF IInv, PhaseInv, Promoted
  <1>10. QueueInv'
    BY <1>1, <1>2, Zenon DEF IInv, QueueInv, Told, Quiet
  <1>11. CrawlInv'
    BY <1>1, Zenon DEF CrawlInv
  <1>12. IndexInv'
    <2>1. ASSUME NEW p \in DOMAIN disk \ dropped
          PROVE  IndexOK(p)'
      <3>1. Told(p) \/ Quiet(p)
        BY <1>2, Zenon DEF IInv, QueueInv
      <3>2. Told(p) \/ Got(p) = disk[p]
        BY <1>1, Zenon DEF IInv, CrawlInv
      <3>3. (Told(p)' <=> Told(p)) /\ (Quiet(p)' <=> Quiet(p))
        BY <1>1, Zenon DEF Told, Quiet
      <3>. QED  BY <1>1, <1>2, <1>6, <3>1, <3>2, <3>3, Nothing, Zenon DEF IndexOK
    <2>. QED  BY <1>1, <2>1, Zenon DEF IndexInv
  <1>13. JjInv'
    BY <1>4, Zenon DEF JjInv, Promoted
  <1>14. FullInv'
    BY <1>1, <1>4, <1>7, Zenon DEF FullInv, Outdated, Promoted
  <1>. QED  BY <1>8, <1>9, <1>10, <1>11, <1>12, <1>13, <1>14, Zenon DEF IInv

\* A recrawl replaces the index by what it found; what it found is news to
\* every client.
LEMMA RecrawlStep ==
    ASSUME IInv, RecrawlEnd
    PROVE  IInv'
  <1>1. /\ op = "recrawl" /\ todo = {} /\ wpc # "apply" /\ root' = seed(root, got)
        /\ crawled' = (crawled \cup Known(root.tree)) \ DOMAIN got
        /\ op' = "none" /\ todo' = {} /\ got' = NoPaths
        /\ UNCHANGED <<disk, attached, queue, wpc, events, jj_mode, out, scope,
                       seen, clk, gap, dropped, raced>>
    BY Zenon DEF RecrawlEnd, Scanned, EndCrawl, Unlocked, loop, client
  <1>2. attached /\ ~root.jj_events /\ clk <= root.ticks
    BY <1>1, Zenon DEF IInv, PhaseInv
  <1>3. root \in RootType /\ got \in Scans /\ root.ticks \in Nat /\ root.ticks + 1 \in Nat /\ clk \in Nat
    BY TypeFacts, Z3 DEF IInv, TypeInv
  <1>4. /\ root' \in RootType /\ CountersExact(root'.tree)
        /\ root'.ticks = root.ticks + 1 /\ root'.jj_events = root.jj_events
        /\ root'.oldest_available_tick = root.oldest_available_tick
        /\ \A p \in Paths :
              /\ contains(root'.tree, p) <=> p \in DOMAIN got
              /\ p \in DOMAIN got => root'.tree.entries[p].oclock = root.ticks + 1
    BY <1>1, <1>3, SeedOK, Zenon
  <1>5. root'.tree = Crawled(got, root.ticks + 1)
    BY <1>1, Z3 DEF seed, RootState
  <1>6. \A p \in DOMAIN disk : p \in Paths /\ Indexed(p)' = Got(p)
    <2>1. \A p \in DOMAIN disk : p \in Paths
      BY TypeFacts, Zenon DEF IInv
    <2>. QED  BY <1>3, <1>5, <2>1, CrawlShown, Zenon DEF Indexed, Shows, Got
  <1>7. root.ticks + 1 > clk /\ clk <= root.ticks + 1
    BY <1>2, <1>3, Z3
  <1>8. TypeInv'
    <2>1. Event' = Event
      BY <1>1, Zenon DEF Event
    <2>. QED  BY <1>1, <1>4, <2>1, NoScan, Zenon DEF IInv, TypeInv
  <1>9. PhaseInv'
    <2>1. crawled' \cap Known(root'.tree) = {}
      BY <1>1, <1>4, Zenon DEF Known, contains
    <2>. QED  BY <1>1, <1>2, <1>4, <1>7, <2>1, Zenon DEF IInv, PhaseInv
  <1>10. QueueInv'
    BY <1>1, <1>2, <1>4, Zenon DEF IInv, QueueInv, MayBeFull, World, Told, Quiet
  <1>11. CrawlInv'
    BY <1>1, Zenon DEF CrawlInv
  <1>12. IndexInv'
    <2>1. ASSUME NEW p \in DOMAIN disk \ (gap \cup dropped \cup raced)
          PROVE  IndexOK(p)'
      <3>1. IndexOK(p)
        BY <1>2, Zenon DEF IInv, IndexInv
      <3>2. Got(p) = disk[p]
        BY <1>1, Zenon DEF IInv, CrawlInv
      <3>3. (Told(p)' <=> Told(p)) /\ (Quiet(p)' <=> Quiet(p))
        BY <1>1, Zenon DEF Told, Quiet
      <3>. QED  BY <1>1, <1>6, <3>1, <3>2, <3>3, Zenon DEF IndexOK
    <2>. QED  BY <1>1, <2>1, Zenon DEF IndexInv
  <1>13. JjInv'
    BY <1>2, <1>4, Zenon DEF JjInv
  <1>14. FullInv'
    <2>1. ASSUME clk > 0, NEW p \in DOMAIN disk \ crawled'
          PROVE  (seen[p] = Indexed(p) \/ Outdated \/ Newer(p))'
      <3>1. CASE p \in DOMAIN got
        BY <1>1, <1>4, <1>6, <1>7, <3>1, Zenon DEF Newer
      <3>2. CASE p \notin DOMAIN got
        <4>1. p \notin Known(root.tree) /\ p \notin crawled
          BY <1>1, <3>2, Zenon
        <4>2. Indexed(p) = NoMeta /\ Indexed(p)' = NoMeta /\ ~Newer(p)
          BY <1>6, <3>2, <4>1, Zenon DEF Indexed, Live, Known, Got, Newer, contains
        <4>3. seen[p] = Indexed(p) \/ Outdated
          BY <1>2, <2>1, <4>1, <4>2, Zenon DEF IInv, FullInv
        <4>. QED  BY <1>1, <1>4, <4>2, <4>3, Zenon DEF Outdated
      <3>. QED  BY <3>1, <3>2, Zenon
    <2>. QED  BY <1>1, <2>1, Zenon DEF FullInv
  <1>. QED  BY <1>8, <1>9, <1>10, <1>11, <1>12, <1>13, <1>14, Zenon DEF IInv

\* An event index that is dropped answers no clock its clients hold.
LEMMA Drops ==
    ASSUME TypeInv, PhaseInv, root.jj_events, root' = invalidate_jj_events(root), clk' = clk
    PROVE  /\ root' \in RootType /\ CountersExact(root'.tree) /\ root'.jj_events
           /\ clk' <= root'.ticks /\ Outdated'
           /\ crawled \cap Known(root'.tree) = {}
  <1>1. root \in RootType /\ root.ticks \in Nat /\ clk \in Nat
    BY TypeFacts, Zenon
  <1>2. /\ root' \in RootType /\ CountersExact(root'.tree)
        /\ root'.ticks = root.ticks + 1 /\ root'.jj_events
        /\ root'.oldest_available_tick = root.ticks + 1
        /\ \A p \in Paths : ~contains(root'.tree, p)
    BY <1>1, InvalidateOK, Zenon
  <1>3. crawled \cap Known(root'.tree) = {}
    BY <1>2, Zenon DEF Known, contains
  <1>4. clk <= root.ticks
    BY Zenon DEF PhaseInv
  <1>5. clk < root.ticks + 1 /\ clk <= root.ticks + 1
    BY <1>1, <1>4, Z3
  <1>. QED  BY <1>2, <1>3, <1>5, Zenon DEF Outdated

\* debug-recrawl of a jj root, and debug-fsevents-inject-drop.
LEMMA InvalidateStep ==
    ASSUME IInv, Invalidate
    PROVE  IInv'
  <1>1. /\ op = "none" /\ wpc # "apply" /\ root.jj_events
        /\ root' = invalidate_jj_events(root)
        /\ UNCHANGED <<disk, attached, queue, wpc, events, jj_mode, out, scope, op, todo, got,
                       seen, clk, gap, dropped, raced, crawled>>
    BY Zenon DEF Invalidate, Unlocked, loop, crawl, client, history
  <1>2. /\ root' \in RootType /\ CountersExact(root'.tree) /\ root'.jj_events
        /\ clk' <= root'.ticks /\ Outdated'
        /\ crawled \cap Known(root'.tree) = {}
    BY <1>1, Drops, Zenon DEF IInv
  <1>3. root'.jj_events = root.jj_events
    BY <1>1, <1>2, TypeFacts, RootFacts, Zenon DEF IInv
  <1>4. TypeInv'
    <2>1. Event' = Event
      BY <1>1, Zenon DEF Event
    <2>. QED  BY <1>1, <1>2, <2>1, Zenon DEF IInv, TypeInv
  <1>5. PhaseInv'
    BY <1>1, <1>2, <1>3, Zenon DEF IInv, PhaseInv
  <1>6. QueueInv'
    BY <1>1, <1>2, <1>3, Zenon DEF IInv, QueueInv, MayBeFull, World, Told, Quiet
  <1>7. CrawlInv'
    BY <1>1, Z3 DEF CrawlInv
  <1>8. IndexInv' /\ FullInv'
    BY <1>2, Zenon DEF IndexInv, FullInv
  <1>9. JjInv'
    BY <1>2, Zenon DEF JjInv
  <1>. QED  BY <1>4, <1>5, <1>6, <1>7, <1>8, <1>9, Zenon DEF IInv

-----------------------------------------------------------------------------
(* The event loop. *)

\* A batch is the head of the queue.
LEMMA TakeStep ==
    ASSUME IInv, NEW n, Take(n)
    PROVE  IInv'
  <1>1. /\ wpc = "wait" /\ op # "register" /\ op # "promote" /\ n \in 1..Len(queue)
        /\ events' = SubSeq(queue, 1, n) /\ queue' = SubSeq(queue, n + 1, Len(queue))
        /\ jj_mode' = root.jj_events /\ wpc' = "collect"
        /\ UNCHANGED <<disk, attached, root, out, scope, op, todo, got,
                       seen, clk, gap, dropped, raced, crawled>>
    BY Zenon DEF Take, Registered, crawl, client, history
  <1>2. events = <<>> /\ out = <<>> /\ attached
    BY <1>1, Zenon DEF IInv, PhaseInv
  <1>3. queue \in Seq(Event)
    BY Zenon DEF IInv, TypeInv
  <1>4. /\ events' \in Seq(Event) /\ queue' \in Seq(Event)
        /\ \A p, m : Parted(queue, events', queue', p, m)
    <2>1. /\ n \in 1..Len(queue)
          /\ events' = SubSeq(queue, 1, n) /\ queue' = SubSeq(queue, n + 1, Len(queue))
      BY <1>1, Zenon
    <2>. QED  BY <1>3, <2>1, Taken, Zenon
  <1>5. \A p : (Told(p) => Told(p)') /\ (Quiet(p) => Quiet(p)')
    BY <1>1, <1>2, <1>4, Nothing, Zenon DEF Told, Quiet, Parted
  <1>6. TypeInv'
    <2>1. Event' = Event
      BY <1>1, Zenon DEF Event
    <2>. QED  BY <1>1, <1>4, <2>1, Zenon DEF IInv, TypeInv
  <1>7. PhaseInv'
    BY <1>1, <1>2, Zenon DEF IInv, PhaseInv, World
  <1>8. QueueInv'
    BY <1>1, <1>5, Zenon DEF IInv, QueueInv, MayBeFull, World
  <1>9. CrawlInv'
    BY <1>1, <1>5, Zenon DEF IInv, CrawlInv, Got
  <1>10. IndexInv'
    <2>1. \A p : IndexOK(p) => IndexOK(p)'
      BY <1>1, <1>5, Zenon DEF IndexOK, Indexed
    <2>. QED  BY <1>1, <2>1, Zenon DEF IInv, IndexInv
  <1>11. JjInv'
    <2>1. \A p : Due(p) => Due(p)'
      BY <1>1, <1>2, <1>4, Nothing, Zenon DEF Due, Newer, Parted
    <2>. QED  BY <1>1, <2>1, Zenon DEF IInv, JjInv, Outdated
  <1>12. FullInv'
    BY <1>1, Zenon DEF IInv, FullInv, Outdated, Newer, Indexed
  <1>. QED  BY <1>6, <1>7, <1>8, <1>9, <1>10, <1>11, <1>12, Zenon DEF IInv

\* What collecting an event does: nothing, the loss of the event index, a
\* change of a full index's batch or one of an event index's.
Skips(e) ==
    /\ e.kind = "Access" \/ (e.kind = "Rescan" /\ ~root.jj_events)
    /\ root' = root /\ out' = out
Forgets == root.jj_events /\ root' = invalidate_jj_events(root) /\ out' = <<>>
Brought(e, c) ==
    /\ ~root.jj_events /\ e.kind \in {"Change", "Remove"}
    /\ root' = root /\ out' = Append(out, c) /\ c.path = e.path
    /\ (e.kind = "Remove" <=> disk[e.path] = NoMeta) => Gives(c, disk[e.path])
Carried(e) ==
    /\ root.jj_events /\ e.kind # "Rescan" /\ root' = root /\ out' \in Seq(PathChange)
    /\ \A p : Carries(out, p) \/ About(e, p) => Carries(out', p)

\* The change a path's event makes.
LEMMA ChangeOfOK ==
    ASSUME TypeInv, NEW e, e.path \in DOMAIN disk
    PROVE  /\ ChangeOf(e) \in PathChange /\ ChangeOf(e).path = e.path
           /\ (e.kind = "Remove" <=> disk[e.path] = NoMeta) => Gives(ChangeOf(e), disk[e.path])
  <1>. DEFINE c == ChangeOf(e)
              p == e.path
  <1>1. p \in Paths /\ disk[p] \in Stats
    BY TypeFacts, Zenon
  <1>2. CASE e.kind = "Remove" \/ disk[p] = NoMeta
    <2>1. c = [op |-> "Remove", path |-> p]
      BY <1>2, Zenon DEF ChangeOf, Change
    <2>2. c.op = "Remove" /\ c.path = p /\ c \in PathChange
      BY <1>1, <2>1, Z3 DEF PathChange
    <2>. QED  BY <1>2, <2>2, Zenon DEF Gives
  <1>3. CASE ~(e.kind = "Remove" \/ disk[p] = NoMeta)
    <2>1. c = [op |-> "Upsert", path |-> p, meta |-> disk[p]]
      BY <1>3, Zenon DEF ChangeOf, Upsert
    <2>2. disk[p] \in Metas
      BY <1>1, <1>3, Zenon DEF Stats
    <2>3. c.op = "Upsert" /\ c.path = p /\ c.meta = disk[p] /\ c \in PathChange
      BY <2>1, <2>2, <1>1, Z3 DEF PathChange
    <2>. QED  BY <2>3, Zenon DEF Gives
  <1>. QED  BY <1>2, <1>3, Zenon

\* A change added to the batch of an event index.
Adds(s, c, t) ==
    /\ t \in Seq(PathChange)
    /\ \A p : Carries(s, p) \/ c.path = p \/ (p \in Dir /\ c.path = DirSignal) => Carries(t, p)

LEMMA AddsOK ==
    ASSUME NEW s \in Seq(PathChange), NEW c \in PathChange
    PROVE  Adds(s, c, Append(s, c))
  <1>1. Append(s, c) \in Seq(PathChange)
    BY Z3
  <1>. QED  BY <1>1, Appended, Zenon DEF Adds

\* Collecting an event does one of them.
LEMMA CollectCases ==
    ASSUME TypeInv, jj_mode = root.jj_events, NEW e \in Event, collect_event(e)
    PROVE  Skips(e) \/ Forgets \/ (\E c \in PathChange : Brought(e, c)) \/ Carried(e)
  <1>. DEFINE c == ChangeOf(e)
  <1>1. CASE e.kind = "Rescan"
    BY <1>1, Zenon DEF collect_event, Skips, Forgets
  <1>2. CASE e.kind = "Access"
    BY <1>2, Z3 DEF collect_event, Skips
  <1>3. CASE e.kind \notin {"Rescan", "Access"}
    <2>1. e.path \in DOMAIN disk /\ e.kind \in {"Change", "Remove"}
      <3>1. e \in [kind : {"Change", "Remove", "Access"}, path : DOMAIN disk]
        BY <1>3, Z3 DEF Event
      <3>. QED  BY <1>3, <3>1, Z3
    <2>2. /\ c \in PathChange /\ c.path = e.path
          /\ (e.kind = "Remove" <=> disk[e.path] = NoMeta) => Gives(c, disk[e.path])
      BY <2>1, ChangeOfOK, Zenon
    <2>3. out \in Seq(PathChange)
      BY Zenon DEF TypeInv
    <2>4. CASE ~jj_mode
      <3>1. out' = Append(out, c) /\ root' = root
        BY <1>3, <2>4, Zenon DEF collect_event
      <3>. QED  BY <2>1, <2>2, <2>4, <3>1, Zenon DEF Brought
    <2>5. CASE jj_mode /\ InIgnorable(e) /\ Rules = Ignoring
      <3>. DEFINE mid == IF e.path = DirPath /\ e.kind = "Remove"
                         THEN Append(out, Change("Remove", e.path)) ELSE out
                  d == Change("Signal", DirSignal)
      <3>1. out' = Append(mid, d) /\ root' = root
        BY <1>3, <2>5, Zenon DEF collect_event, collect_jj
      <3>2. e.path \in Dir /\ e.path \in Paths /\ DirSignal \in Paths
        BY <2>1, <2>5, TypeFacts, WatcherAssumption, Zenon DEF InIgnorable
      <3>3. d \in PathChange /\ d.path = DirSignal /\ Change("Remove", e.path) \in PathChange
        BY <3>2, Z3 DEF Change, PathChange
      <3>4. mid \in Seq(PathChange) /\ \A p : Carries(out, p) => Carries(mid, p)
        <4>1. CASE e.path = DirPath /\ e.kind = "Remove"
          <5>1. mid = Append(out, Change("Remove", e.path))
            BY <4>1, Zenon
          <5>2. Adds(out, Change("Remove", e.path), mid)
            BY <2>3, <3>3, <5>1, AddsOK, Zenon
          <5>. QED  BY <5>2, Zenon DEF Adds
        <4>2. CASE ~(e.path = DirPath /\ e.kind = "Remove")
          <5>1. mid = out
            BY <4>2, Zenon
          <5>. QED  BY <2>3, <5>1, Zenon
        <4>. QED  BY <4>1, <4>2, Zenon
      <3>. HIDE DEF mid, d
      <3>5. /\ out' \in Seq(PathChange)
            /\ \A p : Carries(mid, p) \/ (p \in Dir /\ d.path = DirSignal) => Carries(out', p)
        <4>1. Adds(mid, d, out')
          BY <3>1, <3>3, <3>4, AddsOK, Zenon
        <4>. QED  BY <4>1, Zenon DEF Adds
      <3>6. \A p : About(e, p) => p \in Dir
        BY <3>2, Zenon DEF About
      <3>. QED  BY <1>3, <2>5, <3>1, <3>3, <3>4, <3>5, <3>6, Z3 DEF Carried
    <2>6. CASE jj_mode /\ ~(InIgnorable(e) /\ Rules = Ignoring) /\ e.path = GitIgnore
      BY <1>3, <2>6, Zenon DEF collect_event, collect_jj, Forgets
    <2>7. CASE jj_mode /\ ~(InIgnorable(e) /\ Rules = Ignoring) /\ e.path # GitIgnore
      <3>1. out' = Append(out, c) /\ root' = root
        BY <1>3, <2>7, Zenon DEF collect_event, collect_jj
      <3>. HIDE DEF c
      <3>2. /\ out' \in Seq(PathChange)
            /\ \A p : Carries(out, p) \/ c.path = p => Carries(out', p)
        <4>1. Adds(out, c, out')
          BY <2>2, <2>3, <3>1, AddsOK, Zenon
        <4>. QED  BY <4>1, Zenon DEF Adds
      <3>3. \A p : About(e, p) => c.path = p
        BY <2>2, Zenon DEF About
      <3>. QED  BY <1>3, <2>7, <3>1, <3>2, <3>3, Zenon DEF Carried
    <2>. QED  BY <2>4, <2>5, <2>6, <2>7, Zenon
  <1>. QED  BY <1>1, <1>2, <1>3, Z3

\* Collecting an event: what it said of a path is now in the batch.
LEMMA CollectStep ==
    ASSUME IInv, Collect
    PROVE  IInv'
  <1>. DEFINE e == Head(events)
  <1>1. /\ wpc = "collect" /\ events # <<>> /\ collect_event(e) /\ events' = Tail(events)
        /\ UNCHANGED <<disk, attached, queue, wpc, jj_mode, op, todo, got,
                       seen, clk, gap, dropped, raced, crawled>>
    BY Zenon DEF Collect, crawl, client, history
  <1>2. attached /\ op \notin {"register", "promote"} /\ jj_mode = root.jj_events
    BY <1>1, Zenon DEF IInv, PhaseInv
  <1>3. TypeInv /\ events \in Seq(Event) /\ out \in Seq(PathChange) /\ root.jj_events \in BOOLEAN
    BY TypeFacts, Zenon DEF IInv, TypeInv
  <1>4. /\ e \in Event /\ events' \in Seq(Event)
        /\ \A p : /\ Mute(events, p) => Mute(events', p) /\ ~About(e, p)
                  /\ Says(events, p, disk[p]) =>
                        \/ Says(events', p, disk[p])
                        \/ /\ Mute(events', p) /\ About(e, p)
                           /\ e.kind = "Remove" <=> disk[p] = NoMeta
                  /\ Heard(events, p) => Heard(events', p) \/ e.kind = "Rescan" \/ About(e, p)
    BY <1>1, <1>3, Tailed, Zenon
  <1>. HIDE DEF e
  <1>5. \A p : /\ Quiet(p) => Quiet(p)' /\ ~About(e, p)
               /\ Told(p) => \/ Told(p)'
                             \/ /\ Quiet(p)' /\ About(e, p)
                                /\ e.kind = "Remove" <=> disk[p] = NoMeta
    BY <1>1, <1>4, Zenon DEF Told, Quiet
  <1>6. Skips(e) \/ Forgets \/ (\E c \in PathChange : Brought(e, c)) \/ Carried(e)
    BY <1>1, <1>2, <1>3, <1>4, CollectCases, Zenon
  <1>7. /\ root' \in RootType /\ CountersExact(root'.tree) /\ root'.jj_events = root.jj_events
        /\ clk' <= root'.ticks /\ crawled \cap Known(root'.tree) = {}
    <2>1. CASE root' = root
      BY <1>1, <2>1, TypeFacts, Zenon DEF IInv, PhaseInv
    <2>2. CASE Forgets
      BY <1>1, <1>3, <2>2, Drops, RootFacts, Zenon DEF IInv, Forgets
    <2>. QED  BY <1>6, <2>1, <2>2, Zenon DEF Skips, Brought, Carried
  <1>8. out' \in Seq(PathChange)
    <2>1. ASSUME NEW c \in PathChange, Brought(e, c)
          PROVE  out' \in Seq(PathChange)
      <3>1. out' = Append(out, c)
        BY <2>1, Zenon DEF Brought
      <3>. QED  BY <1>3, <2>1, <3>1, Z3
    <2>2. <<>> \in Seq(PathChange)
      BY Z3
    <2>. QED  BY <1>3, <1>6, <2>1, <2>2, Zenon DEF Skips, Forgets, Carried
  <1>9. TypeInv'
    <2>1. Event' = Event
      BY <1>1, Zenon DEF Event
    <2>. QED  BY <1>1, <1>4, <1>7, <1>8, <2>1, Zenon DEF IInv, TypeInv
  <1>10. PhaseInv'
    <2>1. (wpc' # "wait") /\ (wpc' # "apply") /\ wpc' = "collect"
      BY <1>1, Z3
    <2>. QED  BY <1>1, <1>2, <1>7, <2>1, Zenon DEF IInv, PhaseInv
  <1>11. QueueInv'
    BY <1>1, <1>5, <1>7, Zenon DEF IInv, QueueInv, MayBeFull, World
  <1>12. CrawlInv'
    BY <1>1, <1>2, Zenon DEF IInv, CrawlInv, Got
  <1>13. IndexInv'
    <2>1. ASSUME ~root.jj_events, NEW p \in DOMAIN disk, IndexOK(p)
          PROVE  IndexOK(p)'
      <3>1. CASE Skips(e)
        <4>1. ~About(e, p)
          BY <3>1, Z3 DEF Skips, About
        <4>. QED  BY <1>1, <1>5, <2>1, <3>1, <4>1, Zenon DEF Skips, IndexOK, Indexed
      <3>2. ASSUME NEW c \in PathChange, Brought(e, c)
            PROVE  IndexOK(p)'
        <4>1. out' = Append(out, c) /\ c.path = e.path /\ root' = root
          BY <3>2, Zenon DEF Brought
        <4>2. CASE About(e, p)
          <5>1. Told(p)' \/ (Quiet(p)' /\ Gives(c, disk[p]) /\ c.path = p)
            BY <1>5, <2>1, <3>2, <4>1, <4>2, Zenon DEF IndexOK, Brought, About
          <5>2. Gives(c, disk[p]) /\ c.path = p => Brings(out', p, disk[p])
            BY <1>3, <4>1, Appended, Zenon
          <5>. QED  BY <1>1, <5>1, <5>2, Zenon DEF IndexOK
        <4>3. CASE ~About(e, p)
          <5>1. c.path # p
            BY <3>2, <4>1, <4>3, Zenon DEF Brought, About
          <5>2. /\ Silent(out, p) => Silent(out', p)
                /\ Brings(out, p, disk[p]) => Brings(out', p, disk[p])
            BY <1>3, <4>1, <5>1, Appended, Zenon
          <5>. QED  BY <1>1, <1>5, <2>1, <4>1, <4>3, <5>2, Zenon DEF IndexOK, Indexed
        <4>. QED  BY <4>2, <4>3, Zenon
      <3>. QED  BY <1>6, <2>1, <3>1, <3>2, Zenon DEF Forgets, Carried
    <2>. QED  BY <1>1, <1>2, <1>7, <2>1, Zenon DEF IInv, IndexInv
  <1>14. JjInv'
    <2>1. CASE Forgets
      <3>1. Outdated'
        BY <1>1, <1>3, <2>1, Drops, Zenon DEF IInv, Forgets
      <3>. QED  BY <3>1, Zenon DEF JjInv
    <2>2. ASSUME root.jj_events, ~Forgets
          PROVE  JjInv'
      <3>1. /\ root' = root /\ e.kind # "Rescan"
            /\ \A p : Carries(out, p) \/ About(e, p) => Carries(out', p)
        <4>1. CASE Skips(e)
          BY <2>2, <4>1, Z3 DEF Skips, About
        <4>2. CASE Carried(e)
          BY <4>2, Zenon DEF Carried
        <4>. QED  BY <1>6, <2>2, <4>1, <4>2, Zenon DEF Brought
      <3>2. \A p : Due(p) => Due(p)'
        BY <1>1, <1>4, <3>1, Zenon DEF Due, Newer
      <3>. QED  BY <1>1, <3>1, <3>2, Zenon DEF IInv, JjInv, Outdated
    <2>. QED  BY <1>7, <2>1, <2>2, Zenon DEF JjInv
  <1>15. FullInv'
    <2>1. ~root.jj_events => root' = root
      BY <1>6, Zenon DEF Skips, Forgets, Brought, Carried
    <2>. QED  BY <1>1, <1>7, <2>1, Zenon DEF IInv, FullInv, Outdated, Newer, Indexed
  <1>. QED  BY <1>9, <1>10, <1>11, <1>12, <1>13, <1>14, <1>15, Zenon DEF IInv

\* The loop is done with its batch, or starts to apply it at the next tick.
LEMMA ApplyStep ==
    ASSUME IInv, Apply
    PROVE  IInv'
  <1>1. /\ wpc = "collect" /\ events = <<>>
        /\ \/ out = <<>> /\ wpc' = "wait" /\ root' = root
           \/ out # <<>> /\ wpc' = "apply" /\ root' = apply_begin(root, FALSE)
        /\ UNCHANGED <<disk, attached, queue, events, jj_mode, out, scope, op, todo, got,
                       seen, clk, gap, dropped, raced, crawled>>
    BY Zenon DEF Apply, crawl, client, history
  <1>2. attached /\ op \notin {"register", "promote"}
    BY <1>1, Zenon DEF IInv, PhaseInv
  <1>3. /\ root \in RootType /\ CountersExact(root.tree) /\ clk \in Nat /\ clk <= root.ticks
        /\ root.ticks \in Nat /\ root.jj_events \in BOOLEAN /\ FALSE \in BOOLEAN
        /\ crawled \cap Known(root.tree) = {} /\ (root.jj_events => crawled = {})
    BY TypeFacts, Zenon DEF IInv, PhaseInv
  <1>4. /\ root' \in RootType /\ CountersExact(root'.tree) /\ root'.jj_events = root.jj_events
        /\ clk <= root'.ticks /\ (wpc' = "apply" => clk < root'.ticks)
        /\ \/ /\ root'.tree = root.tree
              /\ root'.oldest_available_tick = root.oldest_available_tick
           \/ root.jj_events /\ Outdated'
    <2>1. CASE root' = root /\ wpc' = "wait"
      BY <1>3, <2>1, Z3
    <2>2. CASE root' = apply_begin(root, FALSE)
      <3>1. /\ root' \in RootType /\ CountersExact(root'.tree)
            /\ root'.ticks = root.ticks + 1 /\ root'.jj_events = root.jj_events
            /\ \/ /\ root'.tree = root.tree
                  /\ root'.oldest_available_tick = root.oldest_available_tick
               \/ root'.oldest_available_tick = root.ticks + 1
        BY <1>3, <2>2, ApplyBeginOK, Zenon
      <3>2. clk < root.ticks + 1 /\ clk <= root.ticks + 1
        BY <1>3, Z3
      <3>3. ~root.jj_events => /\ root'.tree = root.tree
                               /\ root'.oldest_available_tick = root.oldest_available_tick
        <4>1. ~root.jj_events => root' = bump(root)
          BY <2>2, Zenon DEF apply_begin
        <4>. QED  BY <4>1, Z3 DEF bump, RootState
      <3>. QED  BY <1>1, <3>1, <3>2, <3>3, Zenon DEF Outdated
    <2>. QED  BY <1>1, <2>1, <2>2, Zenon
  <1>5. TypeInv'
    <2>1. Event' = Event
      BY <1>1, Zenon DEF Event
    <2>2. wpc' = "wait" \/ wpc' = "apply"
      BY <1>1, Zenon
    <2>. QED  BY <1>1, <1>4, <2>1, <2>2, Zenon DEF IInv, TypeInv
  <1>6. PhaseInv'
    <2>1. crawled' \cap Known(root'.tree) = {}
      BY <1>1, <1>3, <1>4, Zenon
    <2>2. \/ out = <<>> /\ wpc' = "wait" /\ out' = out
          \/ out # <<>> /\ wpc' = "apply" /\ out' = out
      BY <1>1, Zenon
    <2>3. wpc' # "collect" /\ (wpc' = "apply" => out' # <<>>) /\ (wpc' = "wait" => out' = <<>>)
      BY <2>2, Zenon
    <2>. QED  BY <1>1, <1>2, <1>3, <1>4, <2>1, <2>3, Zenon DEF IInv, PhaseInv
  <1>7. QueueInv'
    BY <1>1, <1>4, Zenon DEF IInv, QueueInv, MayBeFull, World, Told, Quiet
  <1>8. CrawlInv'
    BY <1>1, <1>2, Zenon DEF IInv, CrawlInv, Got
  <1>9. IndexInv'
    <2>1. ASSUME ~root.jj_events, NEW p, IndexOK(p)
          PROVE  IndexOK(p)'
      BY <1>1, <1>4, <2>1, Zenon DEF IndexOK, Told, Quiet, Indexed
    <2>. QED  BY <1>1, <1>2, <1>4, <2>1, Zenon DEF IInv, IndexInv
  <1>10. JjInv'
    <2>1. CASE Outdated'
      BY <2>1, Zenon DEF JjInv
    <2>2. CASE /\ root'.tree = root.tree
               /\ root'.oldest_available_tick = root.oldest_available_tick
      BY <1>1, <1>4, <2>2, Zenon DEF IInv, JjInv, Outdated, Due, Newer
    <2>. QED  BY <1>4, <2>1, <2>2, Zenon
  <1>11. FullInv'
    BY <1>1, <1>4, Zenon DEF IInv, FullInv, Outdated, Newer, Indexed
  <1>. QED  BY <1>5, <1>6, <1>7, <1>8, <1>9, <1>10, <1>11, Zenon DEF IInv

\* One change of the batch: it is what the index now says of its path, and
\* newer than every client's clock.
LEMMA ApplyOneStep ==
    ASSUME IInv, ApplyOne
    PROVE  IInv'
  <1>. DEFINE c == Head(out)
  <1>1. /\ wpc = "apply" /\ root' = apply_one(root, root.ticks, c)
        /\ crawled' = crawled \ Known(root'.tree) /\ out' = Tail(out)
        /\ wpc' = IF Tail(out) = <<>> THEN "wait" ELSE "apply"
        /\ UNCHANGED <<disk, attached, queue, events, jj_mode, scope, op, todo, got,
                       seen, clk, gap, dropped, raced>>
    BY Zenon DEF ApplyOne, crawl, client
  <1>2. /\ attached /\ op \notin {"register", "promote"} /\ events = <<>>
        /\ out # <<>> /\ clk < root.ticks
    BY <1>1, Zenon DEF IInv, PhaseInv
  <1>3. /\ out \in Seq(PathChange) /\ root \in RootType /\ CountersExact(root.tree)
        /\ root.ticks \in Nat /\ root.jj_events \in BOOLEAN /\ clk \in Nat
    BY TypeFacts, Zenon DEF IInv, TypeInv
  <1>4. /\ c \in PathChange /\ out' \in Seq(PathChange)
        /\ \A p, m :
              /\ Silent(out, p) => Silent(out', p) /\ c.path # p
              /\ Brings(out, p, m) =>
                    Brings(out', p, m) \/ (Silent(out', p) /\ c.path = p /\ Gives(c, m))
              /\ Carries(out, p) =>
                    Carries(out', p) \/ c.path = p \/ (p \in Dir /\ c.path = DirSignal)
    BY <1>1, <1>2, <1>3, Tailed, Zenon
  <1>. HIDE DEF c
  <1>5. Changed(root, root.ticks, c, root')
    BY <1>1, <1>3, <1>4, ApplyOneOK, Zenon
  <1>6. root.ticks > clk /\ clk <= root.ticks
    BY <1>2, <1>3, Z3
  <1>7. \A q \in Paths : \/ root'.tree.entries[q] = root.tree.entries[q]
                         \/ q = c.path /\ Newer(q)'
    BY <1>1, <1>5, <1>6, Zenon DEF Changed, Newer
  <1>8. \A q \in Paths : Newer(q) => Newer(q)'
    BY <1>1, <1>7, Zenon DEF Newer, contains
  <1>9. \A p \in DOMAIN disk : p \in Paths /\ (p \in Dir => DirSignal \in Paths)
    BY TypeFacts, WatcherAssumption, Zenon DEF IInv
  <1>10. TypeInv'
    <2>1. Event' = Event
      BY <1>1, Zenon DEF Event
    <2>2. wpc' \in {"wait", "collect", "apply"}
      BY <1>1, Z3
    <2>. QED  BY <1>1, <1>4, <1>5, <2>1, <2>2, Zenon DEF IInv, TypeInv, Changed
  <1>11. PhaseInv'
    <2>1. /\ crawled' \cap Known(root'.tree) = {}
          /\ root'.jj_events => crawled' = {}
      BY <1>1, <1>5, Zenon DEF IInv, PhaseInv, Changed
    <2>2. wpc' # "collect" /\ (wpc' = "apply" => out' # <<>>) /\ (wpc' = "wait" => out' = <<>>)
      BY <1>1, Z3
    <2>3. clk' < root'.ticks /\ clk' <= root'.ticks /\ root'.jj_events = root.jj_events
      BY <1>1, <1>2, <1>5, <1>6, Zenon DEF Changed
    <2>. QED  BY <1>1, <1>2, <2>1, <2>2, <2>3, Zenon DEF IInv, PhaseInv
  <1>12. QueueInv'
    BY <1>1, <1>5, Zenon DEF IInv, QueueInv, MayBeFull, World, Told, Quiet, Changed
  <1>13. CrawlInv'
    BY <1>1, <1>2, Zenon DEF IInv, CrawlInv, Got
  <1>14. IndexInv'
    <2>1. ASSUME ~root.jj_events, NEW p \in DOMAIN disk, IndexOK(p)
          PROVE  IndexOK(p)'
      <3>1. (Told(p)' <=> Told(p)) /\ (Quiet(p)' <=> Quiet(p))
        BY <1>1, Zenon DEF Told, Quiet
      <3>2. CASE Brings(out, p, disk[p]) /\ Quiet(p)
        <4>1. c.path = p /\ Gives(c, disk[p]) => Indexed(p)' = disk[p]
          <5>1. Gives(c, disk[p]) => Shows(root', c.path) = disk[p]
            BY <1>1, <1>3, <1>4, <2>1, ChangeShown, Zenon
          <5>. QED  BY <5>1, Zenon DEF Indexed, Shows
        <4>. QED  BY <1>1, <1>4, <3>1, <3>2, <4>1, Zenon DEF IndexOK
      <3>3. CASE Silent(out, p) /\ Indexed(p) = disk[p] /\ Quiet(p)
        <4>1. Silent(out', p) /\ c.path # p
          BY <1>4, <3>3, Zenon
        <4>2. root'.tree.entries[p] = root.tree.entries[p]
          BY <1>7, <1>9, <4>1, Zenon
        <4>3. Indexed(p)' = Indexed(p)
          BY <1>9, <4>2, ShownSame, Zenon DEF Indexed, Shows
        <4>. QED  BY <1>1, <3>1, <3>3, <4>1, <4>3, Zenon DEF IndexOK
      <3>. QED  BY <2>1, <3>1, <3>2, <3>3, Zenon DEF IndexOK
    <2>2. root'.jj_events = root.jj_events
      BY <1>5, Zenon DEF Changed
    <2>. QED  BY <1>1, <1>2, <2>1, <2>2, Zenon DEF IInv, IndexInv
  <1>15. JjInv'
    <2>1. ASSUME root.jj_events, NEW p \in DOMAIN disk, Due(p)
          PROVE  Due(p)'
      <3>1. \A q \in Paths : q = c.path => Newer(q)'
        BY <1>1, <1>5, <1>6, <2>1, Zenon DEF Changed, Newer
      <3>2. Heard(queue', p) <=> Heard(queue, p)
        BY <1>1, Zenon
      <3>3. Heard(events', p) <=> Heard(events, p)
        BY <1>1, Zenon
      <3>. QED  BY <1>4, <1>8, <1>9, <2>1, <3>1, <3>2, <3>3, Zenon DEF Due
    <2>2. /\ root'.jj_events = root.jj_events
          /\ root'.oldest_available_tick = root.oldest_available_tick
      BY <1>5, Zenon DEF Changed
    <2>. QED  BY <1>1, <2>1, <2>2, Zenon DEF IInv, JjInv, Outdated
  <1>16. FullInv'
    <2>1. ASSUME ~root.jj_events, clk > 0, NEW p \in DOMAIN disk \ crawled'
          PROVE  (seen[p] = Indexed(p) \/ Outdated \/ Newer(p))'
      <3>1. CASE Newer(p)'
        BY <3>1, Zenon
      <3>2. CASE root'.tree.entries[p] = root.tree.entries[p]
        <4>1. /\ Shows(root', p) = Shows(root, p)
              /\ contains(root'.tree, p) <=> contains(root.tree, p)
          BY <1>9, <3>2, ShownSame, Zenon
        <4>2. Indexed(p)' = Indexed(p)
          BY <4>1, Zenon DEF Indexed, Shows
        <4>3. crawled \cap Known(root.tree) = {}
          BY Zenon DEF IInv, PhaseInv
        <4>4. p \notin crawled
          BY <1>1, <1>9, <4>1, <4>3, Zenon DEF Known, contains
        <4>5. seen[p] = Indexed(p) \/ Outdated \/ Newer(p)
          BY <2>1, <4>4, Zenon DEF IInv, FullInv
        <4>6. Outdated => Outdated'
          BY <1>1, <1>5, Zenon DEF Outdated, Changed
        <4>. QED  BY <1>1, <1>8, <1>9, <4>2, <4>5, <4>6, Zenon
      <3>. QED  BY <1>7, <1>9, <3>1, <3>2, Zenon
    <2>2. root'.jj_events = root.jj_events
      BY <1>5, Zenon DEF Changed
    <2>. QED  BY <1>1, <2>1, <2>2, Zenon DEF FullInv
  <1>. QED  BY <1>10, <1>11, <1>12, <1>13, <1>14, <1>15, <1>16, Zenon DEF IInv

-----------------------------------------------------------------------------
(* The client. *)

\* What is newer than a client's clock is in the answer, and a clock the index
\* cannot answer is told so.
LEMMA Answers ==
    ASSUME TypeInv, clk > 0, NEW a, a = answer(root, Tick(clk), 0, FALSE)
    PROVE  /\ a.clock = root.ticks
           /\ \A p \in Paths : \/ Outdated \/ Newer(p)
                               \/ p \in Dir /\ DirSignal \in Paths /\ Newer(DirSignal)
                               => Tells(a, p)
  <1>. DEFINE since == Tick(clk)
  <1>1. since.kind = "Tick" /\ since.tick = clk
    BY Z3 DEF Tick
  <1>2. /\ a.clock = root.ticks /\ a.files = files(root, since, 0)
        /\ is_fresh_instance(root, since, 0) => a.fresh
    BY Zenon DEF answer
  <1>. HIDE DEF since
  <1>3. since_tick(since, 0) = clk
    BY <1>1, Z3 DEF since_tick, tick_against
  <1>4. Outdated => a.fresh
    <2>1. on_tick_axis(since, 0)
      BY <1>1, Zenon DEF on_tick_axis
    <2>. QED  BY <1>2, <1>3, <2>1, Zenon DEF is_fresh_instance, Outdated
  <1>5. \A p \in Paths : Newer(p) => p \in a.files
    BY <1>2, <1>3, Zenon DEF files, Newer, Known
  <1>. QED  BY <1>2, <1>4, <1>5, Zenon DEF Tells, Listed

\* A query: what it does not tell the client of, the client has right.
LEMMA QueryStep ==
    ASSUME IInv, Query
    PROVE  IInv'
  <1>. DEFINE a == answer(root, IF clk = 0 THEN None ELSE Tick(clk), 0, FALSE)
              news(p) == IF root.jj_events THEN disk[p] ELSE Indexed(p)
  <1>1. /\ op # "register" /\ wpc # "apply" /\ clk' = a.clock
        /\ seen' = [p \in DOMAIN disk |-> IF Tells(a, p) THEN news(p) ELSE seen[p]]
        /\ UNCHANGED <<disk, attached, queue, root, wpc, events, jj_mode, out, scope,
                       op, todo, got, gap, dropped, raced, crawled>>
    BY Zenon DEF Query, Registered, Unlocked, Tells, loop, crawl, history
  <1>2. attached
    BY <1>1, Zenon DEF IInv, PhaseInv
  <1>3. TypeInv /\ clk \in Nat /\ root.ticks \in Nat /\ seen \in [DOMAIN disk -> Stats]
    BY TypeFacts, Zenon DEF IInv, TypeInv
  <1>4. /\ a.clock = root.ticks
        /\ \A p \in Paths : \/ clk = 0 \/ Outdated \/ Newer(p)
                            \/ p \in Dir /\ DirSignal \in Paths /\ Newer(DirSignal)
                            => Tells(a, p)
    <2>1. CASE clk = 0
      <3>1. a.clock = root.ticks /\ a.fresh
        BY <2>1, Z3 DEF answer, is_fresh_instance, None
      <3>. QED  BY <3>1, Zenon DEF Tells
    <2>2. CASE clk # 0
      <3>1. a = answer(root, Tick(clk), 0, FALSE)
        BY <2>2, Zenon
      <3>2. clk > 0
        BY <1>3, <2>2, Z3
      <3>. HIDE DEF a
      <3>. QED  BY <1>3, <2>2, <3>1, <3>2, Answers, Zenon
    <2>. QED  BY <2>1, <2>2, Zenon
  <1>. HIDE DEF a
  <1>5. \A p \in DOMAIN disk : /\ p \in Paths /\ disk[p] \in Stats /\ Indexed(p) \in Stats
                               /\ p \in Dir => DirSignal \in Paths
    <2>1. \A p \in DOMAIN disk : /\ p \in Paths /\ disk[p] \in Stats
                                 /\ p \in Dir => DirSignal \in Paths
      BY TypeFacts, WatcherAssumption, Zenon DEF IInv
    <2>2. \A p \in Known(root.tree) : root.tree.entries[p] \in Entry
      BY <1>3, TypeFacts, RootFacts, TreeFacts, Zenon
    <2>3. \A x \in Entry : x.meta \in Stats
      BY Zenon DEF Entry, Stats
    <2>. QED  BY <2>1, <2>2, <2>3, Zenon DEF Indexed, Live, Stats
  <1>6. \A p \in DOMAIN disk : seen'[p] = IF Tells(a, p) THEN news(p) ELSE seen[p]
    BY <1>1, Zenon
  <1>7. seen' \in [DOMAIN disk -> Stats]
    BY <1>1, <1>3, <1>5, Zenon
  <1>8. TypeInv'
    <2>1. Event' = Event
      BY <1>1, Zenon DEF Event
    <2>. QED  BY <1>1, <1>3, <1>4, <1>7, <2>1, Zenon DEF IInv, TypeInv
  <1>9. PhaseInv'
    <2>1. clk' <= root'.ticks
      BY <1>1, <1>3, <1>4, Z3
    <2>. QED  BY <1>1, <1>2, <2>1, Zenon DEF IInv, PhaseInv, World
  <1>10. QueueInv' /\ CrawlInv' /\ IndexInv'
    <2>1. \A p : (Told(p)' <=> Told(p)) /\ (Quiet(p)' <=> Quiet(p)) /\ (IndexOK(p)' <=> IndexOK(p))
      BY <1>1, Zenon DEF Told, Quiet, IndexOK, Indexed
    <2>2. QueueInv'
      BY <1>1, <2>1, Zenon DEF IInv, QueueInv, MayBeFull, World
    <2>3. CrawlInv'
      BY <1>1, <2>1, Zenon DEF IInv, CrawlInv, Got
    <2>4. IndexInv'
      BY <1>1, <2>1, Zenon DEF IInv, IndexInv
    <2>. QED  BY <2>2, <2>3, <2>4, Zenon
  <1>11. clk # 0 => clk > 0
    BY <1>3, Z3
  <1>12. JjInv'
    <2>1. ASSUME root.jj_events, NEW p \in DOMAIN disk
          PROVE  (seen[p] = disk[p] \/ Outdated \/ Due(p))'
      <3>1. CASE Tells(a, p)
        BY <1>1, <1>6, <2>1, <3>1, Zenon
      <3>2. CASE ~Tells(a, p)
        <4>1. /\ clk > 0 /\ ~Outdated /\ ~Newer(p)
              /\ ~(p \in Dir /\ Newer(DirSignal)) /\ seen'[p] = seen[p]
          BY <1>4, <1>5, <1>6, <1>11, <3>2, Zenon
        <4>2. seen[p] = disk[p] \/ Heard(queue, p) \/ Heard(events, p) \/ Carries(out, p)
          BY <2>1, <4>1, Zenon DEF IInv, JjInv, Due
        <4>. QED  BY <1>1, <4>1, <4>2, Zenon DEF Due
      <3>. QED  BY <3>1, <3>2, Zenon
    <2>. QED  BY <1>1, <2>1, Zenon DEF JjInv
  <1>13. FullInv'
    <2>1. ASSUME ~root.jj_events, NEW p \in DOMAIN disk \ crawled
          PROVE  seen'[p] = Indexed(p)'
      <3>1. CASE Tells(a, p)
        BY <1>1, <1>6, <2>1, <3>1, Zenon DEF Indexed
      <3>2. CASE ~Tells(a, p)
        <4>1. clk > 0 /\ ~Outdated /\ ~Newer(p) /\ seen'[p] = seen[p]
          BY <1>4, <1>5, <1>6, <1>11, <3>2, Zenon
        <4>2. seen[p] = Indexed(p)
          BY <2>1, <4>1, Zenon DEF IInv, FullInv
        <4>. QED  BY <1>1, <4>1, <4>2, Zenon DEF Indexed
      <3>. QED  BY <3>1, <3>2, Zenon
    <2>. QED  BY <1>1, <2>1, Zenon DEF FullInv
  <1>. QED  BY <1>8, <1>9, <1>10, <1>12, <1>13, Zenon DEF IInv

-----------------------------------------------------------------------------
(* The specification. *)

\* register_root starts with a new index, no watch and no client.
LEMMA InitOK == Init => IInv
  <1>. SUFFICES ASSUME Init PROVE IInv
    OBVIOUS
  <1>1. PICK w \in Worlds : /\ disk \in [w.paths -> Metas \cup {NoMeta}]
                            /\ \E jj \in w.modes : root = RootNew(jj)
    BY Zenon DEF Init
  <1>2. PICK jj \in w.modes : root = RootNew(jj)
    BY <1>1, Zenon
  <1>3. jj \in BOOLEAN /\ w.paths \subseteq Paths \ {DirSignal}
    BY WatcherAssumption, Zenon
  <1>4. /\ DOMAIN disk \subseteq Paths \ {DirSignal} /\ disk \in [DOMAIN disk -> Stats]
    BY <1>1, <1>3, Zenon DEF Stats
  <1>5. root.ticks = 1 /\ root.tree = EmptyTree /\ root \in RootType
    <2>1. 0 \in Nat /\ 1 \in Nat
      BY Z3
    <2>. QED  BY <1>2, <1>3, <2>1, EmptyTreeOK, Zenon DEF RootNew, RootState, RootType
  <1>6. /\ ~attached /\ queue = <<>> /\ events = <<>> /\ out = <<>> /\ wpc = "wait"
        /\ op = "register" /\ got = NoPaths /\ clk = 0 /\ crawled = {}
        /\ todo = IF root.jj_events THEN {} ELSE DOMAIN disk
        /\ seen = [p \in DOMAIN disk |-> NoMeta]
    BY Zenon DEF Init
  <1>7. TypeInv
    <2>1. <<>> \in Seq(Event) /\ <<>> \in Seq(PathChange) /\ 0 \in Nat
      BY Z3
    <2>2. seen \in [DOMAIN disk -> Stats]
      BY <1>6, Zenon DEF Stats
    <2>3. todo \subseteq DOMAIN disk /\ attached \in BOOLEAN
      BY <1>6, Zenon DEF Init
    <2>. QED  BY <1>4, <1>5, <1>6, <2>1, <2>2, <2>3, NoScan, EmptyTreeOK, Zenon DEF TypeInv
  <1>8. PhaseInv
    <2>1. 0 <= 1
      BY Z3
    <2>2. wpc # "collect" /\ wpc # "apply" /\ op # "promote" /\ op # "recrawl"
      BY <1>6, Zenon
    <2>. QED  BY <1>5, <1>6, <2>1, <2>2, Zenon DEF PhaseInv
  <1>9. QueueInv
    BY <1>6, Zenon DEF QueueInv
  <1>10. CrawlInv
    BY <1>6, Z3 DEF CrawlInv
  <1>11. IndexInv
    <2>1. ~(1 > 1)
      BY Z3
    <2>. QED  BY <1>5, <1>6, <2>1, Zenon DEF IndexInv
  <1>12. JjInv /\ FullInv
    <2>1. ~(0 > 0)
      BY Z3
    <2>. QED  BY <1>6, <2>1, Zenon DEF JjInv, FullInv
  <1>. QED  BY <1>7, <1>8, <1>9, <1>10, <1>11, <1>12, Zenon DEF IInv

\* A step that changes nothing.
LEMMA StillStep ==
    ASSUME IInv, UNCHANGED vars
    PROVE  IInv'
  <1>1. UNCHANGED <<disk, attached, queue, root, wpc, events, jj_mode, out, scope, op, todo, got,
                    seen, clk, gap, dropped, raced, crawled>>
    BY Zenon DEF vars
  <1>2. \A p : (Told(p)' <=> Told(p)) /\ (Quiet(p)' <=> Quiet(p)) /\ (IndexOK(p)' <=> IndexOK(p))
    BY <1>1, Zenon DEF Told, Quiet, IndexOK, Indexed
  <1>3. TypeInv'
    <2>1. Event' = Event
      BY <1>1, Zenon DEF Event
    <2>. QED  BY <1>1, <2>1, Zenon DEF IInv, TypeInv
  <1>4. PhaseInv'
    BY <1>1, Zenon DEF IInv, PhaseInv, World
  <1>5. QueueInv'
    BY <1>1, <1>2, Zenon DEF IInv, QueueInv, MayBeFull, World
  <1>6. CrawlInv'
    BY <1>1, <1>2, Zenon DEF IInv, CrawlInv, Got
  <1>7. IndexInv'
    BY <1>1, <1>2, Zenon DEF IInv, IndexInv
  <1>8. JjInv'
    BY <1>1, Zenon DEF IInv, JjInv, Outdated, Due, Newer
  <1>9. FullInv'
    BY <1>1, Zenon DEF IInv, FullInv, Outdated, Newer, Indexed
  <1>. QED  BY <1>3, <1>4, <1>5, <1>6, <1>7, <1>8, <1>9, Zenon DEF IInv

\* Every step of the disk, the kernel, the crawls, the loop and the client
\* keeps the invariant.
LEMMA NextOK == IInv /\ [Next]_vars => IInv'
  <1>. SUFFICES ASSUME IInv, [Next]_vars PROVE IInv'
    OBVIOUS
  <1>1. ASSUME NEW p \in DOMAIN disk, NEW md \in Metas \cup {NoMeta}, Fs(p, md)
        PROVE  IInv'
    BY <1>1, FsStep, Zenon DEF Stats
  <1>2. ASSUME NEW p \in DOMAIN disk, Access(p)
        PROVE  IInv'
    BY <1>2, AccessStep, Zenon
  <1>3. ASSUME NEW p \in DOMAIN disk, Stat(p)
        PROVE  IInv'
    BY <1>3, StatStep, Zenon
  <1>4. CASE Seed
    BY <1>4, SeedStep, Zenon
  <1>5. CASE Attach
    BY <1>5, AttachStep, Zenon
  <1>6. CASE PromoteBegin \/ RecrawlBegin
    BY <1>6, CrawlBegins, Zenon
  <1>7. CASE PromoteEnd
    BY <1>7, PromoteStep, Zenon
  <1>8. CASE RecrawlEnd
    BY <1>8, RecrawlStep, Zenon
  <1>9. CASE Invalidate
    BY <1>9, InvalidateStep, Zenon
  <1>10. ASSUME NEW n \in 1..MaxQueue + 1, Take(n)
         PROVE  IInv'
    BY <1>10, TakeStep, Zenon
  <1>11. CASE Collect
    BY <1>11, CollectStep, Zenon
  <1>12. CASE Apply
    BY <1>12, ApplyStep, Zenon
  <1>13. CASE ApplyOne
    BY <1>13, ApplyOneStep, Zenon
  <1>14. CASE Query
    BY <1>14, QueryStep, Zenon
  <1>15. CASE UNCHANGED vars
    BY <1>15, StillStep, Zenon
  <1>. QED  BY <1>1, <1>2, <1>3, <1>4, <1>5, <1>6, <1>7, <1>8, <1>9, <1>10, <1>11, <1>12,
               <1>13, <1>14, <1>15, Zenon DEF Next

\* The invariant holds throughout.
LEMMA Invariant == Spec => []IInv
  BY InitOK, NextOK, PTL DEF Spec

\* A settled watch has nothing left to say.
LEMMA SettledFacts ==
    ASSUME IInv, Settled
    PROVE  /\ attached /\ TypeInv /\ IndexInv /\ JjInv /\ FullInv
           /\ \A p, m : ~Told(p) /\ ~Brings(out, p, m)
           /\ \A p : ~Heard(queue, p) /\ ~Heard(events, p) /\ ~Carries(out, p)
  <1>1. queue = <<>> /\ events = <<>> /\ out = <<>> /\ attached
    BY Zenon DEF IInv, PhaseInv, Settled
  <1>. QED  BY <1>1, Nothing, Zenon DEF IInv, Told

\* A full index that has settled is the disk, whatever raced with a promotion,
\* wherever the batches were cut and however late the stats were: all but what
\* the kernel dropped, what changed before the watch and what a recrawl
\* overwrote (register_root, promote_to_full, collect_event, apply_changes).
THEOREM SettledIndexIsDisk == Spec => []IndexMatchesDisk
  <1>1. IInv => IndexMatchesDisk
    BY SettledFacts, Zenon DEF IndexInv, IndexOK, IndexMatchesDisk
  <1>. QED  BY <1>1, Invariant, PTL

\* A client of a jj root is never left trusting a stale path: a settled root
\* lists it since the client's clock, or tells the client to scan afresh
\* (collect_event, invalidate_jj_events, query::run).
THEOREM JjClientsCoherent == Spec => []JjClientCoherent
  <1>1. IInv => JjClientCoherent
    <2>. SUFFICES ASSUME IInv, root.jj_events, Settled, clk > 0, NEW p \in DOMAIN disk
                  PROVE  seen[p] = disk[p] \/ Tells(answer(root, Tick(clk), 0, FALSE), p)
      BY Zenon DEF JjClientCoherent, ClientOk
    <2>1. \/ seen[p] = disk[p] \/ Outdated \/ Newer(p)
          \/ p \in Dir /\ Newer(DirSignal)
      BY SettledFacts, Zenon DEF JjInv, Due
    <2>2. TypeInv /\ p \in Paths /\ (p \in Dir => DirSignal \in Paths)
      BY TypeFacts, WatcherAssumption, Zenon DEF IInv
    <2>. QED  BY <2>1, <2>2, Answers, Zenon
  <1>. QED  BY <1>1, Invariant, PTL

\* A client of a full index is never left with a stale path either, but for the
\* same exceptions and what a recrawl forgot (seed, promote_to_full,
\* apply_changes, query::run).
THEOREM FullClientsCoherent == Spec => []FullClientCoherent
  <1>1. IInv => FullClientCoherent
    <2>. SUFFICES ASSUME IInv, ~root.jj_events, Settled, clk > 0,
                         NEW p \in DOMAIN disk \ (gap \cup dropped \cup raced \cup crawled)
                  PROVE  seen[p] = disk[p] \/ Tells(answer(root, Tick(clk), 0, FALSE), p)
      BY Zenon DEF FullClientCoherent, ClientOk
    <2>1. seen[p] = Indexed(p) \/ Outdated \/ Newer(p)
      BY SettledFacts, Zenon DEF FullInv
    <2>2. Indexed(p) = disk[p]
      BY SettledFacts, Zenon DEF IndexInv, IndexOK
    <2>3. TypeInv /\ p \in Paths
      BY TypeFacts, Zenon DEF IInv
    <2>. QED  BY <2>1, <2>2, <2>3, Answers, Zenon
  <1>. QED  BY <1>1, Invariant, PTL

=============================================================================
