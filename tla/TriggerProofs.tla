---------------------------- MODULE TriggerProofs ----------------------------
(***************************************************************************)
(* Trigger for every set of paths and loops, and any capacity of the tick  *)
(* broadcast from two on: no loop misses a change or a lost event index.   *)
(* Then TriggerStore, where triggers outlive the daemon.                   *)
(***************************************************************************)
EXTENDS Trigger, TriggerStore, RootProofs

Steps == {"off", "spawn", "fence", "loop", "run", "decide", "fire", "done"}

TypeInv ==
    /\ root \in RootType /\ CountersExact(root.tree)
    /\ unsent \in [Senders -> Nat] /\ log \in Seq(Nat) /\ installed \in BOOLEAN
    /\ pc \in [Loops -> Steps] /\ next \in [Loops -> Nat \ {0}]
    /\ last \in [Loops -> Nat] /\ fired \in [Loops -> Nat]
    /\ fresh \in [Loops -> BOOLEAN] /\ names \in [Loops -> SUBSET Paths]
    /\ owed \in [Loops -> SUBSET Paths] /\ lost \subseteq Paths

\* Nothing is ahead of the clock, and no receiver ahead of the log.
ClockInv ==
    /\ root.oldest_available_tick <= root.ticks /\ root.ticks > 0
    /\ \A s \in Senders : unsent[s] <= root.ticks
    /\ \A i \in 1..Len(log) : log[i] <= root.ticks
    /\ \A g \in Loops : /\ last[g] <= root.ticks /\ fired[g] <= root.ticks
                        /\ next[g] <= Len(log) + 1

\* The two senders: after a TickEvent at most one older one is still sent, so
\* of any two that follow it, or are to follow, one is newer.
OrderInv ==
    \A i \in 1..Len(log) :
        /\ \A j, k \in 1..Len(log) : i < j /\ j < k => log[j] > log[i] \/ log[k] > log[i]
        /\ \A j \in 1..Len(log), s \in Senders :
              i < j /\ unsent[s] # 0 => log[j] > log[i] \/ unsent[s] > log[i]
        /\ \A s, r \in Senders :
              s # r /\ unsent[s] # 0 /\ unsent[r] # 0 => unsent[s] > log[i] \/ unsent[r] > log[i]

\* The loop waits for an event, or will once what it is doing is done.
Listens(g) == pc[g] \in {"loop", "decide", "fire"}

\* What is owed to a loop can still be found by its query.
Found(g) ==
    \A p \in owed[g] \ lost :
        \/ contains(root.tree, p) /\ root.tree.entries[p].oclock > last[g]
        \/ last[g] < root.oldest_available_tick

LoopOK(g) ==
    /\ pc[g] \in {"off", "spawn", "fence"} => owed[g] = {}
    /\ Started(g) => Found(g)
    /\ Listens(g) /\ owed[g] \ lost # {} => Pending(g)

\* A loop whose tick an event index no longer answers will hear of it, and one
\* that has asked since, and not yet run its command, is about to.
ResetOK(g) ==
    root.jj_events /\ Started(g) =>
        IF last[g] < root.oldest_available_tick
        THEN Listens(g) => Pending(g)
        ELSE fired[g] < root.oldest_available_tick => pc[g] = "decide" /\ fresh[g]

LoopInv == \A g \in Loops : LoopOK(g)
ResetInv == \A g \in Loops : ResetOK(g)
IInv == TypeInv /\ ClockInv /\ OrderInv /\ LoopInv /\ ResetInv

\* The types the steps below use.
LEMMA TypeFacts ==
    ASSUME TypeInv
    PROVE  /\ root \in RootType /\ root.ticks \in Nat /\ root.oldest_available_tick \in Nat
           /\ Len(log) \in Nat /\ \A i \in 1..Len(log) : log[i] \in Nat
           /\ \A s \in Senders : unsent[s] \in Nat
           /\ \A g \in Loops : /\ last[g] \in Nat /\ fired[g] \in Nat /\ next[g] \in Nat \ {0}
                               /\ owed[g] \subseteq Paths
  <1>1. log \in Seq(Nat) => Len(log) \in Nat /\ \A i \in 1..Len(log) : log[i] \in Nat
    BY Z3
  <1>. QED  BY <1>1, RootFacts, Zenon DEF TypeInv

\* The oldest event a receiver can still get is in the log, or the next one.
LEMMA OldestFacts ==
    ASSUME TypeInv
    PROVE  Oldest \in 1..Len(log) + 1
  BY TriggerAssumption, TypeFacts, Z3 DEF Oldest

\* The index takes the next tick, and sender s has its TickEvent to send.
Tock(s) ==
    /\ unsent[s] = 0
    /\ unsent' = [unsent EXCEPT ![s] = root.ticks + 1]
    /\ root'.ticks = root.ticks + 1

\* A tick with an event to send wakes every loop that listens.
LEMMA Ticked ==
    ASSUME TypeInv, ClockInv, OrderInv, NEW s \in Senders, Tock(s),
           UNCHANGED <<log, next, last, fired>>,
           root'.oldest_available_tick <= root.ticks + 1
    PROVE  ClockInv' /\ OrderInv' /\ \A g \in Loops : Pending(g)'
  <1>1. \A r \in Senders : unsent'[r] = IF r = s THEN root.ticks + 1 ELSE unsent[r]
    BY Zenon DEF Tock, TypeInv
  <1>2. root'.ticks = root.ticks + 1
    BY Zenon DEF Tock
  <1>3. ClockInv'
    <2>1. /\ root.ticks + 1 > 0 /\ root.ticks + 1 <= root.ticks + 1
          /\ \A r \in Senders : unsent[r] <= root.ticks + 1
          /\ \A i \in 1..Len(log) : log[i] <= root.ticks + 1
          /\ \A g \in Loops : last[g] <= root.ticks + 1 /\ fired[g] <= root.ticks + 1
      BY TypeFacts, Z3 DEF ClockInv
    <2>. QED  BY <1>1, <1>2, <2>1, Zenon DEF ClockInv
  <1>4. OrderInv'
    <2>1. root.ticks + 1 # 0 /\ \A i \in 1..Len(log) : root.ticks + 1 > log[i]
      BY TypeFacts, Z3 DEF ClockInv
    <2>2. log' = log
      BY Zenon
    <2>. QED  BY <1>1, <2>1, <2>2, Zenon DEF OrderInv
  <1>5. \A g \in Loops : unsent'[s] > last'[g]
    BY <1>1, TypeFacts, Z3 DEF ClockInv
  <1>. QED  BY <1>3, <1>4, <1>5, Zenon DEF Pending

\* A step that sends and receives nothing changes nothing about the events.
LEMMA Quiet ==
    ASSUME TypeInv, ClockInv, OrderInv, UNCHANGED <<unsent, log, next, last, fired>>,
           root'.ticks \in Nat, root.ticks <= root'.ticks,
           root'.oldest_available_tick <= root'.ticks
    PROVE  ClockInv' /\ OrderInv' /\ \A g \in Loops : Pending(g)' <=> Pending(g)
  <1>1. ClockInv'
    BY TypeFacts, Z3 DEF ClockInv
  <1>2. OrderInv'
    BY Zenon DEF OrderInv
  <1>3. Oldest' = Oldest
    BY Zenon DEF Oldest
  <1>4. \A g \in Loops : Pending(g)' <=> Pending(g)
    BY <1>3, Zenon DEF Pending
  <1>. QED  BY <1>1, <1>2, <1>4

-----------------------------------------------------------------------------
(* The index. *)

\* Root u is r after a batch of change c, which is recorded or has no effect.
Batched(r, c, recorded, u) ==
    /\ u \in RootType /\ CountersExact(u.tree) /\ c.path \in Paths
    /\ u.ticks = r.ticks + 1 /\ u.jj_events = r.jj_events
    /\ \/ u.oldest_available_tick = r.ticks + 1
       \/ /\ u.oldest_available_tick = r.oldest_available_tick
          /\ \A q \in Paths \ {c.path} : u.tree.entries[q] = r.tree.entries[q]
    /\ recorded => contains(u.tree, c.path) /\ u.tree.entries[c.path].oclock = r.ticks + 1
    /\ ~recorded => /\ u.tree = r.tree
                    /\ u.oldest_available_tick = r.oldest_available_tick

\* What a batch of one change does to the root.
LEMMA BatchOK ==
    ASSUME NEW r \in RootType, CountersExact(r.tree), NEW full \in BOOLEAN,
           NEW c \in PathChange,
           NEW u, u = apply_one(apply_begin(r, full), r.ticks + 1, c),
           NEW recorded,
           recorded = (c.op # "Remove" \/ r.jj_events \/ contains(r.tree, c.path))
    PROVE  Batched(r, c, recorded, u)
  <1>. DEFINE v == apply_begin(r, full)
              tick == r.ticks + 1
  <1>1. /\ v \in RootType /\ CountersExact(v.tree)
        /\ v.ticks = r.ticks + 1 /\ v.jj_events = r.jj_events
        /\ \/ v.tree = r.tree /\ v.oldest_available_tick = r.oldest_available_tick
           \/ v.oldest_available_tick = r.ticks + 1
    BY ApplyBeginOK, Zenon
  <1>2. ~r.jj_events => v.tree = r.tree /\ v.oldest_available_tick = r.oldest_available_tick
    BY Z3 DEF apply_begin, bump, RootState
  <1>3. tick \in Nat
    BY RootFacts, Z3
  <1>4. u = apply_one(v, tick, c)
    BY Zenon
  <1>. HIDE DEF v, tick
  <1>5. Changed(v, tick, c, u)
    BY <1>1, <1>3, <1>4, ApplyOneOK, Zenon
  <1>. QED  BY <1>1, <1>2, <1>5, Zenon DEF Changed, Batched, tick

\* A batch keeps the invariant: what it records is newer than any loop's tick,
\* and its event is to be sent.
LEMMA ApplyStep ==
    ASSUME IInv, NEW c \in PathChange, NEW full \in BOOLEAN, Apply(c, full)
    PROVE  IInv'
  <1>. DEFINE tick == root.ticks + 1
  <1>1. TypeInv /\ ClockInv /\ OrderInv /\ LoopInv /\ ResetInv
    BY Zenon DEF IInv
  <1>2. /\ root' \in RootType /\ CountersExact(root'.tree) /\ c.path \in Paths
        /\ root'.ticks = tick /\ root'.jj_events = root.jj_events
        /\ \/ root'.oldest_available_tick = tick
           \/ /\ root'.oldest_available_tick = root.oldest_available_tick
              /\ \A q \in Paths \ {c.path} : root'.tree.entries[q] = root.tree.entries[q]
        /\ Recorded(c) => contains(root'.tree, c.path)
                          /\ root'.tree.entries[c.path].oclock = tick
        /\ ~Recorded(c) => /\ root'.tree = root.tree
                           /\ root'.oldest_available_tick = root.oldest_available_tick
    <2>1. root \in RootType /\ CountersExact(root.tree)
          /\ root' = apply_one(apply_begin(root, full), tick, c)
      BY <1>1, Zenon DEF TypeInv, Apply
    <2>2. Recorded(c) = (c.op # "Remove" \/ root.jj_events \/ contains(root.tree, c.path))
      BY Zenon DEF Recorded
    <2>3. Batched(root, c, Recorded(c), root')
      BY <2>1, <2>2, BatchOK, Zenon
    <2>. QED  BY <2>3, Zenon DEF Batched
  <1>3. /\ UNCHANGED <<log, installed, pc, next, last, fresh, names, fired>>
        /\ "watcher" \in Senders /\ Tock("watcher")
    BY <1>2, Zenon DEF Apply, task, Tock, Senders, Set
  <1>4. \A g \in Loops : owed'[g] = IF Recorded(c) /\ Started(g) THEN owed[g] \cup {c.path}
                                    ELSE owed[g]
    BY <1>1, Zenon DEF Apply, TypeInv
  <1>5. lost' = IF Recorded(c) THEN lost \ {c.path} ELSE lost
    BY Zenon DEF Apply
  <1>6. /\ root.ticks \in Nat /\ tick \in Nat /\ root.oldest_available_tick \in Nat
        /\ root.oldest_available_tick <= tick /\ tick <= tick
        /\ \A g \in Loops : last[g] < tick /\ tick > last[g] /\ last[g] \in Nat
    BY <1>1, TypeFacts, Z3 DEF ClockInv
  <1>7. ClockInv' /\ OrderInv' /\ \A g \in Loops : Pending(g)'
    <2>1. root'.oldest_available_tick <= root.ticks + 1
      BY <1>2, <1>6, Zenon
    <2>. QED  BY <1>1, <1>3, <2>1, Ticked, Zenon
  <1>8. TypeInv'
    <2>1. owed' \in [Loops -> SUBSET Paths] /\ lost' \subseteq Paths
      <3>1. CASE Recorded(c)
        <4>1. \A g \in Loops : (IF Started(g) THEN owed[g] \cup {c.path} ELSE owed[g])
                               \in SUBSET Paths
          BY <1>1, <1>2, Zenon DEF TypeInv
        <4>2. owed' = [g \in Loops |-> IF Started(g) THEN owed[g] \cup {c.path} ELSE owed[g]]
          BY <3>1, Zenon DEF Apply
        <4>3. owed' \in [Loops -> SUBSET Paths]
          BY <4>1, <4>2, Zenon
        <4>. QED  BY <1>1, <1>5, <4>3, Zenon DEF TypeInv
      <3>2. CASE ~Recorded(c)
        BY <1>1, <3>2, Zenon DEF TypeInv, Apply
      <3>. QED  BY <3>1, <3>2
    <2>2. unsent' \in [Senders -> Nat]
      BY <1>1, <1>3, <1>6, Zenon DEF TypeInv, Tock
    <2>. QED  BY <1>1, <1>2, <1>3, <2>1, <2>2, Zenon DEF TypeInv
  <1>. HIDE DEF tick
  <1>9. LoopInv'
    <2>. SUFFICES ASSUME NEW g \in Loops
                  PROVE  /\ pc'[g] \in {"off", "spawn", "fence"} => owed'[g] = {}
                         /\ Started(g)' => Found(g)'
      BY <1>7, Zenon DEF LoopInv, LoopOK
    <2>1. pc'[g] \in {"off", "spawn", "fence"} => owed'[g] = {}
      BY <1>1, <1>3, <1>4, Zenon DEF LoopInv, LoopOK, Started
    <2>2. ASSUME Started(g), NEW p \in owed'[g] \ lost'
          PROVE  \/ contains(root'.tree, p) /\ root'.tree.entries[p].oclock > last[g]
                 \/ last[g] < root'.oldest_available_tick
      <3>1. CASE Recorded(c) /\ p = c.path
        BY <1>2, <1>6, <3>1, Zenon
      <3>2. CASE ~(Recorded(c) /\ p = c.path)
        <4>1. p \in owed[g] \ lost /\ p \in Paths
          BY <1>1, <1>4, <1>5, <2>2, <3>2, TypeFacts, Zenon
        <4>2. \/ contains(root.tree, p) /\ root.tree.entries[p].oclock > last[g]
              \/ last[g] < root.oldest_available_tick
          BY <1>1, <2>2, <4>1, Zenon DEF LoopInv, LoopOK, Found
        <4>. QED  BY <1>2, <1>6, <3>2, <4>1, <4>2, Zenon DEF contains
      <3>. QED  BY <3>1, <3>2, Zenon
    <2>. QED  BY <1>3, <2>1, <2>2, Zenon DEF Started, Found
  <1>10. ResetInv'
    BY <1>1, <1>2, <1>3, <1>6, <1>7, Zenon DEF ResetInv, ResetOK, Started
  <1>. QED  BY <1>7, <1>8, <1>9, <1>10, Zenon DEF IInv

\* A reset of the event index keeps it: its event is to be sent, and every
\* loop's tick is too old for the new index.
LEMMA InvalidateStep ==
    ASSUME IInv, NEW s \in Senders, Invalidate(s)
    PROVE  IInv'
  <1>1. TypeInv /\ ClockInv /\ OrderInv /\ LoopInv /\ ResetInv
    BY Zenon DEF IInv
  <1>2. /\ root' \in RootType /\ CountersExact(root'.tree)
        /\ root'.ticks = root.ticks + 1 /\ root'.jj_events
        /\ root'.oldest_available_tick = root.ticks + 1
    BY <1>1, InvalidateOK, Zenon DEF TypeInv, Invalidate
  <1>3. /\ UNCHANGED <<log, installed, pc, next, last, fresh, names, owed, lost, fired>>
        /\ Tock(s)
    BY <1>2, Zenon DEF Invalidate, task, history, Tock, Set
  <1>4. /\ root.ticks + 1 \in Nat /\ root.ticks + 1 <= root.ticks + 1
        /\ \A g \in Loops : last[g] < root.ticks + 1
    BY <1>1, TypeFacts, Z3 DEF ClockInv
  <1>5. ClockInv' /\ OrderInv' /\ \A g \in Loops : Pending(g)'
    BY <1>1, <1>2, <1>3, <1>4, Ticked, Zenon
  <1>6. TypeInv'
    <2>1. unsent' \in [Senders -> Nat]
      BY <1>1, <1>3, <1>4, Zenon DEF TypeInv, Tock
    <2>. QED  BY <1>1, <1>2, <1>3, <2>1, Zenon DEF TypeInv
  <1>7. LoopInv'
    BY <1>1, <1>2, <1>3, <1>4, <1>5, Zenon DEF LoopInv, LoopOK, Started, Found
  <1>8. ResetInv'
    BY <1>2, <1>3, <1>4, <1>5, Zenon DEF ResetInv, ResetOK
  <1>. QED  BY <1>5, <1>6, <1>7, <1>8, Zenon DEF IInv

\* A promotion ends the event index and sends no event: it only makes loops'
\* ticks too old.
LEMMA Promotion ==
    ASSUME IInv, root.jj_events, NEW scan \in Scans, root' = promote_to_full(root, scan),
           UNCHANGED <<unsent, log, next, last, fresh, names, owed, lost, fired>>,
           installed' \in BOOLEAN, pc' \in [Loops -> Steps],
           \A g \in Loops : pc'[g] = pc[g] \/ (pc[g] = "off" /\ pc'[g] = "spawn")
    PROVE  IInv'
  <1>1. TypeInv /\ ClockInv /\ OrderInv /\ LoopInv
    BY Zenon DEF IInv
  <1>2. Promoted(root, scan, root')
    BY <1>1, PromoteOK, Zenon DEF TypeInv
  <1>3. /\ root' \in RootType /\ CountersExact(root'.tree)
        /\ root'.ticks = root.ticks + 1 /\ root'.jj_events = FALSE
        /\ root'.oldest_available_tick = root.ticks + 1
    BY <1>2, Zenon DEF Promoted
  <1>4. /\ root.ticks + 1 \in Nat /\ root.ticks + 1 <= root.ticks + 1
        /\ root.ticks <= root.ticks + 1
        /\ \A g \in Loops : last[g] < root.ticks + 1
    BY <1>1, TypeFacts, Z3 DEF ClockInv
  <1>5. ClockInv' /\ OrderInv' /\ \A g \in Loops : Pending(g)' <=> Pending(g)
    BY <1>1, <1>3, <1>4, Quiet, Zenon
  <1>6. TypeInv'
    BY <1>1, <1>3, Zenon DEF TypeInv
  <1>7. LoopInv'
    BY <1>1, <1>3, <1>4, <1>5, Zenon DEF LoopInv, LoopOK, Started, Listens, Found
  <1>8. ResetInv'
    BY <1>3, Zenon DEF ResetInv, ResetOK
  <1>. QED  BY <1>5, <1>6, <1>7, <1>8, Zenon DEF IInv

\* Another client's promotion is one of these.
LEMMA PromoteStep ==
    ASSUME IInv, NEW scan \in Scans, Promote(scan)
    PROVE  IInv'
  <1>1. /\ UNCHANGED <<unsent, log, installed, pc, next, last, fresh, names, owed, lost, fired>>
        /\ root.jj_events /\ root' = promote_to_full(root, scan)
    BY Zenon DEF Promote, task, history
  <1>2. installed \in BOOLEAN /\ pc \in [Loops -> Steps]
    BY Zenon DEF IInv, TypeInv
  <1>. QED  BY <1>1, <1>2, Promotion, Zenon

\* `trigger` installs the name, and promotes the root if need be.
LEMMA InstallStep ==
    ASSUME IInv, NEW g \in Loops, NEW scan \in Scans, Install(g, scan)
    PROVE  IInv'
  <1>1. TypeInv /\ ClockInv /\ OrderInv /\ LoopInv /\ ResetInv
    BY Zenon DEF IInv
  <1>2. /\ UNCHANGED <<unsent, log, next, last, fresh, names, owed, lost, fired>>
        /\ installed' = TRUE /\ pc[g] = "off" /\ pc' = [pc EXCEPT ![g] = "spawn"]
    BY Zenon DEF Install, history, Set
  <1>3. /\ pc' \in [Loops -> Steps]
        /\ \A h \in Loops : pc'[h] = pc[h] \/ (pc[h] = "off" /\ pc'[h] = "spawn")
    BY <1>1, <1>2, Zenon DEF TypeInv, Steps
  <1>4. CASE root.jj_events /\ root' = promote_to_full(root, scan)
    BY <1>2, <1>3, <1>4, Promotion, Zenon
  <1>5. CASE UNCHANGED root
    <2>1. root.ticks \in Nat /\ root.ticks <= root.ticks
          /\ root.oldest_available_tick <= root.ticks
      BY <1>1, TypeFacts, Z3 DEF ClockInv
    <2>2. ClockInv' /\ OrderInv' /\ \A h \in Loops : Pending(h)' <=> Pending(h)
      BY <1>1, <1>2, <1>5, <2>1, Quiet, Zenon
    <2>3. TypeInv' /\ LoopInv'
      BY <1>1, <1>2, <1>3, <1>5, <2>2, Zenon DEF TypeInv, LoopInv, LoopOK, Started, Listens, Found
    <2>4. ResetInv'
      BY <1>1, <1>2, <1>3, <1>5, <2>2, Zenon DEF ResetInv, ResetOK, Started, Listens
    <2>. QED  BY <2>2, <2>3, <2>4, Zenon DEF IInv
  <1>. QED  BY <1>4, <1>5, Zenon DEF Install

\* The clock alone.
LEMMA ClockBumpStep == ASSUME IInv, ClockBump PROVE IInv'
  <1>1. TypeInv /\ ClockInv /\ OrderInv /\ LoopInv /\ ResetInv
    BY Zenon DEF IInv
  <1>2. /\ UNCHANGED <<unsent, log, installed, pc, next, last, fresh, names, owed, lost, fired>>
        /\ root' = bump(root)
    BY Zenon DEF ClockBump, task, history
  <1>3. /\ root' \in RootType /\ root'.tree = root.tree /\ root'.ticks = root.ticks + 1
        /\ root'.jj_events = root.jj_events
        /\ root'.oldest_available_tick = root.oldest_available_tick
    BY <1>1, <1>2, Z3 DEF TypeInv, bump, RootState, RootType
  <1>4. /\ root'.ticks \in Nat /\ root.ticks <= root'.ticks
        /\ root'.oldest_available_tick <= root'.ticks
    BY <1>1, <1>3, TypeFacts, Z3 DEF ClockInv
  <1>5. ClockInv' /\ OrderInv' /\ \A g \in Loops : Pending(g)' <=> Pending(g)
    BY <1>1, <1>2, <1>4, Quiet, Zenon
  <1>6. TypeInv'
    BY <1>1, <1>2, <1>3, Zenon DEF TypeInv
  <1>7. LoopInv' /\ ResetInv'
    BY <1>1, <1>2, <1>3, <1>5, Zenon DEF LoopInv, LoopOK, ResetInv, ResetOK, Started, Listens, Found
  <1>. QED  BY <1>5, <1>6, <1>7, Zenon DEF IInv

\* A step on a full index, whose ticks it does not lose: what it takes out is
\* lost, and what it leaves is there as late as before or later.
LEMMA FullIndex ==
    ASSUME IInv, ~root.jj_events, root' \in RootType, CountersExact(root'.tree),
           UNCHANGED <<unsent, log, installed, pc, next, last, fresh, names, owed, fired>>,
           root'.jj_events = root.jj_events,
           root'.oldest_available_tick = root.oldest_available_tick,
           root.ticks <= root'.ticks, lost \subseteq lost', lost' \subseteq Paths,
           \A p \in Paths \ lost', g \in Loops :
              contains(root.tree, p) /\ root.tree.entries[p].oclock > last[g]
              => contains(root'.tree, p) /\ root'.tree.entries[p].oclock > last[g]
    PROVE  IInv'
  <1>1. TypeInv /\ ClockInv /\ OrderInv /\ LoopInv
    BY Zenon DEF IInv
  <1>2. root'.ticks \in Nat /\ root'.oldest_available_tick <= root'.ticks
    BY <1>1, RootFacts, Z3 DEF TypeInv, ClockInv
  <1>3. ClockInv' /\ OrderInv' /\ \A g \in Loops : Pending(g)' <=> Pending(g)
    BY <1>1, <1>2, Quiet, Zenon
  <1>4. TypeInv' /\ ResetInv'
    BY <1>1, Zenon DEF TypeInv, ResetInv, ResetOK
  <1>5. LoopInv'
    <2>. SUFFICES ASSUME NEW g \in Loops PROVE LoopOK(g)'
      BY Zenon DEF LoopInv
    <2>1. LoopOK(g) /\ owed[g] \subseteq Paths
      BY <1>1, TypeFacts, Zenon DEF LoopInv
    <2>2. owed'[g] \ lost' \subseteq owed[g] \ lost
      BY Zenon
    <2>3. Found(g) => Found(g)'
      BY <2>1, <2>2, Zenon DEF Found
    <2>. QED  BY <1>3, <2>1, <2>2, <2>3, Zenon DEF LoopOK, Started, Listens
  <1>. QED  BY <1>3, <1>4, <1>5, Zenon DEF IInv

\* A recrawl of it loses the paths it no longer finds; the others are newer.
LEMMA RecrawlStep ==
    ASSUME IInv, NEW scan \in Scans, Recrawl(scan)
    PROVE  IInv'
  <1>1. TypeInv /\ ClockInv
    BY Zenon DEF IInv
  <1>2. /\ UNCHANGED <<unsent, log, installed, pc, next, last, fresh, names, owed, fired>>
        /\ ~root.jj_events /\ root' = seed(root, scan)
        /\ lost' = lost \cup (Known(root.tree) \ DOMAIN scan)
    BY Zenon DEF Recrawl, task
  <1>3. /\ root' \in RootType /\ CountersExact(root'.tree)
        /\ root'.ticks = root.ticks + 1 /\ root'.jj_events = root.jj_events
        /\ root'.oldest_available_tick = root.oldest_available_tick
        /\ \A p \in Paths :
              /\ contains(root'.tree, p) <=> p \in DOMAIN scan
              /\ p \in DOMAIN scan => root'.tree.entries[p].oclock = root.ticks + 1
    BY <1>1, <1>2, SeedOK, Z3 DEF TypeInv
  <1>4. /\ root.ticks <= root.ticks + 1
        /\ \A g \in Loops : root.ticks + 1 > last[g]
    BY <1>1, TypeFacts, Z3 DEF ClockInv
  <1>5. lost \subseteq lost' /\ lost' \subseteq Paths
    BY <1>1, <1>2, Zenon DEF TypeInv, Known
  <1>6. \A p \in Paths \ lost', g \in Loops :
           contains(root.tree, p) /\ root.tree.entries[p].oclock > last[g]
           => contains(root'.tree, p) /\ root'.tree.entries[p].oclock > last[g]
    BY <1>2, <1>3, <1>4, Zenon DEF Known
  <1>. QED  BY <1>2, <1>3, <1>4, <1>5, <1>6, FullIndex, Zenon

\* A sweep loses the tombstones it takes.
LEMMA PruneStep == ASSUME IInv, Prune PROVE IInv'
  <1>1. TypeInv /\ ClockInv
    BY Zenon DEF IInv
  <1>2. /\ UNCHANGED <<unsent, log, installed, pc, next, last, fresh, names, owed, fired>>
        /\ ~root.jj_events /\ root' = prune(root, root.ticks)
        /\ lost' = lost \cup Prunable(root.tree, root.ticks)
    BY Zenon DEF Prune, task
  <1>3. /\ root' \in RootType /\ CountersExact(root'.tree)
        /\ root'.ticks = root.ticks /\ root'.jj_events = root.jj_events
        /\ root'.oldest_available_tick = root.oldest_available_tick
        /\ \A p \in Paths : p \notin Prunable(root.tree, root.ticks)
                            => root'.tree.entries[p] = root.tree.entries[p]
    <2>1. root \in RootType /\ CountersExact(root.tree) /\ root.ticks \in Nat
      BY <1>1, TypeFacts, Zenon DEF TypeInv
    <2>2. Pruned(root, root.ticks, root')
      BY <1>2, <2>1, PruneRootOK, Zenon
    <2>. QED  BY <2>2, Zenon DEF Pruned
  <1>4. root.ticks <= root'.ticks
    BY <1>1, <1>3, TypeFacts, Z3
  <1>5. lost \subseteq lost' /\ lost' \subseteq Paths
    BY <1>1, <1>2, Zenon DEF TypeInv, Prunable, Tombs, Known
  <1>6. \A p \in Paths \ lost', g \in Loops :
           contains(root.tree, p) /\ root.tree.entries[p].oclock > last[g]
           => contains(root'.tree, p) /\ root'.tree.entries[p].oclock > last[g]
    BY <1>2, <1>3, Zenon DEF contains
  <1>. QED  BY <1>2, <1>3, <1>4, <1>5, <1>6, FullIndex, Zenon

-----------------------------------------------------------------------------
(* The broadcast. *)

\* Sending an event loses no wake-up: the one it pushes out of the channel is
\* followed by at least two, one of which is newer.
LEMMA SendKeeps ==
    ASSUME TypeInv, ClockInv, OrderInv, NEW s \in Senders, unsent[s] # 0,
           log' = Append(log, unsent[s]), unsent' = [unsent EXCEPT ![s] = 0],
           UNCHANGED <<next, last>>, OrderInv',
           NEW g \in Loops, Pending(g)
    PROVE  Pending(g)'
  <1>1. /\ Len(log') = Len(log) + 1 /\ log'[Len(log) + 1] = unsent[s]
        /\ \A i \in 1..Len(log) : log'[i] = log[i]
    BY Z3 DEF TypeInv
  <1>2. \A r \in Senders : unsent'[r] = IF r = s THEN 0 ELSE unsent[r]
    BY Zenon DEF TypeInv
  <1>3. /\ Len(log) \in Nat /\ next[g] \in Nat \ {0} /\ next[g] <= Len(log) + 1
        /\ last[g] \in Nat /\ unsent[s] \in Nat
        /\ \A i \in 1..Len(log) : log[i] \in Nat
    BY TypeFacts, Zenon DEF ClockInv
  <1>4. /\ Oldest' \in 1..Len(log) + 1
        /\ Oldest' \in {Oldest, Oldest + 1}
        /\ Oldest' = Oldest + 1 => Oldest + 2 <= Len(log) + 1
    BY <1>1, <1>3, TriggerAssumption, Z3 DEF Oldest
  <1>5. CASE unsent[s] > last[g]
    <2>1. Len(log) + 1 \in next'[g]..Len(log') /\ Len(log) + 1 >= Oldest'
          /\ log'[Len(log) + 1] > last'[g]
      BY <1>1, <1>3, <1>4, <1>5, Z3
    <2>. QED  BY <2>1, Zenon DEF Pending
  <1>6. CASE \E r \in Senders : r # s /\ unsent[r] > last[g]
    BY <1>2, <1>6, Zenon DEF Pending
  <1>7. CASE \E i \in next[g]..Len(log) : i >= Oldest /\ log[i] > last[g]
    <2>1. PICK i \in next[g]..Len(log) : i >= Oldest /\ log[i] > last[g]
      BY <1>7
    <2>2. i \in 1..Len(log) /\ i \in Nat /\ i \in 1..Len(log')
      BY <1>1, <1>3, Z3
    <2>3. CASE i >= Oldest'
      <3>1. i \in next'[g]..Len(log') /\ log'[i] > last'[g]
        BY <1>1, <1>3, <2>1, <2>2, Z3
      <3>. QED  BY <2>3, <3>1, Zenon DEF Pending
    <2>4. CASE ~(i >= Oldest')
      <3>1. /\ i + 1 \in 1..Len(log') /\ i + 2 \in 1..Len(log') /\ i < i + 1 /\ i + 1 < i + 2
            /\ i + 1 >= Oldest' /\ i + 2 >= Oldest'
            /\ i + 1 \in next'[g]..Len(log') /\ i + 2 \in next'[g]..Len(log')
        BY <1>1, <1>3, <1>4, <2>1, <2>2, <2>4, OldestFacts, Z3
      <3>2. log'[i + 1] > log'[i] \/ log'[i + 2] > log'[i]
        BY <2>2, <3>1, Zenon DEF OrderInv
      <3>3. log'[i + 1] \in Nat /\ log'[i + 2] \in Nat /\ log'[i] = log[i]
        BY <1>1, <1>3, <2>2, <3>1, Z3
      <3>4. log'[i + 1] > last'[g] \/ log'[i + 2] > last'[g]
        <4>1. log[i] \in Nat /\ last[g] \in Nat /\ log[i] > last[g] /\ last' = last
          BY <1>3, <2>1, <2>2, Zenon
        <4>2. \A x \in Nat : x > log[i] => x > last[g]
          BY ONLY <4>1, Z3
        <4>. QED  BY <3>2, <3>3, <4>1, <4>2, Zenon
      <3>. QED  BY <3>1, <3>4, Zenon DEF Pending
    <2>. QED  BY <2>3, <2>4
  <1>. QED  BY <1>5, <1>6, <1>7, Zenon DEF Pending

\* The events stay in their order, but for one.
LEMMA SendOrder ==
    ASSUME TypeInv, OrderInv, NEW s \in Senders, unsent[s] # 0,
           log' = Append(log, unsent[s]), unsent' = [unsent EXCEPT ![s] = 0]
    PROVE  OrderInv'
  <1>. DEFINE n == Len(log) + 1
  <1>1. /\ Len(log') = n /\ log'[n] = unsent[s] /\ 1..n = 1..Len(log) \cup {n}
        /\ \A i \in 1..Len(log) : log'[i] = log[i] /\ i # n /\ ~(n < i)
        /\ ~(n < n)
    BY TypeFacts, Z3 DEF TypeInv
  <1>2. \A r \in Senders : unsent'[r] = IF r = s THEN 0 ELSE unsent[r]
    BY Zenon DEF TypeInv
  <1>3. \A r, t \in Senders : r # t => r = s \/ t = s
    BY Zenon DEF Senders
  <1>. HIDE DEF n
  <1>. SUFFICES ASSUME NEW i \in 1..Len(log')
                PROVE  /\ \A j, k \in 1..Len(log') :
                             i < j /\ j < k => log'[j] > log'[i] \/ log'[k] > log'[i]
                       /\ \A j \in 1..Len(log'), r \in Senders :
                             i < j /\ unsent'[r] # 0
                             => log'[j] > log'[i] \/ unsent'[r] > log'[i]
                       /\ \A r, t \in Senders :
                             r # t => unsent'[r] = 0 \/ unsent'[t] = 0
    BY Zenon DEF OrderInv
  <1>4. ASSUME NEW j \in 1..Len(log'), NEW k \in 1..Len(log'), i < j, j < k
        PROVE  log'[j] > log'[i] \/ log'[k] > log'[i]
    BY <1>1, <1>4, Z3 DEF OrderInv
  <1>5. ASSUME NEW j \in 1..Len(log'), NEW r \in Senders, i < j, unsent'[r] # 0
        PROVE  log'[j] > log'[i] \/ unsent'[r] > log'[i]
    BY <1>1, <1>2, <1>5, Z3 DEF OrderInv
  <1>6. ASSUME NEW r \in Senders, NEW t \in Senders, r # t
        PROVE  unsent'[r] = 0 \/ unsent'[t] = 0
    BY <1>2, <1>3, <1>6, Zenon
  <1>. QED  BY <1>4, <1>5, <1>6, Zenon

\* So sending keeps the invariant.
LEMMA SendStep == ASSUME IInv, NEW s \in Senders, Send(s) PROVE IInv'
  <1>1. TypeInv /\ ClockInv /\ OrderInv /\ LoopInv /\ ResetInv
    BY Zenon DEF IInv
  <1>2. /\ unsent[s] # 0 /\ log' = Append(log, unsent[s])
        /\ unsent' = [unsent EXCEPT ![s] = 0]
        /\ UNCHANGED <<root, installed, pc, next, last, fresh, names, owed, lost, fired>>
    BY Zenon DEF Send, Set, task, history
  <1>3. log' \in Seq(Nat) /\ Len(log') = Len(log) + 1 /\ unsent[s] <= root.ticks
        /\ \A i \in 1..Len(log') : log'[i] \in Nat /\ log'[i] <= root.ticks
    <2>1. unsent[s] \in Nat /\ log \in Seq(Nat) /\ unsent[s] <= root.ticks
          /\ \A i \in 1..Len(log) : log[i] <= root.ticks
      BY <1>1, TypeFacts, Zenon DEF TypeInv, ClockInv
    <2>. QED  BY <1>2, <2>1, Z3
  <1>4. TypeInv'
    BY <1>1, <1>2, <1>3, Zenon DEF TypeInv
  <1>5. ClockInv'
    <2>1. 0 <= root.ticks /\ \A g \in Loops : next[g] <= Len(log') + 1
      BY <1>1, <1>3, TypeFacts, Z3 DEF ClockInv
    <2>2. \A r \in Senders : unsent'[r] = IF r = s THEN 0 ELSE unsent[r]
      BY <1>1, <1>2, Zenon DEF TypeInv
    <2>. QED  BY <1>1, <1>2, <1>3, <2>1, <2>2, Zenon DEF ClockInv
  <1>6. OrderInv'
    BY <1>1, <1>2, SendOrder, Zenon
  <1>7. \A g \in Loops : Pending(g) => Pending(g)'
    BY <1>1, <1>2, <1>6, SendKeeps, Zenon
  <1>8. LoopInv' /\ ResetInv'
    BY <1>1, <1>2, <1>7, Zenon DEF LoopInv, LoopOK, ResetInv, ResetOK, Started, Listens, Found
  <1>. QED  BY <1>4, <1>5, <1>6, <1>8, Zenon DEF IInv

-----------------------------------------------------------------------------
(* The loops. *)

\* A step of loop g leaves the index, the events and the other loops alone.
Only(g) ==
    /\ UNCHANGED <<root, unsent, log, installed, lost>>
    /\ \A h \in Loops \ {g} :
          /\ pc'[h] = pc[h] /\ next'[h] = next[h] /\ last'[h] = last[h]
          /\ fresh'[h] = fresh[h] /\ owed'[h] = owed[h] /\ fired'[h] = fired[h]

\* So it keeps the invariant if it keeps it for g.
LEMMA LoopStep ==
    ASSUME IInv, NEW g \in Loops, Only(g), TypeInv',
           next'[g] <= Len(log) + 1, last'[g] <= root.ticks, fired'[g] <= root.ticks,
           LoopOK(g)', ResetOK(g)'
    PROVE  IInv'
  <1>1. ClockInv /\ OrderInv /\ LoopInv /\ ResetInv
    BY Zenon DEF IInv
  <1>2. UNCHANGED <<root, unsent, log, lost>>
    BY Zenon DEF Only
  <1>3. ClockInv'
    BY <1>1, <1>2, Zenon DEF ClockInv, Only
  <1>4. OrderInv'
    BY <1>1, <1>2, Zenon DEF OrderInv
  <1>5. ASSUME NEW h \in Loops \ {g} PROVE LoopOK(h)' /\ ResetOK(h)'
    <2>1. /\ pc'[h] = pc[h] /\ next'[h] = next[h] /\ last'[h] = last[h]
          /\ fresh'[h] = fresh[h] /\ owed'[h] = owed[h] /\ fired'[h] = fired[h]
      BY Zenon DEF Only
    <2>2. Oldest' = Oldest
      BY <1>2, Zenon DEF Oldest
    <2>3. Pending(h)' <=> Pending(h)
      BY <1>2, <2>1, <2>2, Zenon DEF Pending
    <2>4. LoopOK(h) /\ ResetOK(h)
      BY <1>1, Zenon DEF LoopInv, ResetInv
    <2>. QED  BY <1>2, <2>1, <2>3, <2>4, Zenon DEF LoopOK, ResetOK, Started, Listens, Found
  <1>6. LoopInv' /\ ResetInv'
    BY <1>5, Zenon DEF LoopInv, ResetInv
  <1>. QED  BY <1>3, <1>4, <1>6, Zenon DEF IInv

\* What is the case of loop g.
LEMMA LoopFacts ==
    ASSUME IInv, NEW g \in Loops
    PROVE  /\ TypeInv /\ LoopOK(g) /\ ResetOK(g)
           /\ next[g] <= Len(log) + 1 /\ last[g] <= root.ticks /\ fired[g] <= root.ticks
           /\ root.oldest_available_tick <= root.ticks /\ root.ticks > 0
           /\ next[g] \in Nat \ {0} /\ last[g] \in Nat /\ fired[g] \in Nat
           /\ root.ticks \in Nat /\ root.oldest_available_tick \in Nat /\ Len(log) \in Nat
  BY TypeFacts, Zenon DEF IInv, ClockInv, LoopInv, ResetInv

\* A new loop receives what is sent from now on.
LEMMA SpawnStep == ASSUME IInv, NEW g \in Loops, Spawn(g) PROVE IInv'
  <1>1. TypeInv /\ LoopOK(g) /\ Len(log) \in Nat
    BY LoopFacts, Zenon
  <1>2. /\ pc[g] = "spawn" /\ pc' = [pc EXCEPT ![g] = "fence"]
        /\ next' = [next EXCEPT ![g] = Len(log) + 1]
        /\ UNCHANGED <<root, unsent, log, installed, last, fresh, names, owed, lost, fired>>
    BY Zenon DEF Spawn, Set, history
  <1>3. Len(log) + 1 \in Nat \ {0} /\ Len(log) + 1 <= Len(log) + 1
    BY <1>1, Z3
  <1>4. TypeInv' /\ Only(g) /\ pc'[g] = "fence" /\ next'[g] = Len(log) + 1
    BY <1>1, <1>2, <1>3, Zenon DEF TypeInv, Only, Steps
  <1>5. LoopOK(g)' /\ ResetOK(g)'
    BY <1>1, <1>2, <1>4, Zenon DEF LoopOK, ResetOK, Started, Listens
  <1>6. last'[g] <= root.ticks /\ fired'[g] <= root.ticks
    BY <1>2, LoopFacts, Zenon
  <1>. QED  BY <1>3, <1>4, <1>5, <1>6, LoopStep, Zenon

\* It starts at the clock, so it is owed nothing of what was before.
LEMMA FenceStep == ASSUME IInv, NEW g \in Loops, Fence(g) PROVE IInv'
  <1>1. TypeInv /\ LoopOK(g) /\ root.ticks \in Nat
        /\ root.oldest_available_tick \in Nat /\ root.oldest_available_tick <= root.ticks
    BY LoopFacts, Zenon
  <1>2. /\ pc[g] = "fence" /\ pc' = [pc EXCEPT ![g] = "loop"]
        /\ last' = [last EXCEPT ![g] = root.ticks]
        /\ fired' = [fired EXCEPT ![g] = root.ticks]
        /\ UNCHANGED <<root, unsent, log, installed, next, fresh, names, owed, lost>>
    BY Zenon DEF Fence, Set
  <1>3. root.ticks <= root.ticks /\ ~(root.ticks < root.oldest_available_tick)
    BY <1>1, Z3
  <1>4. /\ TypeInv' /\ Only(g) /\ pc'[g] = "loop"
        /\ last'[g] = root.ticks /\ fired'[g] = root.ticks
    BY <1>1, <1>2, Zenon DEF TypeInv, Only, Steps
  <1>5. owed'[g] = {}
    BY <1>1, <1>2, Zenon DEF LoopOK
  <1>6. LoopOK(g)' /\ ResetOK(g)'
    BY <1>2, <1>3, <1>4, <1>5, Zenon DEF LoopOK, ResetOK, Found
  <1>7. next'[g] <= Len(log) + 1
    BY <1>2, LoopFacts, Zenon
  <1>. QED  BY <1>3, <1>4, <1>6, <1>7, LoopStep, Zenon

\* Lagging skips only events that are no longer in the channel.
LEMMA LaggedStep == ASSUME IInv, NEW g \in Loops, Lagged(g) PROVE IInv'
  <1>1. TypeInv /\ LoopOK(g) /\ ResetOK(g) /\ Len(log) \in Nat /\ next[g] \in Nat
    BY LoopFacts, Zenon
  <1>2. /\ pc[g] = "loop" /\ next[g] < Oldest
        /\ next' = [next EXCEPT ![g] = Oldest]
        /\ UNCHANGED <<root, unsent, log, installed, pc, last, fresh, names, owed, lost, fired>>
    BY Zenon DEF Lagged, Set, history
  <1>3. Oldest \in Nat \ {0} /\ Oldest <= Len(log) + 1
    BY <1>1, OldestFacts, Z3
  <1>4. TypeInv' /\ Only(g) /\ next'[g] = Oldest
    BY <1>1, <1>2, <1>3, Zenon DEF TypeInv, Only
  <1>5. Pending(g) => Pending(g)'
    <2>1. Oldest' = Oldest
      BY <1>2, Zenon DEF Oldest
    <2>2. \A i \in next[g]..Len(log) : i >= Oldest => i \in Oldest..Len(log)
      BY <1>1, <1>3, Z3
    <2>. QED  BY <1>2, <1>4, <2>1, <2>2, Zenon DEF Pending
  <1>6. LoopOK(g)' /\ ResetOK(g)'
    BY <1>1, <1>2, <1>5, Zenon DEF LoopOK, ResetOK, Started, Listens, Found
  <1>7. last'[g] <= root.ticks /\ fired'[g] <= root.ticks
    BY <1>2, LoopFacts, Zenon
  <1>. QED  BY <1>3, <1>4, <1>6, <1>7, LoopStep, Zenon

\* An event that is skipped is no newer than what the loop observed.
LEMMA RecvStep == ASSUME IInv, NEW g \in Loops, Recv(g) PROVE IInv'
  <1>. DEFINE to == IF ~installed THEN "done"
                    ELSE IF log[next[g]] <= last[g] THEN "loop" ELSE "run"
  <1>1. TypeInv /\ LoopOK(g) /\ ResetOK(g) /\ Len(log) \in Nat /\ next[g] \in Nat \ {0}
        /\ last[g] \in Nat
    BY LoopFacts, Zenon
  <1>2. /\ pc[g] = "loop" /\ next[g] \in Oldest..Len(log)
        /\ next' = [next EXCEPT ![g] = next[g] + 1]
        /\ pc' = [pc EXCEPT ![g] = to]
        /\ owed' = IF installed THEN owed ELSE [owed EXCEPT ![g] = {}]
        /\ UNCHANGED <<root, unsent, log, installed, last, fresh, names, lost, fired>>
    BY Zenon DEF Recv, Set
  <1>3. next[g] + 1 \in Nat \ {0} /\ next[g] + 1 <= Len(log) + 1
    BY <1>1, <1>2, OldestFacts, Z3
  <1>4. to \in Steps
    BY Zenon DEF Steps
  <1>5. TypeInv' /\ Only(g) /\ next'[g] = next[g] + 1 /\ pc'[g] = to
    BY <1>1, <1>2, <1>3, <1>4, Zenon DEF TypeInv, Only
  <1>6. ASSUME ~installed PROVE LoopOK(g)' /\ ResetOK(g)'
    BY <1>5, <1>6, Zenon DEF LoopOK, ResetOK, Started, Listens
  <1>7. ASSUME installed, ~(log[next[g]] <= last[g]) PROVE LoopOK(g)' /\ ResetOK(g)'
    <2>1. owed' = owed /\ pc'[g] = "run"
      BY <1>2, <1>5, <1>7, Zenon
    <2>. QED  BY <1>1, <1>2, <2>1, Zenon DEF LoopOK, ResetOK, Started, Listens, Found
  <1>8. ASSUME installed, log[next[g]] <= last[g] PROVE LoopOK(g)' /\ ResetOK(g)'
    <2>1. owed' = owed /\ pc'[g] = "loop"
      BY <1>2, <1>5, <1>8, Zenon
    <2>2. Pending(g) => Pending(g)'
      <3>1. Oldest' = Oldest
        BY <1>2, Zenon DEF Oldest
      <3>2. ASSUME NEW i \in next[g]..Len(log), log[i] > last[g]
            PROVE  i \in next[g] + 1..Len(log)
        <4>1. i # next[g]
          <5>1. log[next[g]] \in Nat
            BY <1>1, <1>2, OldestFacts, TypeFacts, Z3
          <5>. QED  BY <1>1, <1>8, <3>2, <5>1, Z3
        <4>. QED  BY <1>1, <4>1, Z3
      <3>. QED  BY <1>2, <1>5, <3>1, <3>2, Zenon DEF Pending
    <2>. QED  BY <1>1, <1>2, <2>1, <2>2, Zenon DEF LoopOK, ResetOK, Started, Listens, Found
  <1>9. last'[g] <= root.ticks /\ fired'[g] <= root.ticks
    BY <1>2, LoopFacts, Zenon
  <1>. QED  BY <1>3, <1>5, <1>6, <1>7, <1>8, <1>9, LoopStep, Zenon

\* A step of a loop that moves it alone.
LEMMA GotoStep ==
    ASSUME IInv, NEW g \in Loops, NEW to \in {"loop", "done"},
           pc[g] \in {"loop", "fire"}, pc' = [pc EXCEPT ![g] = to],
           UNCHANGED <<root, unsent, log, installed, next, last, fresh, names, owed, lost, fired>>
    PROVE  IInv'
  <1>1. TypeInv /\ LoopOK(g) /\ ResetOK(g)
    BY LoopFacts, Zenon
  <1>2. TypeInv' /\ Only(g) /\ pc'[g] = to
    BY <1>1, Zenon DEF TypeInv, Only, Steps
  <1>3. Oldest' = Oldest
    BY Zenon DEF Oldest
  <1>4. Pending(g)' <=> Pending(g)
    BY <1>3, Zenon DEF Pending
  <1>5. LoopOK(g)' /\ ResetOK(g)'
    BY <1>1, <1>2, <1>4, Zenon DEF LoopOK, ResetOK, Started, Listens, Found
  <1>6. next'[g] <= Len(log) + 1 /\ last'[g] <= root.ticks /\ fired'[g] <= root.ticks
    BY LoopFacts, Zenon
  <1>. QED  BY <1>2, <1>5, <1>6, LoopStep, Zenon

\* The end of a loop whose root has gone.
LEMMA ClosedStep == ASSUME IInv, NEW g \in Loops, Closed(g) PROVE IInv'
  BY GotoStep, Zenon DEF Closed, Set, history

\* The end of the command it ran.
LEMMA FireStep == ASSUME IInv, NEW g \in Loops, fire(g) PROVE IInv'
  BY GotoStep, Zenon DEF fire, Set, history

\* The query reports all that is owed, or is fresh.
LEMMA QueryStep == ASSUME IInv, NEW g \in Loops, Query(g) PROVE IInv'
  <1>. DEFINE a == answer(root, Tick(last[g]), 0, FALSE)
  <1>1. /\ TypeInv /\ LoopOK(g) /\ ResetOK(g) /\ last[g] \in Nat
        /\ root.oldest_available_tick \in Nat /\ root.ticks \in Nat
        /\ root.oldest_available_tick <= root.ticks
    BY LoopFacts, Zenon
  <1>2. a.clock = root.ticks /\ a.fresh \in BOOLEAN /\ a.files \in SUBSET Paths
    <2>1. files(root, Tick(last[g]), 0) \in SUBSET Paths
      BY Zenon DEF files, Known
    <2>2. is_fresh_instance(root, Tick(last[g]), 0) \in BOOLEAN
      BY Zenon DEF is_fresh_instance
    <2>. QED  BY <2>1, <2>2, Zenon DEF answer
  <1>3. last[g] < root.oldest_available_tick => a.fresh
    BY Zenon DEF answer, is_fresh_instance, on_tick_axis, since_tick, tick_against, Tick
  <1>4. \A p \in Paths : contains(root.tree, p) /\ root.tree.entries[p].oclock > last[g]
                         => p \in a.files
    BY Zenon DEF answer, files, Known, since_tick, tick_against, Tick
  <1>5. /\ pc[g] = "run" /\ pc' = [pc EXCEPT ![g] = "decide"]
        /\ last' = [last EXCEPT ![g] = a.clock]
        /\ fresh' = [fresh EXCEPT ![g] = a.fresh]
        /\ names' = [names EXCEPT ![g] = a.files]
        /\ owed' = [owed EXCEPT ![g] = IF a.fresh THEN {} ELSE owed[g] \ a.files]
        /\ UNCHANGED <<root, unsent, log, installed, next, lost, fired>>
    BY Zenon DEF Query, Set
  <1>. HIDE DEF a
  <1>6. /\ TypeInv' /\ Only(g) /\ pc'[g] = "decide" /\ last'[g] = root.ticks
        /\ fresh'[g] = a.fresh
        /\ owed'[g] = IF a.fresh THEN {} ELSE owed[g] \ a.files
    BY <1>1, <1>2, <1>5, Zenon DEF TypeInv, Only, Steps
  <1>7. owed'[g] \ lost' = {}
    <2>1. Found(g) /\ owed[g] \subseteq Paths
      BY <1>1, <1>5, TypeFacts, Zenon DEF LoopOK, Started
    <2>. QED  BY <1>3, <1>4, <1>5, <1>6, <2>1, Z3 DEF Found
  <1>8. root.ticks <= root.ticks /\ ~(root.ticks < root.oldest_available_tick)
    BY <1>1, Z3
  <1>9. LoopOK(g)'
    BY <1>6, <1>7, Zenon DEF LoopOK, Found
  <1>10. ResetOK(g)'
    BY <1>1, <1>3, <1>5, <1>6, <1>8, Zenon DEF ResetOK, Started
  <1>11. next'[g] <= Len(log) + 1 /\ fired'[g] <= root.ticks
    BY <1>5, LoopFacts, Zenon
  <1>. QED  BY <1>6, <1>8, <1>9, <1>10, <1>11, LoopStep, Zenon

\* A fresh answer of an event index is never dropped.
LEMMA DecideStep == ASSUME IInv, NEW g \in Loops, Decide(g) PROVE IInv'
  <1>. DEFINE runs == names[g] # {} \/ (root.jj_events /\ fresh[g])
  <1>1. TypeInv /\ LoopOK(g) /\ ResetOK(g) /\ last[g] \in Nat
        /\ last[g] <= root.ticks /\ fired[g] <= root.ticks /\ next[g] <= Len(log) + 1
    BY LoopFacts, Zenon
  <1>2. /\ pc[g] = "decide"
        /\ pc' = [pc EXCEPT ![g] = IF runs THEN "fire" ELSE "loop"]
        /\ fired' = IF runs THEN [fired EXCEPT ![g] = last[g]] ELSE fired
        /\ fresh' = [fresh EXCEPT ![g] = FALSE]
        /\ names' = [names EXCEPT ![g] = {}]
        /\ UNCHANGED <<root, unsent, log, installed, next, last, owed, lost>>
    BY Zenon DEF Decide, Set
  <1>3. ~runs => ~(root.jj_events /\ fresh[g])
    BY Zenon
  <1>. HIDE DEF runs
  <1>4. /\ Only(g) /\ pc'[g] = (IF runs THEN "fire" ELSE "loop")
        /\ fired'[g] = (IF runs THEN last[g] ELSE fired[g])
    BY <1>1, <1>2, Zenon DEF TypeInv, Only
  <1>5. TypeInv'
    <2>1. fired' \in [Loops -> Nat] /\ pc' \in [Loops -> Steps]
      BY <1>1, <1>2, Zenon DEF TypeInv, Steps
    <2>. QED  BY <1>1, <1>2, <2>1, Zenon DEF TypeInv
  <1>6. Pending(g)' <=> Pending(g)
    <2>1. Oldest' = Oldest
      BY <1>2, Zenon DEF Oldest
    <2>. QED  BY <1>2, <2>1, Zenon DEF Pending
  <1>7. LoopOK(g)'
    <2>1. Found(g) => Found(g)'
      BY <1>2, Zenon DEF Found
    <2>2. Started(g) /\ Listens(g)
      BY <1>2, Zenon DEF Started, Listens
    <2>3. pc'[g] \notin {"off", "spawn", "fence"}
      BY <1>4, Z3
    <2>. QED  BY <1>1, <1>2, <1>6, <2>1, <2>2, <2>3, Zenon DEF LoopOK
  <1>8. ResetOK(g)'
    BY <1>1, <1>2, <1>3, <1>4, <1>6, Zenon DEF ResetOK, Started, Listens
  <1>9. next'[g] <= Len(log) + 1 /\ last'[g] <= root.ticks /\ fired'[g] <= root.ticks
    BY <1>1, <1>2, <1>4, Zenon
  <1>. QED  BY <1>4, <1>5, <1>7, <1>8, <1>9, LoopStep, Zenon

-----------------------------------------------------------------------------
\* Nothing the invariant is about changes.
LEMMA StillStep ==
    ASSUME IInv, installed' \in BOOLEAN,
           UNCHANGED <<root, unsent, log, pc, next, last, fresh, names, owed, lost, fired>>
    PROVE  IInv'
  <1>1. Oldest' = Oldest
    BY Zenon DEF Oldest
  <1>2. \A g \in Loops : Pending(g)' <=> Pending(g)
    BY <1>1, Zenon DEF Pending
  <1>3. TypeInv' /\ ClockInv' /\ OrderInv'
    BY Zenon DEF IInv, TypeInv, ClockInv, OrderInv
  <1>4. LoopInv' /\ ResetInv'
    BY <1>2, Zenon DEF IInv, LoopInv, LoopOK, ResetInv, ResetOK, Started, Listens, Found
  <1>. QED  BY <1>3, <1>4, Zenon DEF IInv

\* It holds of a fresh root.
LEMMA InitOK == Init => IInv
  <1>. SUFFICES ASSUME Init PROVE IInv
    OBVIOUS
  <1>1. PICK jj \in Modes, scan \in Scans : root = seed(RootNew(jj), scan)
    BY Zenon DEF Init
  <1>2. RootNew(jj) \in RootType /\ RootNew(jj).ticks = 1
        /\ RootNew(jj).oldest_available_tick = 0
    BY EmptyTreeOK, TriggerAssumption, Z3 DEF RootNew, RootState, RootType
  <1>3. /\ root \in RootType /\ CountersExact(root.tree)
        /\ root.ticks = 2 /\ root.oldest_available_tick = 0
    BY <1>1, <1>2, SeedOK, Z3
  <1>4. <<>> \in Seq(Nat) /\ Len(<<>>) = 0 /\ 1 \in Nat \ {0} /\ 1..0 = {}
    BY Z3
  <1>5. TypeInv
    BY <1>3, <1>4, Zenon DEF Init, TypeInv, Steps
  <1>6. 0 <= 2 /\ 2 > 0 /\ 1 <= 0 + 1
    BY Z3
  <1>7. ClockInv /\ OrderInv
    BY <1>3, <1>4, <1>6, Zenon DEF Init, ClockInv, OrderInv
  <1>8. LoopInv /\ ResetInv
    BY Zenon DEF Init, LoopInv, LoopOK, ResetInv, ResetOK, Started, Listens
  <1>. QED  BY <1>5, <1>7, <1>8, Zenon DEF IInv

\* Every step keeps it.
LEMMA NextOK == IInv /\ [Next]_vars => IInv'
  <1>. SUFFICES ASSUME IInv, [Next]_vars PROVE IInv'
    OBVIOUS
  <1>1. installed \in BOOLEAN
    BY Zenon DEF IInv, TypeInv
  <1>2. CASE WatchDel \/ trigger_del \/ UNCHANGED vars
    BY <1>1, <1>2, StillStep, Zenon DEF WatchDel, trigger_del, vars, task, history
  <1>3. ASSUME NEW c \in PathChange, NEW b \in BOOLEAN, Apply(c, b) PROVE IInv'
    BY <1>3, ApplyStep, Zenon
  <1>4. ASSUME NEW s \in Senders, Invalidate(s) \/ Send(s) PROVE IInv'
    BY <1>4, InvalidateStep, SendStep, Zenon
  <1>5. CASE ClockBump \/ Prune
    BY <1>5, ClockBumpStep, PruneStep, Zenon
  <1>6. ASSUME NEW scan \in Scans, Promote(scan) \/ Recrawl(scan) PROVE IInv'
    BY <1>6, PromoteStep, RecrawlStep, Zenon
  <1>7. ASSUME NEW g \in Loops, NEW scan \in Scans, Install(g, scan) PROVE IInv'
    BY <1>7, InstallStep, Zenon
  <1>8. ASSUME NEW g \in Loops,
               \/ Spawn(g) \/ Fence(g) \/ Lagged(g) \/ Recv(g) \/ Closed(g)
               \/ Query(g) \/ Decide(g) \/ fire(g)
        PROVE  IInv'
    BY <1>8, SpawnStep, FenceStep, LaggedStep, RecvStep, ClosedStep, QueryStep, DecideStep,
       FireStep, Zenon
  <1>. QED  BY <1>2, <1>3, <1>4, <1>5, <1>6, <1>7, <1>8, Zenon DEF Next

\* The invariant, for every number of paths and loops and every capacity.
LEMMA Invariant == Spec => []IInv
  BY InitOK, NextOK, PTL DEF Spec

\* No trigger loop misses a change (run_trigger): what was recorded since it
\* started and was not reported to its command is still newer than its tick,
\* or that tick is answered afresh, and an event that makes it look is coming.
THEOREM NoChangeMissed == Spec => []NothingMissed
  <1>1. IInv => NothingMissed
    <2>. SUFFICES ASSUME IInv, NEW g \in Loops, Waiting(g), NEW p \in owed[g] \ lost
                  PROVE  /\ Pending(g)
                         /\ \/ contains(root.tree, p) /\ root.tree.entries[p].oclock > last[g]
                            \/ last[g] < root.oldest_available_tick
      BY Zenon DEF NothingMissed
    <2>1. LoopOK(g) /\ Started(g) /\ Listens(g)
      BY Zenon DEF IInv, LoopInv, Waiting, Started, Listens
    <2>. QED  BY <2>1, Zenon DEF LoopOK, Found
  <1>. QED  BY <1>1, Invariant, PTL

\* jj's trigger hears of every reset of its event index (run_trigger fires on
\* a fresh answer although there is no file to name).
THEOREM ResetsFire == Spec => []FreshFires
  <1>1. IInv => FreshFires
    <2>. SUFFICES ASSUME IInv, NEW g \in Loops, Waiting(g), root.jj_events,
                         fired[g] < root.oldest_available_tick
                  PROVE  \/ Pending(g)
                         \/ /\ pc[g] = "decide" /\ fresh[g]
                            /\ last[g] >= root.oldest_available_tick
      BY Zenon DEF FreshFires
    <2>1. ResetOK(g) /\ Started(g) /\ Listens(g)
      BY Zenon DEF IInv, ResetInv, Waiting, Started, Listens
    <2>2. ~(last[g] < root.oldest_available_tick) => last[g] >= root.oldest_available_tick
      BY LoopFacts, Z3
    <2>. QED  BY <2>1, <2>2, Zenon DEF ResetOK
  <1>. QED  BY <1>1, Invariant, PTL

-----------------------------------------------------------------------------
(***************************************************************************)
(* The trigger store that outlives the daemon: persist_triggers with one   *)
(* command at a time, for every set of trigger names and inodes and with   *)
(* failures and crashes at every step.  The file is always a whole table,  *)
(* a saved table survives a restart, and the store implements AtomicStore. *)
(***************************************************************************)

\* Commands come one at a time.
OneWriter == \A t, u \in Procs : t = u

\* What a thread has written is read back as it was: each stdin mode survives
\* its persisted form, and so does a table.
LEMMA ModeRoundTrip == \A m \in StdinModes : into_trigger(from_trigger(m)) = m
  BY Zenon DEF StdinModes, into_trigger, from_trigger

\* The table a file holds.
TableOf(saved) ==
    [n \in Names |-> IF n \in DOMAIN saved THEN into_trigger(saved[n]) ELSE NoTrigger]

\* load_persisted_triggers gives back the table that persist_triggers wrote.
LEMMA TableRoundTrip ==
    ASSUME NEW table \in Tables
    PROVE  TableOf(Serialised(table)) = table
  <1>1. ASSUME NEW n \in Names
        PROVE  TableOf(Serialised(table))[n] = table[n]
    <2>1. table[n] \in StdinModes \cup {NoTrigger}
      BY DEF Tables
    <2>2. CASE table[n] = NoTrigger
      BY <2>2 DEF TableOf, Serialised
    <2>3. CASE table[n] # NoTrigger
      <3>1. n \in DOMAIN Serialised(table) /\ Serialised(table)[n] = from_trigger(table[n])
        BY <2>3 DEF Serialised
      <3>. QED  BY <2>1, <2>3, <3>1, ModeRoundTrip DEF TableOf
    <2>. QED  BY <2>2, <2>3
  <1>. QED  BY <1>1 DEF TableOf, Tables

\* The state between any two steps of one writer: it writes the temporary file
\* only, what it renames is its whole snapshot, and the snapshot is the table.
StoreInv ==
    /\ up \in BOOLEAN /\ unsaved \in BOOLEAN
    /\ triggers \in Tables
    /\ step \in [Procs -> {"idle", "persist", "open", "write", "rename"}]
    /\ DOMAIN items = Procs /\ DOMAIN fd = Procs /\ DOMAIN content = Nodes
    /\ tmp \in Nodes \cup {NoNode} /\ file \in Nodes \cup {NoNode}
    /\ tmp = file => tmp = NoNode
    /\ \A n \in Nodes : content[n].kind \in {"empty", "torn", "json"}
    /\ \A t \in Procs :
          /\ fd[t] # NoNode <=> step[t] = "write"
          /\ step[t] = "write" => fd[t] = tmp /\ content[tmp].kind = "empty"
          /\ step[t] \in {"open", "write", "rename"} => items[t] = Serialised(triggers)
          /\ step[t] = "rename" => tmp # NoNode /\ content[tmp] = Bytes("json", items[t])
          /\ step[t] # "idle" => up
    /\ file # NoNode => content[file].kind = "json"
    /\ Durable

\* What a restart loads depends on the file alone.
LEMMA LoadedStable ==
    ASSUME file' = file, file # NoNode => content'[file] = content[file]
    PROVE  Loaded' = Loaded
  BY DEF Loaded

\* A store with no file yet satisfies the invariant.
LEMMA StoreInitInv == StoreInit => StoreInv
  <1>. SUFFICES ASSUME StoreInit PROVE StoreInv
    OBVIOUS
  <1>1. Loaded = Empty /\ Empty \in Tables
    BY DEF StoreInit, Loaded, Empty, Tables
  <1>2. \A n \in Nodes : content[n].kind = "empty"
    BY DEF StoreInit, Bytes
  <1>. QED  BY <1>1, <1>2, TriggerStoreAssumption, Zenon DEF StoreInit, StoreInv, Durable

\* Editing the table and starting to persist it.
LEMMA EditInv ==
    ASSUME OneWriter, StoreInv, NEW t \in Procs, NEW n \in Names, NEW m \in StdinModes \cup {NoTrigger},
           up, step[t] = "idle", triggers' = Put(triggers, n, m), StartPersist(t),
           UNCHANGED <<up, items, fd, storage>>
    PROVE  StoreInv'
  <1>1. \A u \in Procs : u = t
    BY DEF OneWriter
  <1>2. triggers' \in Tables
    BY DEF StoreInv, Tables, Put
  <1>3. step' \in [Procs -> {"idle", "persist", "open", "write", "rename"}]
        /\ step'[t] = "persist" /\ unsaved' = FALSE
    BY <1>1, Zenon DEF StoreInv, StartPersist, Put
  <1>. QED  BY <1>1, <1>2, <1>3, Zenon DEF StoreInv, Durable, storage

\* Every step keeps the invariant.
LEMMA StoreNextInv ==
    ASSUME OneWriter, StoreInv, [StoreNext]_storeVars
    PROVE  StoreInv'
  <1>1. CASE UNCHANGED storeVars
    <2>1. Loaded' = Loaded
      BY <1>1, LoadedStable DEF storeVars
    <2>. QED  BY <1>1, <2>1 DEF StoreInv, storeVars, Durable
  <1>2. ASSUME NEW t \in Procs, NEW n \in Names, NEW m \in StdinModes, install_trigger(t, n, m)
        PROVE  StoreInv'
    BY <1>2, EditInv DEF install_trigger
  <1>3. ASSUME NEW t \in Procs, NEW n \in Names, remove_trigger(t, n)
        PROVE  StoreInv'
    BY <1>3, EditInv DEF remove_trigger
  <1>4. ASSUME NEW t \in Procs, Snapshot(t) PROVE StoreInv'
    <2>1. \A u \in Procs : u = t
      BY DEF OneWriter
    <2>2. step'[t] = "open" /\ items'[t] = Serialised(triggers)
          /\ step' \in [Procs -> {"idle", "persist", "open", "write", "rename"}]
          /\ DOMAIN items' = Procs
      BY <1>4 DEF Snapshot, StoreInv, Put
    <2>3. Serialised(triggers)' = Serialised(triggers)
      BY <1>4 DEF Snapshot, Serialised
    <2>. QED  BY <1>4, <2>1, <2>2, <2>3, Zenon DEF StoreInv, Durable, Snapshot, storage
  <1>5. ASSUME NEW t \in Procs, Fails(t) PROVE StoreInv'
    <2>1. \A u \in Procs : u = t
      BY DEF OneWriter
    <2>2. step'[t] = "idle" /\ DOMAIN items' = Procs
          /\ step' \in [Procs -> {"idle", "persist", "open", "write", "rename"}]
      BY <1>5 DEF Fails, StoreInv, Put
    <2>. QED  BY <1>5, <2>1, <2>2 DEF StoreInv, Durable, Fails, storage
  <1>6. ASSUME NEW t \in Procs, NEW n \in Nodes, Open(t, n) PROVE StoreInv'
    <2>1. \A u \in Procs : u = t
      BY DEF OneWriter
    <2>2. /\ step'[t] = "write" /\ fd'[t] = n /\ tmp' = n /\ file' = file
          /\ step' \in [Procs -> {"idle", "persist", "open", "write", "rename"}]
          /\ DOMAIN fd' = Procs /\ DOMAIN content' = Nodes
          /\ UNCHANGED <<up, triggers, items, unsaved>>
      BY <1>6, Zenon DEF Open, StoreInv, Put
    <2>3. n # file
      BY <1>6, TriggerStoreAssumption DEF Open, Free, StoreInv
    <2>4. \A k \in Nodes : content'[k] = IF k = n THEN Bytes("empty", NoItems) ELSE content[k]
      BY <1>6 DEF Open, StoreInv, Put
    <2>5. \A k \in Nodes : content'[k].kind \in {"empty", "torn", "json"}
      BY <2>4 DEF StoreInv, Bytes
    <2>6. items'[t] = Serialised(triggers)'
      <3>1. items'[t] = Serialised(triggers)
        BY <1>6, <2>2, Zenon DEF Open, StoreInv
      <3>2. Serialised(triggers)' = Serialised(triggers)
        BY <2>2, Zenon DEF Serialised
      <3>. QED  BY <3>1, <3>2
    <2>7. n # NoNode
      BY TriggerStoreAssumption
    <2>8. file' # NoNode => content'[file'].kind = "json"
      BY <2>2, <2>3, <2>4 DEF StoreInv
    <2>9. content'[tmp'].kind = "empty"
      BY <2>2, <2>4 DEF Bytes
    <2>10. up'
      BY <1>6, <2>2 DEF Open, StoreInv
    <2>. QED  BY <2>1, <2>2, <2>3, <2>5, <2>6, <2>7, <2>8, <2>9, <2>10, Zenon DEF StoreInv, Durable
  <1>7. ASSUME NEW t \in Procs, NEW whole \in BOOLEAN, Write(t, whole) PROVE StoreInv'
    <2>1. \A u \in Procs : u = t
      BY DEF OneWriter
    <2>2. /\ step'[t] = "rename" /\ fd'[t] = NoNode
          /\ step' \in [Procs -> {"idle", "persist", "open", "write", "rename"}]
          /\ DOMAIN fd' = Procs /\ DOMAIN content' = Nodes
          /\ UNCHANGED <<up, triggers, items, tmp, file, unsaved>>
      BY <1>7 DEF Write, Close, StoreInv, Put
    <2>3. step[t] = "write" /\ fd[t] = tmp /\ tmp # NoNode /\ tmp \in Nodes /\ tmp # file
      BY <1>7, Zenon DEF Write, StoreInv
    <2>4. whole /\ \A k \in Nodes : content'[k] = IF k = tmp THEN Bytes("json", items[t])
                                                             ELSE content[k]
      BY <1>7, <2>3, Zenon DEF Write, StoreInv, Put
    <2>5. \A k \in Nodes : content'[k].kind \in {"empty", "torn", "json"}
      BY <2>4, Z3 DEF StoreInv, Bytes
    <2>6. items'[t] = Serialised(triggers)'
      BY <2>2, <2>3, Zenon DEF StoreInv, Serialised
    <2>7. file' # NoNode => content'[file'].kind = "json"
      BY <2>2, <2>3, <2>4, Zenon DEF StoreInv
    <2>8. content'[tmp'] = Bytes("json", items'[t])
      BY <2>2, <2>3, <2>4, Zenon
    <2>9. up' /\ tmp' # file' /\ tmp' # NoNode
      BY <2>2, <2>3, Zenon DEF StoreInv
    <2>. QED  BY <2>1, <2>2, <2>5, <2>6, <2>7, <2>8, <2>9, Zenon DEF StoreInv, Durable
  <1>8. ASSUME NEW t \in Procs, WriteFails(t) PROVE StoreInv'
    <2>1. \A u \in Procs : u = t
      BY DEF OneWriter
    <2>2. /\ step'[t] = "idle" /\ fd'[t] = NoNode /\ unsaved' = TRUE
          /\ step' \in [Procs -> {"idle", "persist", "open", "write", "rename"}]
          /\ DOMAIN fd' = Procs /\ DOMAIN content' = Nodes /\ DOMAIN items' = Procs
          /\ UNCHANGED <<up, triggers, tmp, file>>
      BY <1>8, Zenon DEF WriteFails, Close, StoreInv, Put
    <2>3. fd[t] = tmp /\ tmp \in Nodes /\ tmp # file
      BY <1>8, Zenon DEF WriteFails, StoreInv
    <2>4. \A k \in Nodes : content'[k] = IF k = tmp THEN Bytes("torn", NoItems) ELSE content[k]
      BY <1>8, <2>3, Zenon DEF WriteFails, StoreInv, Put
    <2>5. \A k \in Nodes : content'[k].kind \in {"empty", "torn", "json"}
      BY <2>4, Z3 DEF StoreInv, Bytes
    <2>6. file' # NoNode => content'[file'].kind = "json"
      BY <2>2, <2>3, <2>4, Zenon DEF StoreInv
    <2>. QED  BY <2>1, <2>2, <2>3, <2>5, <2>6 DEF StoreInv, Durable
  <1>9. ASSUME NEW t \in Procs, Rename(t) PROVE StoreInv'
    <2>1. \A u \in Procs : u = t
      BY DEF OneWriter
    <2>2. /\ step'[t] = "idle" /\ fd' = fd
          /\ step' \in [Procs -> {"idle", "persist", "open", "write", "rename"}]
          /\ DOMAIN items' = Procs /\ UNCHANGED <<up, triggers, unsaved>>
      BY <1>9, Zenon DEF Rename, StoreInv, Put
    <2>3. step[t] = "rename" /\ tmp # NoNode /\ tmp \in Nodes /\ tmp # file
          /\ content[tmp] = Bytes("json", Serialised(triggers))
      BY <1>9, Zenon DEF Rename, StoreInv
    <2>4. file' = tmp /\ tmp' = NoNode
          /\ content' = [k \in Nodes |-> IF k = file THEN Bytes("empty", NoItems)
                                                     ELSE content[k]]
      BY <1>9, <2>3 DEF Rename
    <2>5. \A k \in Nodes : content'[k].kind \in {"empty", "torn", "json"}
      BY <2>4, Zenon DEF StoreInv, Bytes
    <2>6. content'[file'] = Bytes("json", Serialised(triggers))
      BY <2>3, <2>4
    <2>7. content'[file'].kind = "json" /\ content'[file'].items = Serialised(triggers)
      BY <2>6 DEF Bytes
    <2>8. Loaded' = TableOf(Serialised(triggers))
      BY <2>3, <2>4, <2>7 DEF Loaded, TableOf
    <2>9. Durable'
      BY <2>2, <2>8, TableRoundTrip, Zenon DEF StoreInv, Durable
    <2>10. fd'[t] = NoNode
      BY <2>2, <2>3, Zenon DEF StoreInv
    <2>. QED  BY <2>1, <2>2, <2>3, <2>4, <2>5, <2>7, <2>9, <2>10, Zenon DEF StoreInv
  <1>10. CASE Crash
    <2>1. step' = [t \in Procs |-> "idle"] /\ fd' = [t \in Procs |-> NoNode]
          /\ items' = [t \in Procs |-> NoItems] /\ up' = FALSE /\ unsaved' = FALSE
          /\ UNCHANGED <<tmp, file, content>>
      BY <1>10 DEF Crash, storage
    <2>2. triggers' \in Tables
      BY <1>10 DEF Crash, Tables, Empty
    <2>. QED  BY <2>1, <2>2, Zenon DEF StoreInv, Durable
  <1>11. CASE Restart
    <2>1. up' = TRUE /\ triggers' = Loaded /\ UNCHANGED <<step, items, fd, tmp, file, content, unsaved>>
      BY <1>11 DEF Restart, storage
    <2>2. Loaded' = Loaded
      BY <2>1, LoadedStable
    <2>3. Loaded \in Tables
      BY DEF Loaded, Tables, Empty, into_trigger, StdinModes
    <2>4. \A t \in Procs : step[t] = "idle"
      BY <1>11, Zenon DEF Restart, StoreInv
    <2>. QED  BY <2>1, <2>2, <2>3, <2>4, Zenon DEF StoreInv, Durable
  <1>. QED  BY <1>1, <1>2, <1>3, <1>4, <1>5, <1>6, <1>7, <1>8, <1>9, <1>10, <1>11 DEF StoreNext

\* With one writer the invariant holds in every reachable state.
LEMMA StoreSpecInv ==
    ASSUME OneWriter PROVE StoreSpec => []StoreInv
  BY StoreInitInv, StoreNextInv, PTL DEF StoreSpec

\* persist_triggers never leaves a triggers.json that does not parse, whichever
\* of its steps fails and wherever the daemon is killed, while commands come
\* one at a time.
THEOREM FileAlwaysWhole ==
    ASSUME OneWriter PROVE StoreSpec => []FileIntact
  <1>1. StoreInv => FileIntact
    BY Zenon DEF StoreInv, FileIntact
  <1>. QED  BY <1>1, StoreSpecInv, PTL

\* A trigger or trigger-del whose writes succeeded is what
\* load_persisted_triggers brings back.
THEOREM SavedIsDurable ==
    ASSUME OneWriter PROVE StoreSpec => []Durable
  <1>1. StoreInv => Durable
    BY DEF StoreInv
  <1>. QED  BY <1>1, StoreSpecInv, PTL

-----------------------------------------------------------------------------
(* The store implements AtomicStore. *)
Memory == IF up THEN triggers ELSE Loaded

\* The file changes only by the rename, and then to the table as it is.
LEMMA RenameCommits ==
    ASSUME StoreInv, NEW t \in Procs, Rename(t)
    PROVE  Loaded' = triggers /\ up /\ UNCHANGED <<up, triggers>>
  <1>1. step[t] = "rename" /\ tmp # NoNode /\ tmp \in Nodes /\ tmp # file /\ up
        /\ content[tmp] = Bytes("json", Serialised(triggers))
    BY Zenon DEF Rename, StoreInv
  <1>2. file' = tmp /\ content'[tmp] = content[tmp] /\ UNCHANGED <<up, triggers>>
    BY <1>1 DEF Rename
  <1>3. content'[file'].kind = "json" /\ content'[file'].items = Serialised(triggers)
    BY <1>1, <1>2 DEF Bytes
  <1>4. Loaded' = TableOf(Serialised(triggers))
    BY <1>1, <1>2, <1>3, Zenon DEF Loaded, TableOf
  <1>. QED  BY <1>1, <1>2, <1>4, TableRoundTrip, Zenon DEF StoreInv

\* Every step of the store is an edit, a commit, a crash, or none of them.
LEMMA StepMaps ==
    ASSUME OneWriter, StoreInv, StoreInv', [StoreNext]_storeVars
    PROVE  \/ Memory' \in Tables /\ Loaded' = Loaded
           \/ Loaded' = Memory /\ Memory' = Memory
           \/ Memory' = Loaded /\ Loaded' = Loaded
           \/ UNCHANGED <<Memory, Loaded>>
  <1>1. CASE \/ UNCHANGED storeVars
             \/ \E t \in Procs : \/ \E n \in Names, m \in StdinModes : install_trigger(t, n, m)
                                 \/ \E n \in Names : remove_trigger(t, n)
                                 \/ Snapshot(t) \/ Fails(t)
    <2>1. UNCHANGED <<up, file, content>>
      BY <1>1, Zenon DEF storeVars, install_trigger, remove_trigger, Snapshot, Fails, storage
    <2>2. Loaded' = Loaded
      BY <2>1, LoadedStable
    <2>3. CASE up
      BY <2>1, <2>2, <2>3, Zenon DEF Memory, StoreInv
    <2>4. CASE ~up
      BY <2>1, <2>2, <2>4 DEF Memory
    <2>. QED  BY <2>3, <2>4
  <1>2. ASSUME NEW t \in Procs, NEW n \in Nodes, Open(t, n)
        PROVE  UNCHANGED <<Memory, Loaded>>
    <2>1. n # file /\ UNCHANGED <<up, triggers, file>>
      BY <1>2, TriggerStoreAssumption, Zenon DEF Open, Free, StoreInv
    <2>2. file # NoNode => content'[file] = content[file]
      BY <1>2, <2>1, Zenon DEF Open, StoreInv, Put
    <2>. QED  BY <2>1, <2>2, LoadedStable DEF Memory
  <1>3. ASSUME NEW t \in Procs, (\E whole \in BOOLEAN : Write(t, whole)) \/ WriteFails(t)
        PROVE  UNCHANGED <<Memory, Loaded>>
    <2>1. fd[t] # file /\ UNCHANGED <<up, triggers, file>>
      BY <1>3, Zenon DEF Write, WriteFails, StoreInv
    <2>2. file # NoNode => content'[file] = content[file]
      BY <1>3, <2>1, Zenon DEF Write, WriteFails, StoreInv, Put
    <2>. QED  BY <2>1, <2>2, LoadedStable DEF Memory
  <1>4. ASSUME NEW t \in Procs, Rename(t)
        PROVE  Loaded' = Memory /\ Memory' = Memory
    BY <1>4, RenameCommits DEF Memory
  <1>5. CASE Crash
    <2>1. UNCHANGED <<file, content>> /\ up' = FALSE
      BY <1>5 DEF Crash, storage
    <2>. QED  BY <2>1, LoadedStable DEF Memory
  <1>6. CASE Restart
    <2>1. UNCHANGED <<file, content>> /\ up' = TRUE /\ ~up /\ triggers' = Loaded
      BY <1>6 DEF Restart, storage
    <2>. QED  BY <2>1, LoadedStable DEF Memory
  <1>. QED  BY <1>1, <1>2, <1>3, <1>4, <1>5, <1>6, Zenon DEF StoreNext

\* With one command at a time the trigger store of root.rs is an AtomicStore:
\* seen through a restart, it only ever moves from one whole table to another.
THEOREM StoreIsAtomic ==
    ASSUME OneWriter PROVE StoreSpec => Atomic
  <1>1. StoreInit => Store!Init
    BY DEF StoreInit, Store!Init, Loaded
  <1>2. StoreInv /\ StoreInv' /\ [StoreNext]_storeVars
        => [Store!Next]_<<IF up THEN triggers ELSE Loaded, Loaded>>
    BY StepMaps DEF Memory, Store!Next, Store!Edit, Store!Commit, Store!Crash
  <1>. QED  BY <1>1, <1>2, StoreSpecInv, PTL DEF StoreSpec, Atomic, Store!Spec

=============================================================================
