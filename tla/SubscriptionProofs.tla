------------------------- MODULE SubscriptionProofs -------------------------
(***************************************************************************)
(* Subscriptions for any number of paths, sessions and events, and any     *)
(* capacity of the tick broadcast: no change is lost between the index and *)
(* a client that reads its PDUs, except where ClientMirror says so.        *)
(***************************************************************************)
EXTENDS Subscription, RootProofs

Pdu == [Paths -> Nat]
oclock(p) == root.tree.entries[p].oclock

\* The index: whatever no sweep and no recrawl took away is there, as recorded.
IndexInv ==
    /\ root \in RootType /\ CountersExact(root.tree) /\ ~root.jj_events
    /\ stamp \in Pdu /\ \A p \in Paths : stamp[p] <= root.ticks
    /\ pruned \subseteq Paths /\ crawled \subseteq Paths
    /\ \A p \in Known(root.tree) : oclock(p) \in 1..root.ticks
    /\ \A p \in Paths \ Excused :
          stamp[p] = IF contains(root.tree, p) THEN oclock(p) ELSE 0

\* The broadcast: its events are in the order of their ticks.
LogInv ==
    /\ log \in Seq(Nat) /\ unsent \in 0..root.ticks
    /\ \A i \in 1..Len(log) : log[i] \in 1..root.ticks
    /\ \A i, j \in 1..Len(log) : i < j => log[i] < log[j]
    /\ unsent # 0 => \A i \in 1..Len(log) : log[i] < unsent

Places == {"off", "install", "fence", "loop", "run", "exit", "done"}

Types ==
    /\ alive \in BOOLEAN /\ pc \in [Subs -> Places]
    /\ next \in [Subs -> Nat] /\ ev \in [Subs -> Nat] /\ last \in [Subs -> Nat]
    /\ asked \in [Subs -> Nat] /\ start \in [Subs -> Nat]
    /\ response \in [Subs -> {"none", "due", "sent"}]
    /\ initial \in [Subs -> Pdu] /\ told \in [Subs -> Pdu] /\ view \in [Subs -> Pdu]
    /\ queue \in [Subs -> Seq(Pdu)]
    /\ conn \in [Subs -> BOOLEAN] /\ closed \in [Subs -> BOOLEAN]
    /\ overtaken \in [Subs -> BOOLEAN]

\* Nothing is ahead of the clock or of the broadcast.
Bounds(s) ==
    /\ next[s] <= Len(log) + 1
    /\ ev[s] <= root.ticks /\ last[s] <= root.ticks
    /\ asked[s] <= root.ticks /\ start[s] <= root.ticks
    /\ \A p \in Paths : /\ initial[s][p] <= root.ticks /\ told[s][p] <= root.ticks
                        /\ view[s][p] <= root.ticks
                        /\ \A i \in 1..Len(queue[s]) : queue[s][i][p] <= root.ticks

InLoop(s) == pc[s] \in {"loop", "run"}

\* A task that has received every event has served, or is serving, the last
\* of them; every change it has not served has an event, or is about to.
Wakes(s) ==
    InLoop(s) =>
        /\ pc[s] = "run" => last[s] < ev[s]
        /\ next[s] = Len(log) + 1 =>
              \A i \in 1..Len(log) : log[i] <= IF pc[s] = "run" THEN ev[s] ELSE last[s]
        /\ \A p \in Paths \ crawled :
              Newer(p, last[s]) =>
                  oclock(p) = unsent \/ \E i \in 1..Len(log) : log[i] = oclock(p)

\* The answer and the pushes so far, and the next query, cover the index.
Covers(s) ==
    /\ pc[s] # "off" =>
          \A p \in Paths \ Excused : stamp[p] <= asked[s] => told[s][p] = stamp[p]
    /\ InLoop(s) =>
          \A p \in Paths \ Excused :
              stamp[p] > start[s] => told[s][p] = stamp[p] \/ Newer(p, last[s])

\* A client that knows w and reads all of q ends with v for p.
Reads(w, q, p, v) ==
    \/ w[p] = v /\ \A i \in 1..Len(q) : q[i][p] = 0
    \/ v # 0 /\ \E i \in 1..Len(q) : /\ q[i][p] = v
                                     /\ \A j \in i + 1 .. Len(q) : q[j][p] = 0

\* Before the response the client has read nothing; after it, its queue brings
\* it to what it has been told.
Delivers(s) ==
    /\ response[s] = "none" <=> pc[s] \in {"off", "install", "fence"}
    /\ response[s] = "none" => ~overtaken[s]
    /\ response[s] # "sent" /\ ~overtaken[s] =>
          /\ queue[s] = <<>> /\ view[s] = NoPdu
          /\ pc[s] # "off" => told[s] = initial[s]
    /\ response[s] = "sent" /\ ~overtaken[s] /\ conn[s] /\ ~closed[s] =>
          \A p \in Paths : Reads(view[s], queue[s], p, told[s][p])

\* A dropped root has no registrations, and nobody who would add one.
Registered ==
    /\ subscriptions \subseteq {Name[s] : s \in Subs}
    /\ ~alive => subscriptions = {} /\ \A s \in Subs : ~HoldsRoot(s)
    /\ NoGhost

TaskInv(s) == Bounds(s) /\ Wakes(s) /\ Covers(s) /\ Delivers(s)

Inv == IndexInv /\ LogInv /\ Types /\ Registered /\ \A s \in Subs : TaskInv(s)

-----------------------------------------------------------------------------
(* The index and the broadcast. *)

\* What a writer of the index may do to it, and to the broadcast: a path keeps
\* its entry, or is recorded at a tick that is about to be announced, or is
\* excused.
Moves ==
    /\ root.ticks <= root'.ticks
    /\ \A p \in Paths \ Excused' :
          \/ /\ p \notin Excused /\ stamp'[p] = stamp[p]
             /\ root'.tree.entries[p] = root.tree.entries[p]
          \/ /\ stamp'[p] = root.ticks + 1 /\ contains(root'.tree, p)
             /\ root'.tree.entries[p].oclock = root.ticks + 1
    /\ \A p \in Paths \ crawled' :
          contains(root'.tree, p) =>
              \/ p \notin crawled /\ root'.tree.entries[p] = root.tree.entries[p]
              \/ root'.tree.entries[p].oclock = unsent'
    /\ \/ log' = log /\ (unsent' = unsent \/ unsent = 0)
       \/ unsent # 0 /\ log' = Append(log, unsent) /\ unsent' = 0

\* The clock of a root.
LEMMA TicksNat ==
    ASSUME NEW r \in RootType
    PROVE  r.ticks \in Nat
  BY Zenon DEF RootType

-----------------------------------------------------------------------------
(* What a client has read. *)

\* One more PDU on the queue is one more to read.
LEMMA ReadsAppend ==
    ASSUME NEW w, NEW q \in Seq(Pdu), NEW m \in Pdu, NEW p \in Paths, NEW v, Reads(w, q, p, v)
    PROVE  Reads(w, Append(q, m), p, IF m[p] = 0 THEN v ELSE m[p])
  <1>. DEFINE r == Append(q, m)
  <1>1. /\ Len(q) \in Nat /\ Len(r) = Len(q) + 1 /\ r[Len(r)] = m
        /\ \A i \in 1..Len(q) : i \in 1..Len(r) /\ r[i] = q[i]
    OBVIOUS
  <1>. HIDE DEF r
  <1>2. CASE m[p] # 0
    <2>1. Len(r) \in 1..Len(r) /\ Len(r) + 1 .. Len(r) = {}
      BY <1>1
    <2>2. Reads(w, r, p, m[p])
      BY <1>1, <1>2, <2>1, Zenon DEF Reads
    <2>. QED  BY <1>2, <2>2, Zenon DEF r
  <1>3. CASE m[p] = 0
    <2>1. \A j \in 1..Len(r) : j \in 1..Len(q) \/ r[j][p] = 0
      BY <1>1, <1>3
    <2>2. CASE w[p] = v /\ \A i \in 1..Len(q) : q[i][p] = 0
      <3>1. \A i \in 1..Len(r) : r[i][p] = 0
        BY <1>1, <2>1, <2>2, Zenon
      <3>2. Reads(w, r, p, v)
        BY <2>2, <3>1, Zenon DEF Reads
      <3>. QED  BY <1>3, <3>2, Zenon DEF r
    <2>3. ASSUME NEW i \in 1..Len(q), v # 0, q[i][p] = v,
                 \A j \in i + 1 .. Len(q) : q[j][p] = 0
          PROVE  Reads(w, r, p, v)
      <3>1. \A j \in i + 1 .. Len(r) : r[j][p] = 0
        <4>. TAKE j \in i + 1 .. Len(r)
        <4>1. CASE j \in 1..Len(q)
          <5>1. j \in i + 1 .. Len(q)
            BY <1>1, <4>1
          <5>. QED  BY <1>1, <2>3, <4>1, <5>1, Zenon
        <4>. QED  BY <1>1, <2>1, <4>1
      <3>. QED  BY <1>1, <2>3, <3>1, Zenon DEF Reads
    <2>. QED  BY <1>3, <2>2, <2>3, Zenon DEF Reads, r
  <1>. QED  BY <1>2, <1>3, Zenon

\* Reading the oldest PDU changes nothing in the end.
LEMMA ReadsHead ==
    ASSUME NEW w \in Pdu, NEW q \in Seq(Pdu), q # <<>>, NEW p \in Paths, NEW v,
           Reads(w, q, p, v)
    PROVE  Reads(update(w, Head(q)), Tail(q), p, v)
  <1>. DEFINE t == Tail(q)
              u == update(w, Head(q))
  <1>1. /\ Len(q) \in Nat /\ Len(q) >= 1 /\ Len(t) = Len(q) - 1 /\ 1 \in 1..Len(q)
        /\ Head(q) = q[1]
        /\ \A i \in 1..Len(t) : i + 1 \in 1..Len(q) /\ t[i] = q[i + 1]
    OBVIOUS
  <1>2. u[p] = IF q[1][p] = 0 THEN w[p] ELSE q[1][p]
    BY <1>1, Zenon DEF update
  <1>. HIDE DEF t, u
  <1>3. CASE w[p] = v /\ \A i \in 1..Len(q) : q[i][p] = 0
    <2>1. u[p] = v /\ \A i \in 1..Len(t) : t[i][p] = 0
      BY <1>1, <1>2, <1>3, Zenon
    <2>2. Reads(u, t, p, v)
      BY <2>1, Zenon DEF Reads
    <2>. QED  BY <2>2, Zenon DEF t, u
  <1>4. ASSUME NEW i \in 1..Len(q), v # 0, q[i][p] = v,
               \A j \in i + 1 .. Len(q) : q[j][p] = 0
        PROVE  Reads(u, t, p, v)
    <2>1. CASE i = 1
      <3>1. u[p] = v
        BY <1>2, <1>4, <2>1, Zenon
      <3>2. \A j \in 1..Len(t) : t[j][p] = 0
        <4>. TAKE j \in 1..Len(t)
        <4>1. j + 1 \in i + 1 .. Len(q)
          BY <1>1, <2>1
        <4>. QED  BY <1>1, <1>4, <4>1, Zenon
      <3>. QED  BY <3>1, <3>2, Zenon DEF Reads
    <2>2. CASE i # 1
      <3>. DEFINE h == i - 1
      <3>1. h \in 1..Len(t) /\ h + 1 = i
        BY <1>1, <2>2
      <3>. HIDE DEF h
      <3>2. t[h][p] = v
        BY <1>1, <1>4, <3>1, Zenon
      <3>3. \A j \in h + 1 .. Len(t) : t[j][p] = 0
        <4>. TAKE j \in h + 1 .. Len(t)
        <4>1. j + 1 \in i + 1 .. Len(q) /\ j \in 1..Len(t)
          BY <1>1, <3>1
        <4>. QED  BY <1>1, <1>4, <4>1, Zenon
      <3>. QED  BY <1>4, <3>1, <3>2, <3>3, Zenon DEF Reads
    <2>. QED  BY <2>1, <2>2, Zenon
  <1>. QED  BY <1>3, <1>4, Zenon DEF Reads, t, u

indexv == <<root, stamp, pruned, crawled, unsent, log>>

\* What belongs to r, in four parts that are left alone separately.
SameTask(r) ==
    pc'[r] = pc[r] /\ next'[r] = next[r] /\ ev'[r] = ev[r] /\ last'[r] = last[r]
SameTold(r) ==
    told'[r] = told[r] /\ asked'[r] = asked[r] /\ start'[r] = start[r]
SameLine(r) ==
    queue'[r] = queue[r] /\ view'[r] = view[r] /\ initial'[r] = initial[r]
SameEnds(r) ==
    /\ response'[r] = response[r] /\ overtaken'[r] = overtaken[r]
    /\ conn'[r] = conn[r] /\ closed'[r] = closed[r]
Same(r) == SameTask(r) /\ SameTold(r) /\ SameLine(r) /\ SameEnds(r)

\* The ticks a task knows stay bounded while nothing of it or of the index changes.
LEMMA KeepBounds ==
    ASSUME NEW s \in Subs, Bounds(s), UNCHANGED indexv, SameTold(s), SameLine(s),
           next'[s] = next[s], ev'[s] = ev[s], last'[s] = last[s]
    PROVE  Bounds(s)'
  <1>1. root' = root /\ log' = log
    BY Zenon DEF indexv
  <1>. QED  BY <1>1, Zenon DEF Bounds, SameTold, SameLine

\* A wakeup that is pending stays pending while the task and the index do not move.
LEMMA KeepWakes ==
    ASSUME NEW s \in Subs, Wakes(s), UNCHANGED indexv, SameTask(s)
    PROVE  Wakes(s)'
  <1>1. root' = root /\ log' = log /\ crawled' = crawled /\ unsent' = unsent
    BY Zenon DEF indexv
  <1>2. \A p : Newer(p, last[s])' <=> Newer(p, last[s])
    BY <1>1, Zenon DEF SameTask, Newer
  <1>3. \A p : oclock(p)' = oclock(p)
    BY <1>1, Zenon DEF oclock
  <1>4. InLoop(s)' <=> InLoop(s)
    BY Zenon DEF SameTask, InLoop
  <1>. QED  BY <1>1, <1>2, <1>3, <1>4, Zenon DEF Wakes, SameTask

\* What was told covers as much as before when neither it nor the index changes.
LEMMA KeepCovers ==
    ASSUME NEW s \in Subs, Covers(s), UNCHANGED indexv, SameTold(s), last'[s] = last[s],
           pc'[s] # "off" => pc[s] # "off", InLoop(s)' => InLoop(s)
    PROVE  Covers(s)'
  <1>1. stamp' = stamp /\ Excused' = Excused
    BY Zenon DEF indexv, Excused
  <1>2. \A p : Newer(p, last[s])' <=> Newer(p, last[s])
    BY Zenon DEF indexv, Newer
  <1>. QED  BY <1>1, <1>2, Zenon DEF Covers, SameTold

\* What is queued still amounts to what was told when the line is left alone.
LEMMA KeepDelivers ==
    ASSUME NEW s \in Subs, Delivers(s), SameEnds(s), SameLine(s), told'[s] = told[s],
           response'[s] = "none" <=> pc'[s] \in {"off", "install", "fence"},
           pc'[s] # "off" => pc[s] # "off"
    PROVE  Delivers(s)'
  BY Zenon DEF Delivers, SameEnds, SameLine

\* A task that no part of a step touches keeps its invariant.
LEMMA KeepTask ==
    ASSUME NEW r \in Subs, TaskInv(r), UNCHANGED indexv, Same(r)
    PROVE  TaskInv(r)'
  <1>1. Bounds(r) /\ Wakes(r) /\ Covers(r) /\ Delivers(r)
    BY Zenon DEF TaskInv
  <1>2. SameTask(r) /\ SameTold(r) /\ SameLine(r) /\ SameEnds(r)
    BY Zenon DEF Same
  <1>3. /\ pc'[r] = pc[r] /\ next'[r] = next[r] /\ ev'[r] = ev[r] /\ last'[r] = last[r]
        /\ told'[r] = told[r] /\ response'[r] = response[r]
        /\ InLoop(r)' => InLoop(r)
    BY <1>2, Zenon DEF SameTask, SameTold, SameEnds, InLoop
  <1>4. response[r] = "none" <=> pc[r] \in {"off", "install", "fence"}
    BY <1>1, Zenon DEF Delivers
  <1>5. Bounds(r)'
    BY <1>1, <1>2, <1>3, KeepBounds, Zenon
  <1>6. Wakes(r)'
    BY <1>1, <1>2, KeepWakes, Zenon
  <1>7. Covers(r)'
    BY <1>1, <1>2, <1>3, KeepCovers, Zenon
  <1>8. Delivers(r)'
    BY <1>1, <1>2, <1>3, <1>4, KeepDelivers, Zenon
  <1>. QED  BY <1>5, <1>6, <1>7, <1>8, Zenon DEF TaskInv

\* The steps of the index's writers.
LEMMA MovedTask ==
    ASSUME IndexInv, LogInv, Types, IndexInv', LogInv', Moves, UNCHANGED <<task, session>>,
           NEW s \in Subs, TaskInv(s)
    PROVE  TaskInv(s)'
  <1>inv. Bounds(s) /\ Wakes(s) /\ Covers(s) /\ Delivers(s)
    BY Zenon DEF TaskInv
  <1>1. root.ticks \in Nat /\ root'.ticks \in Nat /\ root.ticks <= root'.ticks
    BY TicksNat, Zenon DEF IndexInv, Moves
  <1>2. Same(s)
    BY Zenon DEF Same, SameTask, SameTold, SameLine, SameEnds, task, session
  <1>3. /\ log \in Seq(Nat) /\ log' \in Seq(Nat) /\ unsent \in Nat
        /\ Len(log) \in Nat /\ Len(log') \in Nat
    BY <1>1 DEF LogInv
  <1>4. /\ next[s] \in Nat /\ ev[s] \in Nat /\ last[s] \in Nat /\ asked[s] \in Nat
        /\ start[s] \in Nat /\ queue[s] \in Seq(Pdu) /\ initial[s] \in Pdu
        /\ told[s] \in Pdu /\ view[s] \in Pdu
    BY Zenon DEF Types
  <1>5. \/ log' = log /\ (unsent' = unsent \/ unsent = 0)
        \/ /\ log' = Append(log, unsent) /\ Len(log') = Len(log) + 1
           /\ log'[Len(log) + 1] = unsent /\ \A i \in 1..Len(log) : log'[i] = log[i]
    <2>1. CASE log' = Append(log, unsent)
      BY <1>3, <2>1
    <2>. QED  BY <2>1, Zenon DEF Moves
  <1>6. /\ next[s] <= Len(log) + 1 /\ ev[s] <= root.ticks /\ last[s] <= root.ticks
        /\ asked[s] <= root.ticks /\ start[s] <= root.ticks
    BY <1>inv, Zenon DEF Bounds
  <1>7. Bounds(s)'
    <2>0. next[s] <= Len(log') + 1
      <3>1. Len(log) <= Len(log')
        BY <1>3, <1>5
      <3>. QED  BY <1>3, <1>4, <1>6, <3>1, Z3
    <2>1. /\ ev[s] <= root'.ticks /\ last[s] <= root'.ticks
          /\ asked[s] <= root'.ticks /\ start[s] <= root'.ticks
      BY <1>1, <1>4, <1>6, Z3
    <2>2. \A p \in Paths : /\ initial[s][p] <= root'.ticks /\ told[s][p] <= root'.ticks
                           /\ view[s][p] <= root'.ticks
      <3>1. \A p \in Paths : initial[s][p] \in Nat /\ told[s][p] \in Nat /\ view[s][p] \in Nat
        BY <1>4, Zenon DEF Pdu
      <3>2. \A p \in Paths : /\ initial[s][p] <= root.ticks /\ told[s][p] <= root.ticks
                             /\ view[s][p] <= root.ticks
        BY <1>inv, Zenon DEF Bounds
      <3>. QED  BY <1>1, <3>1, <3>2
    <2>3. \A p \in Paths : \A i \in 1..Len(queue[s]) : queue[s][i][p] <= root'.ticks
      <3>1. \A p \in Paths, i \in 1..Len(queue[s]) : queue[s][i][p] \in Nat
        BY <1>4 DEF Pdu
      <3>2. \A p \in Paths, i \in 1..Len(queue[s]) : queue[s][i][p] <= root.ticks
        BY <1>inv, Zenon DEF Bounds
      <3>. QED  BY <1>1, <3>1, <3>2
    <2>. QED  BY <1>2, <2>0, <2>1, <2>2, <2>3, Zenon DEF Bounds, Same, SameTask, SameTold, SameLine
  <1>8. Wakes(s)'
    <2>1. /\ pc'[s] = pc[s] /\ ev'[s] = ev[s] /\ last'[s] = last[s] /\ next'[s] = next[s]
          /\ InLoop(s)' <=> InLoop(s)
      BY <1>2, Zenon DEF Same, SameTask, InLoop
    <2>2. ASSUME InLoop(s), next[s] = Len(log') + 1
          PROVE  \A i \in 1..Len(log') : log'[i] <= IF pc[s] = "run" THEN ev[s] ELSE last[s]
      <3>1. log' = log
        BY <1>3, <1>4, <1>5, <1>6, <2>2
      <3>. QED  BY <1>inv, <2>2, <3>1, Zenon DEF Wakes
    <2>3. ASSUME InLoop(s), NEW p \in Paths \ crawled', contains(root'.tree, p),
                 root'.tree.entries[p].oclock > last[s]
          PROVE  \/ root'.tree.entries[p].oclock = unsent'
                 \/ \E i \in 1..Len(log') : log'[i] = root'.tree.entries[p].oclock
      <3>. DEFINE o == root'.tree.entries[p].oclock
      <3>0. \/ p \notin crawled /\ root'.tree.entries[p] = root.tree.entries[p]
            \/ o = unsent'
        BY <2>3, Zenon DEF Moves
      <3>1. CASE p \notin crawled /\ root'.tree.entries[p] = root.tree.entries[p]
        <4>1. Newer(p, last[s]) /\ o = oclock(p)
          BY <2>3, <3>1, Zenon DEF Newer, contains, oclock
        <4>0. o # 0
          BY <1>4, <2>3, Z3
        <4>. HIDE DEF o
        <4>2. o = unsent \/ \E i \in 1..Len(log) : log[i] = o
          BY <1>inv, <2>3, <3>1, <4>1, Zenon DEF Wakes
        <4>3. ASSUME o = unsent
              PROVE  o = unsent' \/ \E j \in 1..Len(log') : log'[j] = o
          <5>1. CASE Len(log') = Len(log) + 1 /\ log'[Len(log) + 1] = unsent
            <6>1. Len(log) + 1 \in 1..Len(log')
              BY <1>3, <5>1
            <6>. QED  BY <4>3, <5>1, <6>1, Zenon
          <5>. QED  BY <1>5, <4>0, <4>3, <5>1, Zenon
        <4>4. ASSUME NEW i \in 1..Len(log), log[i] = o
              PROVE  \E j \in 1..Len(log') : log'[j] = o
          BY <1>3, <1>5, <4>4, Z3
        <4>5. o = unsent' \/ \E j \in 1..Len(log') : log'[j] = o
          BY <4>2, <4>3, <4>4, Zenon
        <4>. QED  BY <4>5, Zenon DEF o
      <3>. QED  BY <3>0, <3>1, Zenon
    <2>4. InLoop(s) /\ pc[s] = "run" => last[s] < ev[s]
      BY <1>inv, Zenon DEF Wakes
    <2>. QED  BY <2>1, <2>2, <2>3, <2>4, Zenon DEF Wakes, Newer, oclock
  <1>9. Covers(s)'
    <2>0. /\ pc'[s] = pc[s] /\ last'[s] = last[s] /\ told'[s] = told[s]
          /\ asked'[s] = asked[s] /\ start'[s] = start[s]
          /\ InLoop(s)' <=> InLoop(s)
      BY <1>2, Zenon DEF Same, SameTask, SameTold, InLoop
    <2>1. \A p \in Paths \ Excused' :
             \/ /\ p \notin Excused /\ stamp'[p] = stamp[p]
                /\ root'.tree.entries[p] = root.tree.entries[p]
             \/ /\ stamp'[p] = root.ticks + 1 /\ contains(root'.tree, p)
                /\ root'.tree.entries[p].oclock = root.ticks + 1
      BY Zenon DEF Moves
    <2>2. ASSUME pc[s] # "off", NEW p \in Paths \ Excused', stamp'[p] <= asked[s]
          PROVE  told[s][p] = stamp'[p]
      <3>1. stamp'[p] # root.ticks + 1
        BY <1>1, <1>4, <1>6, <2>2, Z3
      <3>2. p \notin Excused /\ stamp'[p] = stamp[p]
        BY <2>1, <3>1, Zenon
      <3>. QED  BY <1>inv, <2>2, <3>2, Zenon DEF Covers
    <2>3. ASSUME InLoop(s), NEW p \in Paths \ Excused', stamp'[p] > start[s]
          PROVE  told[s][p] = stamp'[p] \/ Newer(p, last[s])'
      <3>1. CASE p \notin Excused /\ stamp'[p] = stamp[p]
                 /\ root'.tree.entries[p] = root.tree.entries[p]
        <4>1. told[s][p] = stamp[p] \/ Newer(p, last[s])
          BY <1>inv, <2>3, <3>1, Zenon DEF Covers
        <4>. QED  BY <2>0, <3>1, <4>1, Zenon DEF Newer, contains
      <3>2. CASE contains(root'.tree, p) /\ root'.tree.entries[p].oclock = root.ticks + 1
        <4>1. root.ticks + 1 > last[s]
          BY <1>1, <1>4, <1>6, Z3
        <4>. QED  BY <2>0, <3>2, <4>1, Zenon DEF Newer
      <3>. QED  BY <2>1, <3>1, <3>2, Zenon
    <2>. QED  BY <2>0, <2>2, <2>3 DEF Covers
  <1>10. Delivers(s)'
    <2>1. /\ SameEnds(s) /\ SameLine(s) /\ told'[s] = told[s] /\ pc'[s] = pc[s]
          /\ response'[s] = response[s]
      BY <1>2, Zenon DEF Same, SameTask, SameTold, SameEnds
    <2>2. response[s] = "none" <=> pc[s] \in {"off", "install", "fence"}
      BY <1>inv, Zenon DEF Delivers
    <2>. QED  BY <1>inv, <2>1, <2>2, KeepDelivers, Zenon
  <1>. QED  BY <1>7, <1>8, <1>9, <1>10, Zenon DEF TaskInv

\* A step of one task leaves the others alone.
LEMMA OneTask ==
    ASSUME NEW s \in Subs, \A r \in Subs : TaskInv(r), UNCHANGED indexv,
           \A r \in Subs \ {s} : Same(r), Bounds(s)', Wakes(s)', Covers(s)', Delivers(s)'
    PROVE  \A r \in Subs : TaskInv(r)'
  <1>1. TaskInv(s)'
    BY Zenon DEF TaskInv
  <1>2. ASSUME NEW r \in Subs \ {s} PROVE TaskInv(r)'
    BY KeepTask, Zenon
  <1>. QED  BY <1>1, <1>2, Zenon

\* The values for one task, and the clock.
LEMMA TaskFacts ==
    ASSUME IndexInv, LogInv, Types, NEW s \in Subs
    PROVE  /\ root.ticks \in Nat
           /\ log \in Seq(Nat) /\ Len(log) \in Nat /\ unsent \in Nat
           /\ next[s] \in Nat /\ ev[s] \in Nat /\ last[s] \in Nat /\ asked[s] \in Nat
           /\ start[s] \in Nat /\ queue[s] \in Seq(Pdu) /\ Len(queue[s]) \in Nat
           /\ initial[s] \in Pdu /\ told[s] \in Pdu /\ view[s] \in Pdu
           /\ \A i \in 1..Len(queue[s]) : queue[s][i] \in Pdu
           /\ \A p \in Known(root.tree) : p \in Paths /\ oclock(p) \in 1..root.ticks
           /\ \A p \in Paths : stamp[p] \in 0..root.ticks
  <1>1. root.ticks \in Nat
    BY TicksNat, Zenon DEF IndexInv
  <1>2. log \in Seq(Nat) /\ unsent \in Nat
    BY <1>1 DEF LogInv
  <1>3. /\ next[s] \in Nat /\ ev[s] \in Nat /\ last[s] \in Nat /\ asked[s] \in Nat
        /\ start[s] \in Nat /\ queue[s] \in Seq(Pdu)
        /\ initial[s] \in Pdu /\ told[s] \in Pdu /\ view[s] \in Pdu
    BY Zenon DEF Types
  <1>4. Len(queue[s]) \in Nat /\ \A i \in 1..Len(queue[s]) : queue[s][i] \in Pdu
    BY <1>3
  <1>5. \A p \in Known(root.tree) : p \in Paths /\ oclock(p) \in 1..root.ticks
    BY Zenon DEF IndexInv, Known
  <1>6. \A p \in Paths : stamp[p] \in 0..root.ticks
    BY <1>1 DEF IndexInv, Pdu
  <1>. QED  BY <1>1, <1>2, <1>3, <1>4, <1>5, <1>6

\* A PDU made from the index is one, and ahead of nothing.
LEMMA PduOK ==
    ASSUME IndexInv, NEW listed, listed \subseteq Known(root.tree)
    PROVE  /\ pdu(listed) \in Pdu
           /\ \A p \in Paths : /\ pdu(listed)[p] <= root.ticks
                               /\ pdu(listed)[p] = IF p \in listed THEN oclock(p) ELSE 0
                               /\ p \in listed => pdu(listed)[p] # 0
  <1>1. root.ticks \in Nat /\ \A p \in Known(root.tree) : oclock(p) \in 1..root.ticks
    BY TicksNat, Zenon DEF IndexInv
  <1>2. pdu(listed) = [p \in Paths |-> IF p \in listed THEN oclock(p) ELSE 0]
    BY Zenon DEF pdu, oclock
  <1>. HIDE DEF oclock
  <1>3. \A p \in Paths : pdu(listed)[p] = IF p \in listed THEN oclock(p) ELSE 0
    BY <1>2, Zenon
  <1>4. \A p \in Paths : pdu(listed)[p] \in 0..root.ticks /\ (p \in listed => pdu(listed)[p] # 0)
    BY <1>1, <1>3
  <1>5. pdu(listed) \in Pdu
    BY <1>1, <1>2, <1>3, <1>4 DEF Pdu
  <1>. QED  BY <1>1, <1>3, <1>4, <1>5

\* subscribe's first answer lists the whole index.
LEMMA AskOK ==
    ASSUME IndexInv, LogInv, Types, \A r \in Subs : TaskInv(r), NEW s \in Subs, Ask(s)
    PROVE  Types' /\ \A r \in Subs : TaskInv(r)'
  <1>. DEFINE m == pdu(Known(root.tree))
  <1>inv. Bounds(s) /\ Delivers(s)
    BY Zenon DEF TaskInv
  <1>1. /\ m \in Pdu
        /\ \A p \in Paths : /\ m[p] <= root.ticks
                            /\ m[p] = IF contains(root.tree, p) THEN oclock(p) ELSE 0
    BY PduOK DEF Known
  <1>2. answer(root, None, 0, FALSE).files = Known(root.tree)
        /\ answer(root, None, 0, FALSE).clock = root.ticks
    BY Zenon DEF answer, files, None
  <1>3. /\ initial' = Set(initial, s, m) /\ told' = Set(told, s, m)
        /\ asked' = Set(asked, s, root.ticks) /\ pc' = Set(pc, s, "install")
        /\ pc[s] = "off"
        /\ UNCHANGED <<indexv, alive, next, ev, last, response, start, overtaken, queue,
                       conn, closed, view>>
    BY <1>2, Zenon DEF Ask, index, session, indexv
  <1>. HIDE DEF m
  <1>4. root.ticks \in Nat
    BY TaskFacts, Zenon
  <1>5. /\ initial' \in [Subs -> Pdu] /\ initial'[s] = m
        /\ told' \in [Subs -> Pdu] /\ told'[s] = m
        /\ \A r \in Subs \ {s} : initial'[r] = initial[r] /\ told'[r] = told[r]
    <2>1. initial \in [Subs -> Pdu] /\ told \in [Subs -> Pdu]
      BY Zenon DEF Types
    <2>. QED  BY <1>1, <1>3, <2>1, Zenon DEF Set
  <1>6. /\ asked' \in [Subs -> Nat] /\ asked'[s] = root.ticks
        /\ pc' \in [Subs -> Places]
        /\ pc'[s] = "install"
        /\ \A r \in Subs \ {s} : asked'[r] = asked[r] /\ pc'[r] = pc[r]
    <2>1. asked \in [Subs -> Nat] /\ pc \in [Subs -> Places]
      BY Zenon DEF Types
    <2>. QED  BY <1>3, <1>4, <2>1, Zenon DEF Set, Places
  <1>7. Types'
    BY <1>3, <1>5, <1>6, Zenon DEF Types
  <1>8. \A r \in Subs \ {s} : Same(r)
    BY <1>3, <1>5, <1>6, Zenon DEF Same, SameTask, SameTold, SameLine, SameEnds
  <1>9. UNCHANGED indexv /\ root' = root /\ log' = log
    BY <1>3, Zenon DEF indexv
  <1>10. Bounds(s)'
    <2>1. root.ticks <= root.ticks /\ \A p \in Paths : m[p] <= root.ticks
      BY <1>1, <1>4, Z3
    <2>2. /\ next' = next /\ ev' = ev /\ last' = last /\ start' = start
          /\ view' = view /\ queue' = queue /\ root' = root /\ log' = log
      BY <1>3, <1>9, Zenon
    <2>. QED  BY <1>inv, <1>5, <1>6, <2>1, <2>2, Zenon DEF Bounds
  <1>11. Wakes(s)'
    BY <1>6, Zenon DEF Wakes, InLoop
  <1>12. Covers(s)'
    <2>1. \A p \in Paths \ Excused : m[p] = stamp[p]
      BY <1>1, Zenon DEF IndexInv
    <2>2. Excused' = Excused /\ stamp' = stamp
      BY <1>9, Zenon DEF Excused, indexv
    <2>. QED  BY <1>5, <1>6, <2>1, <2>2, Zenon DEF Covers, InLoop
  <1>13. Delivers(s)'
    BY <1>inv, <1>3, <1>5, <1>6, Zenon DEF Delivers
  <1>. QED  BY <1>7, <1>8, <1>9, <1>10, <1>11, <1>12, <1>13, OneTask, Zenon

\* The receiver starts behind every event sent so far.
LEMMA InstallOK ==
    ASSUME IndexInv, LogInv, Types, \A r \in Subs : TaskInv(r), NEW s \in Subs, Install(s)
    PROVE  Types' /\ \A r \in Subs : TaskInv(r)'
  <1>inv. Bounds(s) /\ Covers(s) /\ Delivers(s)
    BY Zenon DEF TaskInv
  <1>1. /\ next' = Set(next, s, Len(log) + 1) /\ pc' = Set(pc, s, "fence")
        /\ pc[s] = "install"
        /\ UNCHANGED <<indexv, alive, ev, last, response, initial, asked, start, told,
                       overtaken, queue, conn, closed, view>>
    BY Zenon DEF Install, index, session, indexv
  <1>2. Len(log) + 1 \in Nat
    BY TaskFacts, Z3
  <1>3. /\ next' \in [Subs -> Nat] /\ next'[s] = Len(log) + 1
        /\ pc' \in [Subs -> Places]
        /\ pc'[s] = "fence"
        /\ \A r \in Subs \ {s} : next'[r] = next[r] /\ pc'[r] = pc[r]
    <2>1. next \in [Subs -> Nat] /\ pc \in [Subs -> Places]
      BY Zenon DEF Types
    <2>. QED  BY <1>1, <1>2, <2>1, Zenon DEF Set, Places
  <1>4. Types'
    BY <1>1, <1>3, Zenon DEF Types
  <1>5. \A r \in Subs \ {s} : Same(r)
    BY <1>1, <1>3, Zenon DEF Same, SameTask, SameTold, SameLine, SameEnds
  <1>6. UNCHANGED indexv /\ root' = root /\ log' = log
    BY <1>1, Zenon DEF indexv
  <1>7. Bounds(s)'
    <2>1. next'[s] <= Len(log) + 1
      BY <1>2, <1>3, Z3
    <2>. QED  BY <1>inv, <1>1, <1>6, <2>1, Zenon DEF Bounds
  <1>8. Wakes(s)'
    BY <1>3, Zenon DEF Wakes, InLoop
  <1>9. Covers(s)'
    BY <1>inv, <1>1, <1>3, <1>6, KeepCovers, Zenon DEF InLoop, SameTold
  <1>10. Delivers(s)'
    BY <1>inv, <1>1, <1>3, Zenon DEF Delivers
  <1>. QED  BY <1>4, <1>5, <1>6, <1>7, <1>8, <1>9, <1>10, OneTask, Zenon

\* At the fence nothing in the index is newer than last_tick.
LEMMA FenceOK ==
    ASSUME IndexInv, LogInv, Types, \A r \in Subs : TaskInv(r), NEW s \in Subs, Fence(s)
    PROVE  Types' /\ \A r \in Subs : TaskInv(r)'
  <1>inv. Bounds(s) /\ Covers(s) /\ Delivers(s)
    BY Zenon DEF TaskInv
  <1>1. /\ last' = Set(last, s, root.ticks) /\ start' = Set(start, s, root.ticks)
        /\ response' = Set(response, s, "due") /\ pc' = Set(pc, s, "loop")
        /\ pc[s] = "fence"
        /\ UNCHANGED <<indexv, alive, next, ev, initial, asked, told, overtaken, queue, conn,
                       closed, view>>
    BY Zenon DEF Fence, index, session, indexv
  <1>2. /\ root.ticks \in Nat
        /\ \A p \in Known(root.tree) : ~(oclock(p) > root.ticks)
        /\ \A p \in Paths : ~(stamp[p] > root.ticks)
    BY TaskFacts, Z3
  <1>3. /\ last' \in [Subs -> Nat] /\ last'[s] = root.ticks
        /\ start' \in [Subs -> Nat] /\ start'[s] = root.ticks
        /\ \A r \in Subs \ {s} : last'[r] = last[r] /\ start'[r] = start[r]
    <2>1. last \in [Subs -> Nat] /\ start \in [Subs -> Nat]
      BY Zenon DEF Types
    <2>. QED  BY <1>1, <1>2, <2>1, Zenon DEF Set
  <1>4. /\ response' \in [Subs -> {"none", "due", "sent"}] /\ response'[s] = "due"
        /\ pc' \in [Subs -> Places] /\ pc'[s] = "loop"
        /\ \A r \in Subs \ {s} : response'[r] = response[r] /\ pc'[r] = pc[r]
    <2>1. response \in [Subs -> {"none", "due", "sent"}] /\ pc \in [Subs -> Places]
      BY Zenon DEF Types
    <2>. QED  BY <1>1, <2>1, Zenon DEF Set, Places
  <1>5. Types'
    BY <1>1, <1>3, <1>4, Zenon DEF Types
  <1>6. \A r \in Subs \ {s} : Same(r)
    BY <1>1, <1>3, <1>4, Zenon DEF Same, SameTask, SameTold, SameLine, SameEnds
  <1>7. UNCHANGED indexv /\ root' = root /\ log' = log /\ stamp' = stamp
    BY <1>1, Zenon DEF indexv
  <1>8. Bounds(s)'
    <2>1. root.ticks <= root.ticks
      BY <1>2, Z3
    <2>. QED  BY <1>inv, <1>1, <1>3, <1>7, <2>1, Zenon DEF Bounds
  <1>9. \A p \in Paths : ~Newer(p, last[s])'
    BY <1>2, <1>3, <1>7, Zenon DEF Newer, Known, oclock
  <1>10. Wakes(s)'
    <2>1. \A i \in 1..Len(log) : log[i] <= root.ticks
      BY <1>2 DEF LogInv
    <2>. QED  BY <1>3, <1>4, <1>7, <1>9, <2>1, Zenon DEF Wakes
  <1>11. Covers(s)'
    <2>1. Excused' = Excused
      BY <1>7, Zenon DEF Excused, indexv
    <2>. QED  BY <1>inv, <1>1, <1>2, <1>3, <1>4, <1>7, <2>1, Zenon DEF Covers
  <1>12. Delivers(s)'
    BY <1>inv, <1>1, <1>4, Zenon DEF Delivers
  <1>. QED  BY <1>5, <1>6, <1>7, <1>8, <1>10, <1>11, <1>12, OneTask, Zenon

\* The response is the first PDU on the queue, unless a push overtook it.
LEMMA RespondOK ==
    ASSUME IndexInv, LogInv, Types, \A r \in Subs : TaskInv(r), NEW s \in Subs, Respond(s)
    PROVE  Types' /\ \A r \in Subs : TaskInv(r)'
  <1>. DEFINE q == IF closed[s] THEN queue[s] ELSE Append(queue[s], initial[s])
  <1>inv. Bounds(s) /\ Wakes(s) /\ Covers(s) /\ Delivers(s)
    BY Zenon DEF TaskInv
  <1>1. /\ response' = Set(response, s, "sent") /\ response[s] = "due"
        /\ queue' = IF closed[s] THEN queue ELSE Set(queue, s, q)
        /\ UNCHANGED <<indexv, alive, pc, next, ev, last, initial, asked, start, told,
                       overtaken, conn, closed, view>>
    BY Zenon DEF Respond, Enqueue, index, indexv
  <1>2. /\ queue[s] \in Seq(Pdu) /\ initial[s] \in Pdu /\ root.ticks \in Nat
        /\ Len(queue[s]) \in Nat
    BY TaskFacts, Zenon
  <1>3. /\ q \in Seq(Pdu)
        /\ closed[s] => q = queue[s]
        /\ ~closed[s] => /\ Len(q) = Len(queue[s]) + 1 /\ q[Len(queue[s]) + 1] = initial[s]
                         /\ \A i \in 1..Len(queue[s]) : q[i] = queue[s][i]
    BY <1>2
  <1>. HIDE DEF q
  <1>4. /\ response' \in [Subs -> {"none", "due", "sent"}] /\ response'[s] = "sent"
        /\ queue' \in [Subs -> Seq(Pdu)] /\ queue'[s] = q
        /\ \A r \in Subs \ {s} : response'[r] = response[r] /\ queue'[r] = queue[r]
    <2>1. response \in [Subs -> {"none", "due", "sent"}] /\ queue \in [Subs -> Seq(Pdu)]
      BY Zenon DEF Types
    <2>. QED  BY <1>1, <1>3, <2>1, Zenon DEF Set
  <1>5. Types'
    BY <1>1, <1>4, Zenon DEF Types
  <1>6. \A r \in Subs \ {s} : Same(r)
    BY <1>1, <1>4, Zenon DEF Same, SameTask, SameTold, SameLine, SameEnds
  <1>7. UNCHANGED indexv /\ root' = root /\ log' = log /\ SameTask(s) /\ SameTold(s)
    BY <1>1, Zenon DEF indexv, SameTask, SameTold
  <1>8. Bounds(s)'
    <2>1. \A p \in Paths : \A i \in 1..Len(q) : q[i][p] <= root.ticks
      <3>1. \A p \in Paths : /\ initial[s][p] <= root.ticks
                             /\ \A i \in 1..Len(queue[s]) : queue[s][i][p] <= root.ticks
        BY <1>inv, Zenon DEF Bounds
      <3>2. CASE closed[s]
        BY <1>3, <3>1, <3>2, Zenon
      <3>3. CASE ~closed[s]
        BY <1>2, <1>3, <3>1, <3>3, Z3
      <3>. QED  BY <3>2, <3>3, Zenon
    <2>. QED  BY <1>inv, <1>1, <1>4, <1>7, <2>1, Zenon DEF Bounds
  <1>9. Wakes(s)'
    BY <1>inv, <1>7, KeepWakes, Zenon
  <1>10. Covers(s)'
    BY <1>inv, <1>1, <1>7, KeepCovers, Zenon DEF InLoop
  <1>11. Delivers(s)'
    <2>1. pc[s] \notin {"off", "install", "fence"}
      BY <1>inv, <1>1, Zenon DEF Delivers
    <2>2. ASSUME ~overtaken[s], ~closed[s], NEW p \in Paths
          PROVE  Reads(view'[s], queue'[s], p, told'[s][p])
      <3>1. queue[s] = <<>> /\ view[s] = NoPdu /\ told[s] = initial[s]
        BY <1>inv, <1>1, <2>1, <2>2, Zenon DEF Delivers
      <3>2. Reads(view[s], queue[s], p, 0)
        BY <3>1 DEF Reads, NoPdu
      <3>3. Reads(view[s], Append(queue[s], initial[s]), p, initial[s][p])
        BY <1>2, <3>2, ReadsAppend, Zenon
      <3>4. queue'[s] = Append(queue[s], initial[s])
        BY <1>4, <2>2, Zenon DEF q
      <3>. QED  BY <1>1, <3>1, <3>3, <3>4, Zenon
    <2>. QED  BY <1>1, <1>4, <2>1, <2>2, Zenon DEF Delivers
  <1>. QED  BY <1>5, <1>6, <1>7, <1>8, <1>9, <1>10, <1>11, OneTask, Zenon

\* Skipping to the oldest event of the ring leaves the newest to receive.
LEMMA LaggedOK ==
    ASSUME IndexInv, LogInv, Types, \A r \in Subs : TaskInv(r), NEW s \in Subs, Lagged(s)
    PROVE  Types' /\ \A r \in Subs : TaskInv(r)'
  <1>inv. Bounds(s) /\ Wakes(s) /\ Covers(s) /\ Delivers(s)
    BY Zenon DEF TaskInv
  <1>1. /\ next' = Set(next, s, Oldest) /\ pc[s] = "loop" /\ next[s] < Oldest
        /\ UNCHANGED <<indexv, alive, pc, ev, last, response, initial, asked, start, told,
                       overtaken, queue, conn, closed, view>>
    BY Zenon DEF Lagged, index, session, indexv
  <1>2. Len(log) \in Nat /\ Capacity \in Nat /\ Capacity > 0
    BY TaskFacts, SubscriptionAssumption
  <1>3. /\ Oldest \in Nat /\ Oldest <= Len(log) + 1
        /\ Oldest = Len(log) + 1 => Len(log) = 0
    BY <1>2 DEF Oldest
  <1>. HIDE DEF Oldest
  <1>4. next' \in [Subs -> Nat] /\ next'[s] = Oldest /\ \A r \in Subs \ {s} : next'[r] = next[r]
    <2>1. next \in [Subs -> Nat]
      BY Zenon DEF Types
    <2>. QED  BY <1>1, <1>3, <2>1, Zenon DEF Set
  <1>5. Types'
    BY <1>1, <1>4, Zenon DEF Types
  <1>6. \A r \in Subs \ {s} : Same(r)
    BY <1>1, <1>4, Zenon DEF Same, SameTask, SameTold, SameLine, SameEnds
  <1>7. /\ UNCHANGED indexv /\ root' = root /\ log' = log /\ crawled' = crawled
        /\ unsent' = unsent /\ SameTold(s) /\ SameLine(s) /\ SameEnds(s)
    BY <1>1, Zenon DEF indexv, SameTold, SameLine, SameEnds
  <1>8. Bounds(s)'
    BY <1>inv, <1>1, <1>3, <1>4, <1>7, Zenon DEF Bounds
  <1>9. Wakes(s)'
    <2>1. Oldest = Len(log) + 1 => 1..Len(log) = {}
      BY <1>3
    <2>2. \A p : /\ Newer(p, last[s])' <=> Newer(p, last[s])
                 /\ oclock(p)' = oclock(p)
      BY <1>1, <1>7, Zenon DEF Newer, oclock
    <2>3. InLoop(s)
      BY <1>1, Zenon DEF InLoop
    <2>. QED  BY <1>inv, <1>1, <1>4, <1>7, <2>1, <2>2, <2>3, Zenon DEF Wakes
  <1>10. Covers(s)'
    BY <1>inv, <1>1, <1>7, KeepCovers, Zenon DEF InLoop
  <1>11. Delivers(s)'
    <2>1. response[s] # "none"
      BY <1>inv, <1>1, Zenon DEF Delivers
    <2>. QED  BY <1>inv, <1>1, <1>7, <2>1, KeepDelivers, Zenon
  <1>. QED  BY <1>5, <1>6, <1>7, <1>8, <1>9, <1>10, <1>11, OneTask, Zenon

\* An event at or below last_tick has been served: so has every earlier one.
LEMMA RecvOK ==
    ASSUME IndexInv, LogInv, Types, \A r \in Subs : TaskInv(r), NEW s \in Subs, Recv(s)
    PROVE  Types' /\ \A r \in Subs : TaskInv(r)'
  <1>. DEFINE n == next[s]
              e == log[n]
  <1>inv. Bounds(s) /\ Wakes(s) /\ Covers(s) /\ Delivers(s)
    BY Zenon DEF TaskInv
  <1>1. /\ Len(log) \in Nat /\ n \in Nat /\ last[s] \in Nat /\ root.ticks \in Nat
        /\ n \in 1..Len(log) /\ e \in Nat /\ e <= root.ticks
    <2>1. Oldest \in Nat /\ Oldest >= 1
      BY TaskFacts, SubscriptionAssumption, Z3 DEF Oldest
    <2>2. n \in 1..Len(log)
      BY <2>1, TaskFacts, Z3 DEF Recv
    <2>. QED  BY <2>2, TaskFacts, Z3 DEF LogInv
  <1>2. /\ next' = Set(next, s, n + 1) /\ pc[s] = "loop"
        /\ UNCHANGED <<indexv, alive, last, response, initial, asked, start, told, overtaken,
                       queue, conn, closed, view>>
    BY Zenon DEF Recv, index, session, indexv
  <1>3. \/ pc' = Set(pc, s, "exit") /\ ev' = ev
        \/ e <= last[s] /\ pc' = pc /\ ev' = ev
        \/ ~(e <= last[s]) /\ pc' = Set(pc, s, "run") /\ ev' = Set(ev, s, e)
    BY Zenon DEF Recv
  <1>4. \A i \in 1..Len(log) : log[i] \in Nat /\ (n = Len(log) => log[i] <= e)
    <2>0. \A i \in 1..Len(log) : log[i] \in Nat
      BY TaskFacts, Z3
    <2>1. \A i, j \in 1..Len(log) : i < j => log[i] < log[j]
      BY Zenon DEF LogInv
    <2>2. ASSUME n = Len(log), NEW i \in 1..Len(log), i # n
          PROVE  log[i] <= log[n]
      <3>1. i < n /\ n \in 1..Len(log) /\ i \in 1..Len(log)
        <4>1. Len(log) \in Nat /\ n \in 1..Len(log) /\ i \in 1..Len(log)
              /\ n = Len(log) /\ i # n
          BY <1>1, <2>2, Zenon
        <4>. HIDE DEF n
        <4>. QED  BY ONLY <4>1, Z3
      <3>2. log[i] < log[n] /\ log[i] \in Nat /\ log[n] \in Nat
        BY <2>0, <2>1, <3>1, Zenon
      <3>. QED  BY <3>2, Z3
    <2>3. log[n] <= log[n]
      BY <1>1, Z3
    <2>. QED  BY <2>0, <2>2, <2>3, Zenon
  <1>. HIDE DEF n, e
  <1>5. /\ next' \in [Subs -> Nat] /\ next'[s] = n + 1
        /\ \A r \in Subs \ {s} : next'[r] = next[r]
    <2>1. next \in [Subs -> Nat]
      BY Zenon DEF Types
    <2>2. n + 1 \in Nat
      BY <1>1, TaskFacts, Z3
    <2>. QED  BY <1>2, <2>1, <2>2, Zenon DEF Set
  <1>6. /\ pc' \in [Subs -> Places] /\ ev' \in [Subs -> Nat]
        /\ \A r \in Subs \ {s} : pc'[r] = pc[r] /\ ev'[r] = ev[r]
        /\ \/ pc'[s] = "exit" /\ ev'[s] = ev[s]
           \/ e <= last[s] /\ pc'[s] = "loop" /\ ev'[s] = ev[s]
           \/ ~(e <= last[s]) /\ pc'[s] = "run" /\ ev'[s] = e
    <2>1. pc \in [Subs -> Places] /\ ev \in [Subs -> Nat]
      BY Zenon DEF Types
    <2>2. CASE pc' = Set(pc, s, "exit") /\ ev' = ev
      BY <2>1, <2>2, Zenon DEF Set, Places
    <2>3. CASE e <= last[s] /\ pc' = pc /\ ev' = ev
      BY <1>2, <2>1, <2>3, Zenon
    <2>4. CASE ~(e <= last[s]) /\ pc' = Set(pc, s, "run") /\ ev' = Set(ev, s, e)
      BY <1>1, <2>1, <2>4, Zenon DEF Set, Places
    <2>. QED  BY <1>3, <2>2, <2>3, <2>4, Zenon
  <1>7. Types'
    BY <1>2, <1>5, <1>6, Zenon DEF Types
  <1>8. \A r \in Subs \ {s} : Same(r)
    BY <1>2, <1>5, <1>6, Zenon DEF Same, SameTask, SameTold, SameLine, SameEnds
  <1>9. /\ UNCHANGED indexv /\ root' = root /\ log' = log /\ crawled' = crawled
        /\ unsent' = unsent /\ last'[s] = last[s]
        /\ SameTold(s) /\ SameLine(s) /\ SameEnds(s)
    BY <1>2, Zenon DEF indexv, SameTold, SameLine, SameEnds
  <1>10. Bounds(s)'
    <2>1. n + 1 <= Len(log) + 1 /\ ev'[s] <= root.ticks
      BY <1>inv, <1>1, <1>6, Z3 DEF Bounds
    <2>. QED  BY <1>inv, <1>5, <1>9, <2>1, Zenon DEF Bounds, SameTold, SameLine
  <1>11. Wakes(s)'
    <2>1. \A p : /\ Newer(p, last[s])' <=> Newer(p, last[s])
                 /\ oclock(p)' = oclock(p)
      BY <1>9, Zenon DEF Newer, oclock
    <2>2. \A p \in Paths \ crawled :
             Newer(p, last[s]) =>
                 oclock(p) = unsent \/ \E i \in 1..Len(log) : log[i] = oclock(p)
      BY <1>inv, <1>2, Zenon DEF Wakes, InLoop
    <2>3. ASSUME next'[s] = Len(log) + 1, NEW i \in 1..Len(log), InLoop(s)'
          PROVE  log[i] <= IF pc'[s] = "run" THEN ev'[s] ELSE last[s]
      <3>0. n = Len(log)
        BY <1>1, <1>5, <2>3, Z3
      <3>1. log[i] <= e /\ log[i] \in Nat
        BY <1>4, <2>3, <3>0, Zenon
      <3>2. CASE pc'[s] = "run" /\ ev'[s] = e
        BY <3>1, <3>2, Zenon
      <3>3. CASE pc'[s] = "loop" /\ e <= last[s]
        BY <1>1, <3>1, <3>3, Z3
      <3>. QED  BY <1>6, <2>3, <3>2, <3>3, Zenon DEF InLoop
    <2>4. pc'[s] = "run" => last[s] < ev'[s]
      BY <1>1, <1>6
    <2>. QED  BY <1>9, <2>1, <2>2, <2>3, <2>4, Zenon DEF Wakes
  <1>12. Covers(s)'
    BY <1>inv, <1>2, <1>9, KeepCovers, Zenon DEF InLoop
  <1>13. Delivers(s)'
    <2>1. response'[s] # "none" /\ pc[s] # "off" /\ told'[s] = told[s]
      BY <1>inv, <1>2, Zenon DEF Delivers
    <2>2. pc'[s] \notin {"off", "install", "fence"}
      BY <1>6, Zenon
    <2>. QED  BY <1>inv, <1>9, <2>1, <2>2, KeepDelivers, Zenon
  <1>. QED  BY <1>7, <1>8, <1>9, <1>10, <1>11, <1>12, <1>13, OneTask, Zenon

\* The ends of a task.
LEMMA EndOK ==
    ASSUME IndexInv, LogInv, Types, \A r \in Subs : TaskInv(r), NEW s \in Subs,
           Closed(s) \/ Exit(s)
    PROVE  Types' /\ \A r \in Subs : TaskInv(r)'
  <1>inv. Bounds(s) /\ Covers(s) /\ Delivers(s)
    BY Zenon DEF TaskInv
  <1>1. /\ pc[s] \in {"loop", "exit"}
        /\ \E e \in {"exit", "done"} : pc' = Set(pc, s, e)
        /\ UNCHANGED <<indexv, alive, next, ev, last, response, initial, asked, start, told,
                       overtaken, queue, conn, closed, view>>
    BY Zenon DEF Closed, Exit, index, session, indexv
  <1>2. /\ pc' \in [Subs -> Places] /\ pc'[s] \in {"exit", "done"}
        /\ \A r \in Subs \ {s} : pc'[r] = pc[r]
    <2>1. pc \in [Subs -> Places]
      BY Zenon DEF Types
    <2>. QED  BY <1>1, <2>1, Zenon DEF Set, Places
  <1>3. Types'
    BY <1>1, <1>2, Zenon DEF Types
  <1>4. \A r \in Subs \ {s} : Same(r)
    BY <1>1, <1>2, Zenon DEF Same, SameTask, SameTold, SameLine, SameEnds
  <1>5. UNCHANGED indexv /\ SameTold(s) /\ SameLine(s) /\ SameEnds(s)
    BY <1>1, Zenon DEF SameTold, SameLine, SameEnds
  <1>6. Bounds(s)'
    BY <1>inv, <1>1, <1>5, KeepBounds, Zenon
  <1>7. Wakes(s)'
    BY <1>2, Zenon DEF Wakes, InLoop
  <1>8. Covers(s)'
    BY <1>inv, <1>1, <1>2, <1>5, KeepCovers, Zenon DEF InLoop
  <1>9. Delivers(s)'
    <2>1. response'[s] # "none" /\ pc[s] # "off" /\ told'[s] = told[s]
      BY <1>inv, <1>1, Zenon DEF Delivers
    <2>. QED  BY <1>inv, <1>2, <1>5, <2>1, KeepDelivers, Zenon
  <1>. QED  BY <1>3, <1>4, <1>5, <1>6, <1>7, <1>8, <1>9, OneTask, Zenon

\* What run_push_loop's query finds: everything newer than last_tick, whether
\* or not it calls itself a fresh instance.
LEMMA PushFiles ==
    ASSUME NEW s \in Subs
    PROVE  answer(root, Tick(last[s]), 0, FALSE).files = {p \in Paths : Newer(p, last[s])}
  <1>1. answer(root, Tick(last[s]), 0, FALSE).files = files(root, Tick(last[s]), 0)
    BY Zenon DEF answer
  <1>2. since_tick(Tick(last[s]), 0) = last[s] /\ Tick(last[s]).kind = "Tick"
    BY Zenon DEF since_tick, tick_against, Tick
  <1>. QED  BY <1>1, <1>2, Zenon DEF files, Known, Newer

\* A push: what it sends is what it owes, and it is silent only if it owes
\* nothing.
LEMMA PushOK ==
    ASSUME IndexInv, LogInv, Types, \A r \in Subs : TaskInv(r), NEW s \in Subs, Push(s)
    PROVE  Types' /\ \A r \in Subs : TaskInv(r)'
  <1>. DEFINE a == answer(root, Tick(last[s]), 0, FALSE)
              m == pdu(a.files)
              silent == a.files = {} /\ ~a.fresh
              sent == ~silent /\ ~closed[s]
              q == IF sent THEN Append(queue[s], m) ELSE queue[s]
              k == IF sent THEN update(told[s], m) ELSE told[s]
  <1>inv. Bounds(s) /\ Wakes(s) /\ Covers(s) /\ Delivers(s)
    BY Zenon DEF TaskInv
  <1>1. \A p \in Paths : p \in a.files <=> Newer(p, last[s])
    BY PushFiles, Zenon
  <1>2. /\ m \in Pdu
        /\ \A p \in Paths : /\ m[p] <= root.ticks
                            /\ m[p] = IF Newer(p, last[s]) THEN oclock(p) ELSE 0
                            /\ Newer(p, last[s]) => m[p] # 0
    <2>1. a.files \subseteq Known(root.tree)
      BY PushFiles, Zenon DEF Known, Newer
    <2>. HIDE DEF a
    <2>. QED  BY <1>1, <2>1, PduOK, Zenon
  <1>3. silent => \A p \in Paths : ~Newer(p, last[s])
    BY <1>1, Zenon
  <1>4. /\ last' = Set(last, s, ev[s]) /\ pc[s] = "run"
        /\ queue' = IF sent THEN Set(queue, s, q) ELSE queue
        /\ told' = Set(told, s, k)
        /\ overtaken' = Set(overtaken, s, overtaken[s] \/ (sent /\ response[s] = "due"))
        /\ pc' = Set(pc, s, IF silent \/ sent THEN "loop" ELSE "exit")
    BY Zenon DEF Push, Enqueue
  <1>5. UNCHANGED <<indexv, alive, next, ev, response, initial, asked, start, conn, closed, view>>
    BY Zenon DEF Push, index, indexv
  <1>. HIDE DEF silent, m
  <1>6. /\ root.ticks \in Nat /\ ev[s] \in Nat /\ last[s] \in Nat /\ told[s] \in Pdu
        /\ queue[s] \in Seq(Pdu) /\ Len(queue[s]) \in Nat
    BY TaskFacts, Zenon
  <1>7. ev[s] > last[s] /\ InLoop(s)
    BY <1>inv, <1>4, <1>6, Zenon DEF Wakes, InLoop
  <1>8. k \in Pdu /\ \A p \in Paths : k[p] = IF sent /\ Newer(p, last[s]) THEN oclock(p)
                                                                        ELSE told[s][p]
    BY <1>2, <1>6, Zenon DEF update, Pdu
  <1>9. /\ q \in Seq(Pdu)
        /\ sent => /\ Len(q) = Len(queue[s]) + 1 /\ q[Len(queue[s]) + 1] = m
                   /\ \A i \in 1..Len(queue[s]) : q[i] = queue[s][i]
        /\ ~sent => q = queue[s] /\ k = told[s]
    BY <1>2, <1>6, Z3
  <1>10. sent => ~closed[s]
    OBVIOUS
  <1>. HIDE DEF q, k, sent
  <1>11. /\ last' \in [Subs -> Nat] /\ last'[s] = ev[s]
         /\ told' \in [Subs -> Pdu] /\ told'[s] = k
         /\ \A r \in Subs \ {s} : last'[r] = last[r] /\ told'[r] = told[r]
    <2>1. last \in [Subs -> Nat] /\ told \in [Subs -> Pdu]
      BY Zenon DEF Types
    <2>. QED  BY <1>4, <1>6, <1>8, <2>1, Zenon DEF Set
  <1>12. /\ queue' \in [Subs -> Seq(Pdu)] /\ queue'[s] = q
         /\ \A r \in Subs \ {s} : queue'[r] = queue[r]
    <2>1. queue \in [Subs -> Seq(Pdu)]
      BY Zenon DEF Types
    <2>. QED  BY <1>4, <1>9, <2>1, Zenon DEF Set
  <1>13. /\ pc' \in [Subs -> Places]
         /\ pc'[s] = IF silent \/ sent THEN "loop" ELSE "exit"
         /\ \A r \in Subs \ {s} : pc'[r] = pc[r]
    <2>1. pc \in [Subs -> Places]
      BY Zenon DEF Types
    <2>. QED  BY <1>4, <2>1, Zenon DEF Set, Places
  <1>14. overtaken' \in [Subs -> BOOLEAN] /\ \A r \in Subs \ {s} : overtaken'[r] = overtaken[r]
    <2>1. overtaken \in [Subs -> BOOLEAN]
      BY Zenon DEF Types
    <2>. QED  BY <1>4, <2>1, Zenon DEF Set
  <1>15. overtaken'[s] <=> overtaken[s] \/ (sent /\ response[s] = "due")
    BY <1>4, Zenon DEF Types, Set
  <1>16. Types'
    BY <1>5, <1>11, <1>12, <1>13, <1>14, Zenon DEF Types
  <1>17. \A r \in Subs \ {s} : Same(r)
    BY <1>5, <1>11, <1>12, <1>13, <1>14, Zenon DEF Same, SameTask, SameTold, SameLine, SameEnds
  <1>18. /\ UNCHANGED indexv /\ root' = root /\ log' = log /\ stamp' = stamp
         /\ crawled' = crawled /\ unsent' = unsent /\ Excused' = Excused
    BY <1>5, Zenon DEF indexv, Excused
  <1>19. \A p : oclock(p)' = oclock(p)
    BY <1>18, Zenon DEF oclock
  <1>20. Bounds(s)'
    <2>1. \A p \in Paths : k[p] <= root.ticks
      <3>1. \A p \in Paths : Newer(p, last[s]) => oclock(p) <= root.ticks
        BY <1>6, TaskFacts, Z3 DEF Newer, Known
      <3>2. \A p \in Paths : told[s][p] <= root.ticks
        BY <1>inv, Zenon DEF Bounds
      <3>. QED  BY <1>8, <3>1, <3>2, Zenon
    <2>2. \A p \in Paths : \A i \in 1..Len(q) : q[i][p] <= root.ticks
      <3>0. \A p \in Paths : \A i \in 1..Len(queue[s]) : queue[s][i][p] <= root.ticks
        BY <1>inv, Zenon DEF Bounds
      <3>1. CASE sent
        <4>1. \A i \in 1..Len(q) : q[i] = m \/ (i \in 1..Len(queue[s]) /\ q[i] = queue[s][i])
          BY <1>6, <1>9, <3>1, Z3
        <4>. QED  BY <1>2, <3>0, <4>1, Zenon
      <3>2. CASE ~sent
        BY <1>9, <3>0, <3>2, Zenon
      <3>. QED  BY <3>1, <3>2, Zenon
    <2>. QED  BY <1>inv, <1>5, <1>11, <1>12, <1>18, <2>1, <2>2, Zenon DEF Bounds
  <1>21. Wakes(s)'
    <2>. SUFFICES ASSUME pc'[s] = "loop" PROVE Wakes(s)'
      BY <1>13, Zenon DEF Wakes, InLoop
    <2>1. next[s] = Len(log) + 1 => \A i \in 1..Len(log) : log[i] <= ev[s]
      BY <1>inv, <1>4, <1>7, Zenon DEF Wakes
    <2>2. \A p \in Paths : Newer(p, last[s])' => Newer(p, last[s])
      <3>1. \A p \in Paths : Newer(p, ev[s]) => Newer(p, last[s])
        <4>1. \A p \in Known(root.tree) : oclock(p) \in 1..root.ticks
          BY TaskFacts, Zenon
        <4>. QED  BY <1>6, <1>7, <4>1, Z3 DEF Newer, Known, oclock
      <3>. QED  BY <1>11, <1>18, <3>1, Zenon DEF Newer
    <2>3. \A p \in Paths \ crawled :
             Newer(p, last[s]) =>
                 oclock(p) = unsent \/ \E i \in 1..Len(log) : log[i] = oclock(p)
      BY <1>inv, <1>7, Zenon DEF Wakes
    <2>4. next'[s] = next[s]
      BY <1>5, Zenon
    <2>. QED  BY <1>11, <1>18, <1>19, <2>1, <2>2, <2>3, <2>4, Zenon DEF Wakes
  <1>22. Covers(s)'
    <2>1. \A p \in Paths \ Excused :
             told[s][p] = stamp[p] \/ (sent /\ Newer(p, last[s])) => k[p] = stamp[p]
      <3>1. \A p \in Paths \ Excused : Newer(p, last[s]) => stamp[p] = oclock(p)
        BY Zenon DEF IndexInv, Newer
      <3>. QED  BY <1>8, <3>1
    <2>2. \A p \in Paths \ Excused : stamp[p] <= asked[s] => k[p] = stamp[p]
      BY <1>inv, <1>4, <2>1, Zenon DEF Covers
    <2>3. pc'[s] = "loop" =>
             \A p \in Paths \ Excused : stamp[p] > start[s] => k[p] = stamp[p]
      BY <1>inv, <1>3, <1>7, <1>13, <2>1, Zenon DEF Covers
    <2>4. asked'[s] = asked[s] /\ start'[s] = start[s]
      BY <1>5, Zenon
    <2>5. InLoop(s)' => pc'[s] = "loop"
      BY <1>13, Zenon DEF InLoop
    <2>. QED  BY <1>11, <1>18, <2>2, <2>3, <2>4, <2>5, Zenon DEF Covers
  <1>23. Delivers(s)'
    <2>1. response[s] \in {"due", "sent"} /\ response'[s] = response[s]
      BY <1>inv, <1>4, <1>5, Zenon DEF Delivers, Types
    <2>2. pc'[s] \notin {"off", "install", "fence"} /\ view'[s] = view[s]
      BY <1>5, <1>13, Zenon
    <2>3. CASE ~sent
      <3>1. overtaken'[s] <=> overtaken[s]
        BY <1>15, <2>3, Zenon
      <3>2. queue'[s] = queue[s] /\ told'[s] = told[s]
        BY <1>9, <1>11, <1>12, <2>3, Zenon
      <3>. QED  BY <1>inv, <1>4, <1>5, <2>1, <2>2, <3>1, <3>2, Zenon DEF Delivers
    <2>4. CASE sent /\ response[s] = "due"
      <3>1. overtaken'[s]
        BY <1>15, <2>4, Zenon
      <3>. QED  BY <2>1, <2>2, <2>4, <3>1, Zenon DEF Delivers
    <2>5. CASE sent /\ response[s] = "sent"
      <3>1. overtaken'[s] <=> overtaken[s]
        BY <1>15, <2>5, Zenon
      <3>2. q = Append(queue[s], m) /\ k = update(told[s], m)
        BY <2>5, Zenon DEF q, k
      <3>3. ASSUME ~overtaken[s], conn[s], NEW p \in Paths
            PROVE  Reads(view'[s], queue'[s], p, told'[s][p])
        <4>1. Reads(view[s], queue[s], p, told[s][p])
          BY <1>inv, <1>10, <2>5, <3>3, Zenon DEF Delivers
        <4>2. k[p] = IF m[p] = 0 THEN told[s][p] ELSE m[p]
          BY <3>2, Zenon DEF update
        <4>3. Reads(view[s], q, p, k[p])
          BY <1>2, <1>6, <3>2, <4>1, <4>2, ReadsAppend, Zenon
        <4>. QED  BY <1>11, <1>12, <2>2, <4>3, Zenon
      <3>4. conn'[s] <=> conn[s]
        BY <1>5, Zenon
      <3>. QED  BY <2>1, <2>2, <2>5, <3>1, <3>3, <3>4, Zenon DEF Delivers
    <2>. QED  BY <2>1, <2>3, <2>4, <2>5, Zenon
  <1>. QED  BY <1>16, <1>17, <1>18, <1>20, <1>21, <1>22, <1>23, OneTask, Zenon

\* The writer task takes the oldest PDU to the client, or finds it gone.
LEMMA WriteOK ==
    ASSUME IndexInv, LogInv, Types, \A r \in Subs : TaskInv(r), NEW s \in Subs, Write(s)
    PROVE  Types' /\ \A r \in Subs : TaskInv(r)'
  <1>. DEFINE q == queue[s]
              v == IF conn[s] THEN update(view[s], Head(q)) ELSE view[s]
  <1>inv. Bounds(s) /\ Wakes(s) /\ Covers(s) /\ Delivers(s)
    BY Zenon DEF TaskInv
  <1>1. /\ queue' = Set(queue, s, Tail(q)) /\ q # <<>> /\ ~closed[s]
        /\ view' = IF conn[s] THEN Set(view, s, v) ELSE view
        /\ closed' = IF conn[s] THEN closed ELSE Set(closed, s, TRUE)
    BY Zenon DEF Write
  <1>2. UNCHANGED <<indexv, alive, pc, next, ev, last, response, initial, asked, start, told,
                    overtaken, conn>>
    BY Zenon DEF Write, index, task, indexv
  <1>3. /\ q \in Seq(Pdu) /\ view[s] \in Pdu /\ Len(q) \in Nat
        /\ \A i \in 1..Len(q) : q[i] \in Pdu
    BY TaskFacts, Zenon
  <1>4. /\ Tail(q) \in Seq(Pdu) /\ Head(q) = q[1] /\ 1 \in 1..Len(q)
        /\ \A i \in 1..Len(Tail(q)) : i + 1 \in 1..Len(q) /\ Tail(q)[i] = q[i + 1]
    BY <1>1, <1>3
  <1>5. /\ v \in Pdu
        /\ ~conn[s] => v = view[s]
        /\ \A p \in Paths : v[p] \in {view[s][p], q[1][p]}
    BY <1>3, <1>4, Zenon DEF update, Pdu
  <1>6. conn[s] => v = update(view[s], Head(q))
    OBVIOUS
  <1>. HIDE DEF q, v
  <1>7. /\ queue' \in [Subs -> Seq(Pdu)] /\ queue'[s] = Tail(q)
        /\ \A r \in Subs \ {s} : queue'[r] = queue[r]
    <2>1. queue \in [Subs -> Seq(Pdu)]
      BY Zenon DEF Types
    <2>. QED  BY <1>1, <1>4, <2>1, Zenon DEF Set
  <1>8. /\ view' \in [Subs -> Pdu] /\ view'[s] = v
        /\ \A r \in Subs \ {s} : view'[r] = view[r]
    <2>1. view \in [Subs -> Pdu]
      BY Zenon DEF Types
    <2>. QED  BY <1>1, <1>5, <2>1, Zenon DEF Set
  <1>9. /\ closed' \in [Subs -> BOOLEAN]
        /\ closed'[s] <=> ~conn[s]
        /\ \A r \in Subs \ {s} : closed'[r] = closed[r]
    <2>1. closed \in [Subs -> BOOLEAN]
      BY Zenon DEF Types
    <2>. QED  BY <1>1, <2>1, Zenon DEF Set
  <1>10. Types'
    BY <1>2, <1>7, <1>8, <1>9, Zenon DEF Types
  <1>11. \A r \in Subs \ {s} : Same(r)
    BY <1>2, <1>7, <1>8, <1>9, Zenon DEF Same, SameTask, SameTold, SameLine, SameEnds
  <1>12. UNCHANGED indexv /\ root' = root /\ log' = log /\ SameTask(s) /\ SameTold(s)
    BY <1>2, Zenon DEF indexv, SameTask, SameTold
  <1>13. Bounds(s)'
    <2>0. \A p \in Paths : /\ view[s][p] <= root.ticks
                           /\ \A i \in 1..Len(q) : q[i][p] <= root.ticks
      BY <1>inv, Zenon DEF Bounds, q
    <2>1. \A p \in Paths : v[p] <= root.ticks
      BY <1>4, <1>5, <2>0, Zenon
    <2>2. \A p \in Paths : \A i \in 1..Len(Tail(q)) : Tail(q)[i][p] <= root.ticks
      BY <1>4, <2>0, Zenon
    <2>. QED  BY <1>inv, <1>2, <1>7, <1>8, <1>12, <2>1, <2>2, Zenon DEF Bounds
  <1>14. Wakes(s)'
    BY <1>inv, <1>12, KeepWakes, Zenon
  <1>15. Covers(s)'
    BY <1>inv, <1>2, <1>12, KeepCovers, Zenon DEF InLoop
  <1>16. Delivers(s)'
    <2>1. response[s] = "sent" \/ overtaken[s]
      BY <1>inv, <1>1, Zenon DEF Delivers, q
    <2>2. ASSUME response[s] = "sent", ~overtaken[s], conn[s], NEW p \in Paths
          PROVE  Reads(view'[s], queue'[s], p, told'[s][p])
      <3>1. Reads(view[s], q, p, told[s][p])
        BY <1>inv, <1>1, <2>2, Zenon DEF Delivers, q
      <3>2. Reads(v, Tail(q), p, told[s][p])
        BY <1>1, <1>3, <1>6, <2>2, <3>1, ReadsHead, Zenon
      <3>. QED  BY <1>2, <1>7, <1>8, <3>2, Zenon
    <2>3. (response[s] = "none" <=> pc[s] \in {"off", "install", "fence"})
          /\ (response[s] = "none" => ~overtaken[s])
      BY <1>inv, Zenon DEF Delivers
    <2>. QED  BY <1>2, <1>9, <2>1, <2>2, <2>3, Zenon DEF Delivers
  <1>. QED  BY <1>10, <1>11, <1>12, <1>13, <1>14, <1>15, <1>16, OneTask, Zenon

\* The ends of a connection.
LEMMA HangupOK ==
    ASSUME IndexInv, LogInv, Types, \A r \in Subs : TaskInv(r), NEW s \in Subs,
           WriterEnd(s) \/ Hangup(s)
    PROVE  Types' /\ \A r \in Subs : TaskInv(r)'
  <1>inv. Bounds(s) /\ Wakes(s) /\ Covers(s) /\ Delivers(s)
    BY Zenon DEF TaskInv
  <1>1. /\ \/ closed' = Set(closed, s, TRUE) /\ conn' = conn
           \/ conn' = Set(conn, s, FALSE) /\ closed' = closed
        /\ UNCHANGED <<indexv, alive, pc, next, ev, last, response, initial, asked, start,
                       told, overtaken, queue, view>>
    BY Zenon DEF WriterEnd, Hangup, index, task, indexv
  <1>2. /\ closed' \in [Subs -> BOOLEAN] /\ conn' \in [Subs -> BOOLEAN]
        /\ closed'[s] \/ ~conn'[s]
        /\ \A r \in Subs \ {s} : closed'[r] = closed[r] /\ conn'[r] = conn[r]
    <2>1. closed \in [Subs -> BOOLEAN] /\ conn \in [Subs -> BOOLEAN]
      BY Zenon DEF Types
    <2>. QED  BY <1>1, <2>1, Zenon DEF Set
  <1>3. Types'
    BY <1>1, <1>2, Zenon DEF Types
  <1>4. \A r \in Subs \ {s} : Same(r)
    BY <1>1, <1>2, Zenon DEF Same, SameTask, SameTold, SameLine, SameEnds
  <1>5. UNCHANGED indexv /\ SameTask(s) /\ SameTold(s) /\ SameLine(s)
    BY <1>1, Zenon DEF SameTask, SameTold, SameLine
  <1>6. Bounds(s)'
    BY <1>inv, <1>1, <1>5, KeepBounds, Zenon
  <1>7. Wakes(s)'
    BY <1>inv, <1>5, KeepWakes, Zenon
  <1>8. Covers(s)'
    BY <1>inv, <1>1, <1>5, KeepCovers, Zenon DEF InLoop
  <1>9. Delivers(s)'
    BY <1>inv, <1>1, <1>2, Zenon DEF Delivers
  <1>. QED  BY <1>3, <1>4, <1>5, <1>6, <1>7, <1>8, <1>9, OneTask, Zenon

-----------------------------------------------------------------------------
(* Registrations. *)

Registrar(s) == pc[s] \in {"fence", "loop", "run", "exit"}

\* A step of one call or task that keeps the registrations.
LEMMA KeepsRegistered ==
    ASSUME Types, Registered, NEW s \in Subs, UNCHANGED <<alive, subscriptions>>,
           \A r \in Subs \ {s} : pc'[r] = pc[r],
           Registrar(s) => Registrar(s)',
           HoldsRoot(s)' => HoldsRoot(s) \/ alive
    PROVE  Registered'
  BY DEF Registered, NoGhost, Registrar, HoldsRoot

\* Every step keeps a registered name and the task behind it together.
LEMMA RegisteredStep ==
    ASSUME Types, Registered, [Next]_vars
    PROVE  Registered'
  <1>1. CASE UNCHANGED <<alive, subscriptions, pc>>
    BY <1>1, Zenon DEF Registered, NoGhost, HoldsRoot
  <1>2. CASE UNCHANGED vars
    BY <1>1, <1>2, Zenon DEF vars
  <1>3. ASSUME NEW c \in PathChange, Apply(c) PROVE Registered'
    BY <1>1, <1>3, Zenon DEF Apply, task
  <1>4. CASE Send
    BY <1>1, <1>4, Zenon DEF Send, task
  <1>5. CASE ClockBump
    BY <1>1, <1>5, Zenon DEF ClockBump, task
  <1>6. ASSUME NEW scan \in Scans, Recrawl(scan) PROVE Registered'
    BY <1>1, <1>6, Zenon DEF Recrawl, task
  <1>7. ASSUME NEW w \in 1..MaxTick, Prune(w) PROVE Registered'
    BY <1>1, <1>7, Zenon DEF Prune, task
  <1>8. CASE Drop
    BY <1>8, Zenon DEF Drop, Registered, NoGhost, HoldsRoot, task
  <1>9. ASSUME NEW n \in {Name[s] : s \in Subs}, Unsubscribe(n) PROVE Registered'
    BY <1>9, Zenon DEF Unsubscribe, Registered, NoGhost, HoldsRoot, task
  <1>10. ASSUME NEW s \in Subs, Respond(s) \/ Lagged(s) \/ Write(s) \/ WriterEnd(s) \/ Hangup(s)
         PROVE  Registered'
    BY <1>1, <1>10, Zenon DEF Respond, Lagged, Write, WriterEnd, Hangup, task
  <1>11. ASSUME NEW s \in Subs, Ask(s) PROVE Registered'
    BY <1>11, KeepsRegistered, Zenon DEF Ask, Set, Types, Places, Registrar, HoldsRoot
  <1>12. ASSUME NEW s \in Subs, Fence(s) PROVE Registered'
    BY <1>12, KeepsRegistered, Zenon DEF Fence, Set, Types, Places, Registrar, HoldsRoot
  <1>13. ASSUME NEW s \in Subs, Recv(s) PROVE Registered'
    BY <1>13, KeepsRegistered, Zenon DEF Recv, Set, Types, Places, Registrar, HoldsRoot
  <1>14. ASSUME NEW s \in Subs, Closed(s) PROVE Registered'
    BY <1>14, KeepsRegistered, Zenon DEF Closed, Set, Types, Places, Registrar, HoldsRoot
  <1>15. ASSUME NEW s \in Subs, Push(s) PROVE Registered'
    <2>1. /\ pc[s] = "run" /\ UNCHANGED <<alive, subscriptions>>
          /\ \E e \in {"loop", "exit"} : pc' = [pc EXCEPT ![s] = e]
      BY <1>15, Zenon DEF Push, Set
    <2>. QED  BY <2>1, KeepsRegistered, Zenon DEF Types, Places, Registrar, HoldsRoot
  <1>16. ASSUME NEW s \in Subs, Install(s) PROVE Registered'
    <2>1. /\ pc[s] = "install" /\ pc' = [pc EXCEPT ![s] = "fence"] /\ alive' = alive
          /\ subscriptions' = subscriptions \cup {Name[s]}
      BY <1>16, Zenon DEF Install, Set
    <2>2. alive
      BY <2>1, Zenon DEF Registered, HoldsRoot
    <2>. QED  BY <2>1, <2>2, Z3 DEF Types, Registered, NoGhost
  <1>17. ASSUME NEW s \in Subs, Exit(s) PROVE Registered'
    <2>1. /\ pc[s] = "exit" /\ pc' = [pc EXCEPT ![s] = "done"] /\ alive' = alive
          /\ subscriptions' = IF alive THEN subscriptions \ {Name[s]} ELSE subscriptions
      BY <1>17, Zenon DEF Exit, Set
    <2>. QED  BY <2>1, Z3 DEF Types, Registered, NoGhost, HoldsRoot
  <1>. QED
    BY <1>2, <1>3, <1>4, <1>5, <1>6, <1>7, <1>8, <1>9, <1>10, <1>11, <1>12, <1>13, <1>14,
       <1>15, <1>16, <1>17, Zenon DEF Next

-----------------------------------------------------------------------------
(* The index under the subscriptions, and the specification. *)

\* The clock's bump changes nothing else of a root.
LEMMA BumpOK ==
    ASSUME NEW r \in RootType
    PROVE  /\ bump(r) \in RootType /\ bump(r).ticks = r.ticks + 1
           /\ bump(r).tree = r.tree /\ bump(r).jj_events = r.jj_events
  BY Z3 DEF bump, RootState, RootType

\* With its tree as it was and its clock no earlier, the index is as good.
LEMMA SameTree ==
    ASSUME IndexInv, root' \in RootType, root'.tree = root.tree, ~root'.jj_events,
           root.ticks <= root'.ticks, UNCHANGED <<stamp, pruned, crawled>>
    PROVE  IndexInv'
  <1>1. root.ticks \in Nat /\ root'.ticks \in Nat
    BY RootFacts, Zenon DEF IndexInv
  <1>2. CountersExact(root'.tree)
    BY Zenon DEF IndexInv
  <1>3. \A p \in Paths : stamp'[p] <= root'.ticks
    BY <1>1, Z3 DEF IndexInv, Pdu
  <1>4. \A p \in Known(root'.tree) : root'.tree.entries[p].oclock \in 1..root'.ticks
    BY <1>1, Z3 DEF IndexInv, oclock
  <1>5. \A p \in Paths \ Excused' :
           stamp'[p] = IF contains(root'.tree, p) THEN root'.tree.entries[p].oclock ELSE 0
    BY Zenon DEF IndexInv, oclock, Excused
  <1>. QED  BY <1>2, <1>3, <1>4, <1>5, Zenon DEF IndexInv, oclock

\* A batch of the watcher.
LEMMA ApplyMoves ==
    ASSUME IndexInv, LogInv, NEW c \in PathChange, Apply(c)
    PROVE  IndexInv' /\ LogInv' /\ Moves
  <1>. DEFINE b == apply_begin(root, FALSE)
              tick == root.ticks + 1
  <1>1. root.ticks \in Nat /\ tick \in Nat
    BY RootFacts DEF IndexInv
  <1>2. b = bump(root)
    BY Zenon DEF IndexInv, apply_begin
  <1>3. /\ b \in RootType /\ CountersExact(b.tree) /\ ~b.jj_events
        /\ b.ticks = tick /\ b.tree = root.tree
    BY <1>2, BumpOK, Zenon DEF IndexInv
  <1>0. b \in RootType /\ CountersExact(b.tree) /\ tick \in Nat
    BY <1>1, <1>3, Zenon
  <1>. HIDE DEF b
  <1>4. root' = apply_one(b, tick, c)
    BY Zenon DEF Apply, b
  <1>5. /\ root' \in RootType /\ CountersExact(root'.tree)
        /\ root'.ticks = tick /\ ~root'.jj_events /\ c.path \in Paths
        /\ \A q \in Paths \ {c.path} : root'.tree.entries[q] = root.tree.entries[q]
        /\ IF Recorded(c)
           THEN contains(root'.tree, c.path) /\ root'.tree.entries[c.path].oclock = tick
           ELSE root'.tree = root.tree
    <2>. HIDE DEF tick
    <2>1. Changed(b, tick, c, root')
      BY <1>0, <1>4, ApplyOneOK, Zenon
    <2>. QED  BY <1>3, <2>1, Zenon DEF Changed, Recorded
  <1>6. unsent = 0 /\ unsent' = tick /\ log' = log
    BY Zenon DEF Apply
  <1>7. LogInv'
    <2>1. tick \in 0..tick /\ \A i \in 1..Len(log) : log[i] \in 1..tick /\ log[i] < tick
      BY <1>1, Z3 DEF LogInv
    <2>. HIDE DEF tick
    <2>. QED  BY <1>5, <1>6, <2>1, Zenon DEF LogInv
  <1>8. CASE Recorded(c)
    <2>1. /\ stamp' = [stamp EXCEPT ![c.path] = tick]
          /\ pruned' = pruned \ {c.path} /\ crawled' = crawled \ {c.path}
      BY <1>8, Zenon DEF Apply
    <2>2. stamp' \in Pdu /\ stamp'[c.path] = tick
          /\ \A q \in Paths \ {c.path} : stamp'[q] = stamp[q]
      BY <1>1, <1>5, <2>1, Zenon DEF IndexInv, Pdu
    <2>3. \A q \in Paths \ {c.path} :
             /\ contains(root'.tree, q) <=> contains(root.tree, q)
             /\ q \in Excused' <=> q \in Excused
      BY <1>5, <2>1, Zenon DEF contains, Excused
    <2>4. \A q \in Known(root'.tree) : root'.tree.entries[q].oclock \in 1..tick
      <3>1. tick \in 1..tick /\ \A n \in 1..root.ticks : n \in 1..tick
        BY <1>1, Z3
      <3>2. \A q \in Known(root.tree) : root.tree.entries[q].oclock \in 1..root.ticks
        BY Zenon DEF IndexInv, oclock
      <3>. HIDE DEF tick
      <3>. QED  BY <1>5, <1>8, <2>3, <3>1, <3>2, Zenon DEF Known
    <2>5. \A q \in Paths : stamp'[q] <= tick
      BY <1>1, <2>2, Z3 DEF IndexInv, Pdu
    <2>6. \A q \in Paths \ Excused' :
             stamp'[q] = IF contains(root'.tree, q) THEN root'.tree.entries[q].oclock ELSE 0
      BY <1>5, <1>8, <2>2, <2>3, Zenon DEF IndexInv, oclock
    <2>7. IndexInv'
      BY <1>5, <2>1, <2>2, <2>4, <2>5, <2>6, Zenon DEF IndexInv, oclock
    <2>8. Moves
      <3>1. root.ticks <= root'.ticks
        BY <1>1, <1>5, Z3
      <3>. QED  BY <1>5, <1>6, <1>8, <2>1, <2>2, <3>1, Zenon DEF Moves, Excused
    <2>. QED  BY <1>7, <2>7, <2>8, Zenon
  <1>9. CASE ~Recorded(c)
    <2>1. UNCHANGED <<stamp, pruned, crawled>> /\ root'.tree = root.tree
      BY <1>5, <1>9, Zenon DEF Apply
    <2>2. IndexInv'
      BY <1>1, <1>5, <2>1, SameTree
    <2>3. Moves
      <3>1. root.ticks <= root'.ticks
        BY <1>1, <1>5, Z3
      <3>. QED  BY <1>5, <1>6, <2>1, <3>1, Zenon DEF Moves, Excused
    <2>. QED  BY <1>7, <2>2, <2>3, Zenon
  <1>. QED  BY <1>8, <1>9, Zenon

\* Its TickEvent.
LEMMA SendMoves ==
    ASSUME IndexInv, LogInv, Send
    PROVE  IndexInv' /\ LogInv' /\ Moves
  <1>1. UNCHANGED <<root, stamp, pruned, crawled>>
    BY Zenon DEF Send, index
  <1>2. root.ticks \in Nat
    BY RootFacts, Zenon DEF IndexInv
  <1>3. IndexInv'
    BY <1>1, Zenon DEF IndexInv, Known, contains, oclock, Excused
  <1>4. /\ log \in Seq(Nat) /\ unsent \in Nat /\ unsent # 0
        /\ log' = Append(log, unsent) /\ unsent' = 0
    BY <1>2 DEF Send, LogInv
  <1>5. /\ log' \in Seq(Nat) /\ Len(log') = Len(log) + 1 /\ log'[Len(log) + 1] = unsent
        /\ \A i \in 1..Len(log) : log'[i] = log[i]
    BY <1>4
  <1>6. LogInv'
    BY <1>1, <1>2, <1>4, <1>5, Z3 DEF LogInv
  <1>7. Moves
    BY <1>1, <1>2, <1>4, Z3 DEF Moves, Excused
  <1>. QED  BY <1>3, <1>6, <1>7, Zenon

\* The clock command.
LEMMA BumpMoves ==
    ASSUME IndexInv, LogInv, ClockBump
    PROVE  IndexInv' /\ LogInv' /\ Moves
  <1>1. root.ticks \in Nat
    BY RootFacts, Zenon DEF IndexInv
  <1>2. /\ root' \in RootType /\ root'.ticks = root.ticks + 1
        /\ root'.tree = root.tree /\ ~root'.jj_events
        /\ UNCHANGED <<stamp, pruned, crawled, unsent, log>>
    BY BumpOK, Zenon DEF IndexInv, ClockBump
  <1>3. IndexInv'
    BY <1>1, <1>2, SameTree
  <1>4. LogInv'
    BY <1>1, <1>2, Z3 DEF LogInv
  <1>5. Moves
    BY <1>1, <1>2, Z3 DEF Moves, Excused
  <1>. QED  BY <1>3, <1>4, <1>5, Zenon

\* debug-recrawl excuses what it found before and after.
LEMMA RecrawlMoves ==
    ASSUME IndexInv, LogInv, NEW scan \in Scans, Recrawl(scan)
    PROVE  IndexInv' /\ LogInv' /\ Moves
  <1>1. root.ticks \in Nat /\ DOMAIN scan \subseteq Paths
    BY RootFacts, ScanFacts, Zenon DEF IndexInv
  <1>2. /\ root' \in RootType /\ CountersExact(root'.tree) /\ ~root'.jj_events
        /\ root'.ticks = root.ticks + 1
        /\ \A p \in Paths :
              /\ contains(root'.tree, p) <=> p \in DOMAIN scan
              /\ p \in DOMAIN scan => root'.tree.entries[p].oclock = root.ticks + 1
    <2>1. root \in RootType /\ ~root.jj_events /\ root' = seed(root, scan)
      BY Zenon DEF IndexInv, Recrawl
    <2>2. /\ root' \in RootType /\ CountersExact(root'.tree)
          /\ root'.ticks = root.ticks + 1 /\ root'.jj_events = root.jj_events
          /\ \A p \in Paths :
                /\ contains(root'.tree, p) <=> p \in DOMAIN scan
                /\ p \in DOMAIN scan => root'.tree.entries[p].oclock = root.ticks + 1
      BY <2>1, SeedOK, Zenon
    <2>. QED  BY <2>1, <2>2, Zenon
  <1>3. /\ stamp' = [p \in Paths |-> IF p \in DOMAIN scan THEN root.ticks + 1 ELSE stamp[p]]
        /\ pruned' = pruned \ DOMAIN scan
        /\ crawled' = crawled \cup Known(root.tree) \cup DOMAIN scan
        /\ UNCHANGED <<unsent, log>>
    BY Zenon DEF Recrawl
  <1>4. stamp' \in Pdu /\ \A p \in Paths : stamp'[p] <= root'.ticks
    BY <1>1, <1>2, <1>3, Z3 DEF IndexInv, Pdu
  <1>5. \A p \in Paths \ Excused' :
           /\ p \notin Excused /\ p \notin DOMAIN scan
           /\ ~contains(root.tree, p) /\ ~contains(root'.tree, p)
           /\ stamp'[p] = stamp[p]
    BY <1>2, <1>3, Zenon DEF Excused, Known
  <1>6. IndexInv'
    <2>1. \A p \in Known(root'.tree) : root'.tree.entries[p].oclock \in 1..root'.ticks
      <3>1. root.ticks + 1 \in 1..(root.ticks + 1)
        BY <1>1, Z3
      <3>. QED  BY <1>2, <3>1, Zenon DEF Known
    <2>2. pruned' \subseteq Paths /\ crawled' \subseteq Paths
      BY <1>1, <1>3, Zenon DEF IndexInv, Known
    <2>3. \A p \in Paths \ Excused' : stamp'[p] = 0
      BY <1>5, Zenon DEF IndexInv
    <2>. QED  BY <1>2, <1>4, <1>5, <2>1, <2>2, <2>3, Zenon DEF IndexInv, oclock
  <1>7. LogInv'
    <2>1. /\ \A n \in 0..root.ticks : n \in 0..(root.ticks + 1)
          /\ \A n \in 1..root.ticks : n \in 1..(root.ticks + 1)
      BY <1>1, Z3
    <2>. QED  BY <1>2, <1>3, <2>1, Zenon DEF LogInv
  <1>8. Moves
    <2>1. root.ticks <= root'.ticks
      BY <1>1, <1>2, Z3
    <2>2. \A p \in Paths \ Excused' : root'.tree.entries[p] = root.tree.entries[p]
      BY <1>5, Zenon DEF contains
    <2>3. \A p \in Paths \ crawled' : ~contains(root'.tree, p)
      BY <1>2, <1>3, Zenon
    <2>. QED  BY <1>3, <1>5, <2>1, <2>2, <2>3, Zenon DEF Moves
  <1>. QED  BY <1>6, <1>7, <1>8, Zenon

\* A sweep excuses what it drops.
LEMMA PruneMoves ==
    ASSUME IndexInv, LogInv, NEW w \in 1..MaxTick, Prune(w)
    PROVE  IndexInv' /\ LogInv' /\ Moves
  <1>1. root.ticks \in Nat /\ w \in Nat
    BY RootFacts, SubscriptionAssumption DEF IndexInv
  <1>2. /\ root' \in RootType /\ CountersExact(root'.tree) /\ ~root'.jj_events
        /\ root'.ticks = root.ticks
        /\ \A p \in Paths : IF p \in Prunable(root.tree, w)
                            THEN ~contains(root'.tree, p)
                            ELSE root'.tree.entries[p] = root.tree.entries[p]
    <2>1. root \in RootType /\ CountersExact(root.tree) /\ w \in Nat
          /\ root' = prune(root, w)
      BY <1>1, Zenon DEF IndexInv, Prune
    <2>2. Pruned(root, w, root')
      BY <2>1, PruneRootOK, Zenon
    <2>. QED  BY <2>2, Zenon DEF IndexInv, Pruned
  <1>3. pruned' = pruned \cup Prunable(root.tree, w) /\ Prunable(root.tree, w) \subseteq Paths
        /\ UNCHANGED <<stamp, crawled, unsent, log>>
    BY Zenon DEF Prune, Prunable, Tombs, Known
  <1>4. IndexInv'
    <2>1. /\ root' \in RootType /\ CountersExact(root'.tree) /\ ~root'.jj_events
          /\ stamp' \in Pdu /\ \A p \in Paths : stamp'[p] <= root'.ticks
          /\ pruned' \subseteq Paths /\ crawled' \subseteq Paths
      BY <1>2, <1>3, Zenon DEF IndexInv
    <2>2. \A p \in Paths : contains(root'.tree, p) =>
             contains(root.tree, p) /\ root'.tree.entries[p] = root.tree.entries[p]
      BY <1>2, Zenon DEF contains
    <2>3. \A p \in Known(root.tree)' : oclock(p)' \in 1..root'.ticks
      BY <1>2, <2>2, Zenon DEF IndexInv, Known, oclock
    <2>4. \A p \in Paths \ Excused' :
             stamp'[p] = IF contains(root'.tree, p) THEN oclock(p)' ELSE 0
      <3>. SUFFICES ASSUME NEW p \in Paths \ Excused'
                    PROVE  stamp'[p] = IF contains(root'.tree, p) THEN oclock(p)' ELSE 0
        OBVIOUS
      <3>1. p \in Paths \ Excused /\ p \notin Prunable(root.tree, w)
        BY <1>3, Zenon DEF Excused
      <3>2. stamp[p] = IF contains(root.tree, p) THEN oclock(p) ELSE 0
        BY <3>1, Zenon DEF IndexInv
      <3>3. root'.tree.entries[p] = root.tree.entries[p]
        BY <1>2, <3>1, Zenon
      <3>. QED  BY <1>3, <3>2, <3>3, Zenon DEF contains, oclock
    <2>. QED  BY <2>1, <2>3, <2>4, Zenon DEF IndexInv
  <1>5. LogInv'
    BY <1>1, <1>2, <1>3, Zenon DEF LogInv
  <1>6. Moves
    BY <1>1, <1>2, <1>3, Z3 DEF Moves, Excused
  <1>. QED  BY <1>4, <1>5, <1>6, Zenon

-----------------------------------------------------------------------------
(* The tasks and sessions. *)

-----------------------------------------------------------------------------
\* A root that was just crawled or promoted.
LEMMA InitIndex == Init => IndexInv
  <1>. SUFFICES ASSUME Init PROVE IndexInv
    OBVIOUS
  <1>1. PICK scan \in Scans : root \in {seed(RootNew(FALSE), scan),
                                        promote_to_full(seed(RootNew(TRUE), NoPaths), scan)}
    BY Zenon DEF Init
  <1>2. \A jj \in BOOLEAN : /\ RootNew(jj) \in RootType /\ RootNew(jj).ticks = 1
                            /\ RootNew(jj).jj_events = jj
    BY EmptyTreeOK, Zenon DEF RootNew, RootState, RootType
  <1>3. NoPaths \in Scans
    <2>1. NoPaths \in [{} -> Metas]
      BY Zenon DEF NoPaths
    <2>. QED  BY <2>1, Zenon DEF Scans
  <1>. DEFINE e == seed(RootNew(TRUE), NoPaths)
  <1>4. e \in RootType /\ e.ticks \in Nat /\ e.jj_events
    BY <1>2, <1>3, SeedOK, RootFacts, Zenon
  <1>5. /\ root \in RootType /\ CountersExact(root.tree) /\ ~root.jj_events
        /\ \E t \in Nat : root.ticks = t + 1
                          /\ \A p \in Paths : contains(root.tree, p)
                                              => root.tree.entries[p].oclock = t + 1
    <2>1. CASE root = seed(RootNew(FALSE), scan)
      <3>. DEFINE n == RootNew(FALSE)
      <3>1. n \in RootType
        BY EmptyTreeOK, Zenon DEF RootNew, RootState, RootType
      <3>2. n.ticks = 1 /\ ~n.jj_events
        BY Zenon DEF RootNew, RootState
      <3>3. root = seed(n, scan)
        BY <2>1, Zenon
      <3>. HIDE DEF n
      <3>4. /\ root \in RootType /\ CountersExact(root.tree)
            /\ root.ticks = n.ticks + 1 /\ root.jj_events = n.jj_events
            /\ \A p \in Paths : /\ contains(root.tree, p) <=> p \in DOMAIN scan
                                /\ p \in DOMAIN scan
                                   => root.tree.entries[p].oclock = n.ticks + 1
        BY <3>1, <3>3, SeedOK, Zenon
      <3>. QED  BY <3>2, <3>4, Zenon
    <2>2. CASE root = promote_to_full(e, scan)
      <3>. HIDE DEF e
      <3>1. /\ root \in RootType /\ CountersExact(root.tree)
            /\ root.ticks = e.ticks + 1 /\ root.jj_events = FALSE
            /\ \A p \in Paths : /\ contains(root.tree, p) <=> p \in DOMAIN scan
                                /\ p \in DOMAIN scan
                                   => root.tree.entries[p].oclock = e.ticks + 1
        <4>1. e \in RootType /\ e.jj_events /\ scan \in Scans /\ root = promote_to_full(e, scan)
          BY <1>4, <2>2, Zenon
        <4>2. Promoted(e, scan, root)
          BY <4>1, PromoteOK, Zenon
        <4>. QED  BY <4>2, Zenon DEF Promoted
      <3>. QED  BY <1>4, <3>1, Zenon
    <2>. QED  BY <1>1, <2>1, <2>2, Zenon
  <1>6. \A p \in Known(root.tree) : oclock(p) \in 1..root.ticks
    BY <1>5, Z3 DEF Known, oclock
  <1>7. root.ticks \in Nat
    BY <1>5
  <1>8. \A p \in Paths : stamp[p] = IF contains(root.tree, p) THEN oclock(p) ELSE 0
    BY Zenon DEF Init, pdu, Known, oclock
  <1>9. stamp \in Pdu /\ \A p \in Paths : stamp[p] <= root.ticks
    <2>1. stamp = [p \in Paths |-> IF p \in Known(root.tree) THEN oclock(p) ELSE 0]
      BY Zenon DEF Init, pdu, oclock
    <2>. HIDE DEF oclock
    <2>. QED  BY <1>6, <1>7, <2>1 DEF Pdu
  <1>. QED  BY <1>5, <1>6, <1>8, <1>9, Zenon DEF Init, IndexInv

\* A root with no subscription yet satisfies the invariant.
LEMMA InitInv == Init => Inv
  <1>. SUFFICES ASSUME Init PROVE Inv
    OBVIOUS
  <1>1. IndexInv
    BY InitIndex, Zenon
  <1>2. root.ticks \in Nat
    BY <1>1, RootFacts, Zenon DEF IndexInv
  <1>3. LogInv
    BY <1>2, Z3 DEF Init, LogInv
  <1>4. NoPdu \in Pdu /\ \A p \in Paths : NoPdu[p] = 0
    BY Zenon DEF NoPdu, Pdu
  <1>5. Types
    <2>1. 0 \in Nat /\ <<>> \in Seq(Pdu)
      BY Z3
    <2>. QED  BY <1>4, <2>1, Zenon DEF Init, Types, Places
  <1>6. Registered
    BY Zenon DEF Init, Registered, NoGhost
  <1>7. ASSUME NEW s \in Subs PROVE TaskInv(s)
    <2>1. Bounds(s)
      <3>1. 0 <= root.ticks /\ 0 <= Len(<<>>) + 1 /\ \A i \in 1..Len(<<>>) : FALSE
        BY <1>2, Z3
      <3>2. /\ next[s] = 0 /\ ev[s] = 0 /\ last[s] = 0 /\ asked[s] = 0 /\ start[s] = 0
            /\ initial[s] = NoPdu /\ told[s] = NoPdu /\ view[s] = NoPdu
            /\ queue[s] = <<>> /\ log = <<>>
        BY Zenon DEF Init
      <3>. QED  BY <1>4, <3>1, <3>2, Zenon DEF Bounds
    <2>2. Wakes(s) /\ Covers(s) /\ Delivers(s)
      BY Zenon DEF Init, Wakes, Covers, Delivers, InLoop
    <2>. QED  BY <2>1, <2>2, Zenon DEF TaskInv
  <1>. QED  BY <1>1, <1>3, <1>5, <1>6, <1>7, Zenon DEF Inv

\* Every step keeps the invariant.
LEMMA NextInv == Inv /\ [Next]_vars => Inv'
  <1>. SUFFICES ASSUME Inv, [Next]_vars PROVE Inv'
    OBVIOUS
  <1>. USE DEF Inv
  <1>1. Registered'
    BY RegisteredStep, Zenon
  <1>2. ASSUME IndexInv', LogInv', Moves, UNCHANGED <<alive, task, session>> PROVE Inv'
    <2>1. Types'
      BY <1>2, Zenon DEF Types, task, session
    <2>. QED  BY <1>1, <1>2, <2>1, MovedTask, Zenon
  <1>3. ASSUME UNCHANGED indexv, Types', \A s \in Subs : TaskInv(s)' PROVE Inv'
    <2>1. IndexInv'
      BY <1>3, Zenon DEF IndexInv, Known, contains, oclock, Excused, indexv
    <2>2. LogInv'
      BY <1>3, Zenon DEF LogInv, indexv
    <2>. QED  BY <1>1, <1>3, <2>1, <2>2, Zenon
  <1>4. ASSUME UNCHANGED <<indexv, task, session>>, alive' \in BOOLEAN PROVE Inv'
    <2>1. Types'
      BY <1>4, Zenon DEF Types, task, session
    <2>2. \A s \in Subs : Same(s)
      BY <1>4, Zenon DEF Same, SameTask, SameTold, SameLine, SameEnds, task, session
    <2>. QED  BY <1>3, <1>4, <2>1, <2>2, KeepTask, Zenon
  <1>5. CASE UNCHANGED vars
    BY <1>4, <1>5, Zenon DEF vars, indexv, task, session, Types
  <1>6. ASSUME NEW c \in PathChange, Apply(c) PROVE Inv'
    BY <1>2, <1>6, ApplyMoves, Zenon DEF Apply
  <1>7. CASE Send
    BY <1>2, <1>7, SendMoves, Zenon DEF Send
  <1>8. CASE ClockBump
    BY <1>2, <1>8, BumpMoves, Zenon DEF ClockBump
  <1>9. ASSUME NEW scan \in Scans, Recrawl(scan) PROVE Inv'
    BY <1>2, <1>9, RecrawlMoves, Zenon DEF Recrawl
  <1>10. ASSUME NEW w \in 1..MaxTick, Prune(w) PROVE Inv'
    BY <1>2, <1>10, PruneMoves, Zenon DEF Prune
  <1>11. CASE Drop
    BY <1>4, <1>11, Zenon DEF Drop, index, indexv
  <1>12. ASSUME NEW n \in {Name[s] : s \in Subs}, Unsubscribe(n) PROVE Inv'
    BY <1>4, <1>12, Zenon DEF Unsubscribe, index, indexv, Types
  <1>13. ASSUME NEW s \in Subs, Ask(s) PROVE Inv'
    BY <1>3, <1>13, AskOK, Zenon DEF Ask, index, indexv
  <1>14. ASSUME NEW s \in Subs, Install(s) PROVE Inv'
    BY <1>3, <1>14, InstallOK, Zenon DEF Install, index, indexv
  <1>15. ASSUME NEW s \in Subs, Fence(s) PROVE Inv'
    BY <1>3, <1>15, FenceOK, Zenon DEF Fence, index, indexv
  <1>16. ASSUME NEW s \in Subs, Respond(s) PROVE Inv'
    BY <1>3, <1>16, RespondOK, Zenon DEF Respond, index, indexv
  <1>17. ASSUME NEW s \in Subs, Lagged(s) PROVE Inv'
    BY <1>3, <1>17, LaggedOK, Zenon DEF Lagged, index, indexv
  <1>18. ASSUME NEW s \in Subs, Recv(s) PROVE Inv'
    BY <1>3, <1>18, RecvOK, Zenon DEF Recv, index, indexv
  <1>19. ASSUME NEW s \in Subs, Closed(s) \/ Exit(s) PROVE Inv'
    BY <1>3, <1>19, EndOK, Zenon DEF Closed, Exit, index, indexv
  <1>20. ASSUME NEW s \in Subs, Push(s) PROVE Inv'
    BY <1>3, <1>20, PushOK, Zenon DEF Push, index, indexv
  <1>21. ASSUME NEW s \in Subs, Write(s) PROVE Inv'
    BY <1>3, <1>21, WriteOK, Zenon DEF Write, index, indexv
  <1>22. ASSUME NEW s \in Subs, WriterEnd(s) \/ Hangup(s) PROVE Inv'
    BY <1>3, <1>22, HangupOK, Zenon DEF WriterEnd, Hangup, index, indexv
  <1>. QED
    BY <1>5, <1>6, <1>7, <1>8, <1>9, <1>10, <1>11, <1>12, <1>13, <1>14, <1>15, <1>16, <1>17,
       <1>18, <1>19, <1>20, <1>21, <1>22, Zenon DEF Next

\* The invariant holds in every reachable state.
LEMMA SpecInv == Spec => []Inv
  BY InitInv, NextInv, PTL DEF Spec

-----------------------------------------------------------------------------
\* The wakeup a task still needs, in any state of the invariant.
LEMMA InvWakes == Inv => NoLostWakeup
  <1>. SUFFICES ASSUME Inv, NEW s \in Subs, NEW p \in Paths \ crawled, Serving(s),
                       Newer(p, last[s]), pc[s] # "run"
                PROVE  \/ unsent > last[s]
                       \/ \E i \in next[s]..Len(log) : i >= Oldest /\ log[i] > last[s]
    BY Zenon DEF NoLostWakeup
  <1>1. /\ Len(log) \in Nat /\ next[s] \in Nat /\ last[s] \in Nat
        /\ next[s] <= Len(log) + 1 /\ Capacity \in Nat /\ Capacity > 0
        /\ oclock(p) \in Nat /\ oclock(p) > last[s]
    <2>1. IndexInv /\ LogInv /\ Types /\ Bounds(s)
      BY Zenon DEF Inv, TaskInv
    <2>2. /\ Len(log) \in Nat /\ next[s] \in Nat /\ last[s] \in Nat
          /\ \A q \in Known(root.tree) : oclock(q) \in 1..root.ticks
          /\ root.ticks \in Nat
      BY <2>1, TaskFacts, Zenon
    <2>3. p \in Known(root.tree) /\ oclock(p) > last[s]
      BY Zenon DEF Newer, Known, oclock
    <2>4. next[s] <= Len(log) + 1
      BY <2>1, Zenon DEF Bounds
    <2>5. oclock(p) \in 1..root.ticks
      BY <2>2, <2>3, Zenon
    <2>6. oclock(p) \in Nat
      BY <2>2, <2>5, Z3
    <2>7. Capacity \in Nat /\ Capacity > 0
      BY SubscriptionAssumption, Z3
    <2>. QED  BY <2>2, <2>3, <2>4, <2>6, <2>7, Zenon
  <1>2. CASE oclock(p) = unsent
    BY <1>1, <1>2, Zenon
  <1>3. ASSUME NEW i \in 1..Len(log), log[i] = oclock(p)
        PROVE  \E h \in next[s]..Len(log) : h >= Oldest /\ log[h] > last[s]
    <2>1. next[s] # Len(log) + 1
      <3>1. ~(log[i] <= last[s])
        BY <1>1, <1>3, Z3
      <3>. QED  BY <1>3, <3>1, Zenon DEF Inv, TaskInv, Wakes, InLoop, Serving
    <2>2. Len(log) \in 1..Len(log) /\ Len(log) \in next[s]..Len(log) /\ Len(log) >= Oldest
      BY <1>1, <1>3, <2>1, Z3 DEF Oldest
    <2>3. log[i] <= log[Len(log)] /\ log[Len(log)] \in Nat
      <3>1. log \in Seq(Nat) /\ \A h, k \in 1..Len(log) : h < k => log[h] < log[k]
        BY <1>1, Zenon DEF Inv, LogInv
      <3>. QED  BY <1>3, <2>2, <3>1, Z3
    <2>4. log[Len(log)] > last[s]
      BY <1>1, <1>3, <2>3, Z3
    <2>. QED  BY <2>2, <2>4, Zenon
  <1>4. oclock(p) = unsent \/ \E i \in 1..Len(log) : log[i] = oclock(p)
    BY Zenon DEF Inv, TaskInv, Wakes, InLoop, Serving
  <1>. QED  BY <1>2, <1>3, <1>4, Zenon

\* No wakeup is lost: for any paths, tasks and capacity of the tick broadcast,
\* whatever a push loop has not served it will be woken for, also after it
\* lagged (run_push_loop; Root::apply_changes sends after it has recorded).
THEOREM WakeupsKept == Spec => []NoLostWakeup
  BY SpecInv, InvWakes, PTL

\* A change after the fence was queued, or the next query of the push loop
\* finds it (run_push_loop's `last_tick = ev.tick`).
THEOREM PushesCover == Spec => []PushCovers
  <1>1. Inv => PushCovers
    BY Zenon DEF Inv, TaskInv, Covers, PushCovers, Serving, InLoop
  <1>. QED  BY <1>1, SpecInv, PTL

\* A client that reads its PDUs in order has the latest version of every path
\* once nothing is under way: end to end, from the index through broadcast,
\* push task, session queue and writer task (subscribe.rs, session.rs).
THEOREM MirrorIsExact == Spec => []ClientMirror
  <1>1. ASSUME Inv, NEW s \in Subs, NEW p \in Paths \ Excused,
               alive, Quiet(s), conn[s], ~closed[s], ~overtaken[s],
               stamp[p] \notin asked[s] + 1 .. start[s]
        PROVE  view[s][p] = stamp[p]
    <2>1. /\ asked[s] \in Nat /\ start[s] \in Nat /\ stamp[p] \in Nat
          /\ next[s] \in Nat /\ Len(log) \in Nat /\ last[s] \in Nat
      BY <1>1, TaskFacts, Z3 DEF Inv
    <2>2. Serving(s) /\ InLoop(s) /\ pc[s] = "loop"
      BY <1>1, Zenon DEF Serving, InLoop, Quiet
    <2>3. ~Newer(p, last[s])
      <3>1. ~(unsent > last[s])
        BY <1>1, <2>1, Z3 DEF Quiet
      <3>2. next[s]..Len(log) = {}
        BY <1>1, <2>1 DEF Quiet
      <3>3. NoLostWakeup
        BY <1>1, InvWakes, Zenon
      <3>4. p \in Paths \ crawled /\ pc[s] # "run"
        BY <2>2, Zenon DEF Excused
      <3>. QED  BY <2>2, <3>1, <3>2, <3>3, <3>4, Zenon DEF NoLostWakeup
    <2>4. told[s][p] = stamp[p]
      <3>1. stamp[p] <= asked[s] \/ stamp[p] > start[s]
        BY <1>1, <2>1, Z3
      <3>. QED  BY <1>1, <2>2, <2>3, <3>1, Zenon DEF Inv, TaskInv, Covers
    <2>5. Reads(view[s], queue[s], p, told[s][p])
      BY <1>1, Zenon DEF Inv, TaskInv, Delivers, Quiet
    <2>6. 1..Len(queue[s]) = {}
      <3>1. queue[s] = <<>>
        BY <1>1, Zenon DEF Quiet
      <3>. QED  BY <3>1
    <2>. QED  BY <2>4, <2>5, <2>6, Zenon DEF Reads
  <1>2. Inv => ClientMirror
    BY <1>1, Zenon DEF ClientMirror
  <1>. QED  BY <1>2, SpecInv, PTL

\* A registered name has a push task, or a call about to start one, behind it.
THEOREM NoGhostListed == Spec => []NoGhost
  <1>1. Inv => NoGhost
    BY Zenon DEF Inv, Registered
  <1>. QED  BY <1>1, SpecInv, PTL

\* No push loop waits past the end of the channel, reports or was told a tick
\* the clock has not reached, and the root stays full (subscribe.rs).
THEOREM SubscriptionTypes == Spec => []TypeOK
  <1>1. ASSUME Inv PROVE TypeOK
    <2>1. root.ticks \in Nat /\ Len(log) \in Nat /\ DOMAIN log = 1..Len(log)
      BY <1>1, RootFacts, Z3 DEF Inv, IndexInv, LogInv
    <2>2. ASSUME NEW s \in Subs
          PROVE  /\ pc[s] \in {"off", "install", "fence", "loop", "run", "exit", "done"}
                 /\ next[s] \in 0..Len(log) + 1
                 /\ {ev[s], last[s], asked[s], start[s]} \subseteq 0..root.ticks
                 /\ response[s] \in {"none", "due", "sent"}
                 /\ {initial[s], told[s], view[s]} \subseteq [Paths -> 0..root.ticks]
                 /\ \A i \in DOMAIN queue[s] : queue[s][i] \in [Paths -> 0..root.ticks]
                 /\ {conn[s], closed[s], overtaken[s]} \subseteq BOOLEAN
      <3>0. Bounds(s)
        BY <1>1, Zenon DEF Inv, TaskInv
      <3>1. /\ {initial[s], told[s], view[s]} \subseteq Pdu /\ queue[s] \in Seq(Pdu)
            /\ next[s] \in Nat /\ {ev[s], last[s], asked[s], start[s]} \subseteq Nat
        BY <1>1, TaskFacts, Zenon DEF Inv
      <3>2. \A f \in Pdu : (\A p \in Paths : f[p] <= root.ticks) => f \in [Paths -> 0..root.ticks]
        BY <2>1 DEF Pdu
      <3>3. {initial[s], told[s], view[s]} \subseteq [Paths -> 0..root.ticks]
        BY <3>0, <3>1, <3>2, Zenon DEF Bounds
      <3>4. \A i \in DOMAIN queue[s] : queue[s][i] \in [Paths -> 0..root.ticks]
        <4>1. DOMAIN queue[s] = 1..Len(queue[s]) /\ \A i \in 1..Len(queue[s]) : queue[s][i] \in Pdu
          BY <3>1
        <4>. QED  BY <3>0, <3>2, <4>1, Zenon DEF Bounds
      <3>5. /\ next[s] \in 0..Len(log) + 1
            /\ {ev[s], last[s], asked[s], start[s]} \subseteq 0..root.ticks
        BY <2>1, <3>1, <3>0, Z3 DEF Bounds
      <3>6. /\ pc[s] \in {"off", "install", "fence", "loop", "run", "exit", "done"}
            /\ response[s] \in {"none", "due", "sent"}
            /\ {conn[s], closed[s], overtaken[s]} \subseteq BOOLEAN
        BY <1>1, Zenon DEF Inv, Types, Places
      <3>. QED  BY <3>3, <3>4, <3>5, <3>6, Zenon
    <2>3. alive \in BOOLEAN
      BY <1>1, Zenon DEF Inv, Types
    <2>. QED  BY <1>1, <2>1, <2>2, <2>3, Zenon DEF TypeOK, Inv, IndexInv, LogInv, Registered
  <1>. QED  BY <1>1, SpecInv, PTL
=============================================================================
