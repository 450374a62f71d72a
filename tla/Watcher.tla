------------------------------- MODULE Watcher -------------------------------
(***************************************************************************)
(* From the disk to the index (daemon/watcher.rs, daemon/jj_scope.rs and   *)
(* the scanning halves of register_root, promote_to_full and               *)
(* debug-recrawl).  The file system changes at any moment, the kernel      *)
(* queues an event per change once the watch is attached and may overflow, *)
(* the event loop takes batches, stats the paths and applies the batch,    *)
(* and crawls read the disk one path at a time.  A client holds a clock    *)
(* and what it last learned of every path.                                 *)
(*                                                                         *)
(* In a jj root a directory can be ignored by the root's .gitignore; Dir   *)
(* holds the paths inside it (and the directory itself, DirPath), and      *)
(* changes there collapse into a signal on the path DirSignal.             *)
(***************************************************************************)
EXTENDS Root, Sequences

CONSTANTS Dir, DirPath, DirSignal,  \* an ignorable directory, or {}, NoPath, NoPath
          GitIgnore,                \* the root's .gitignore, or NoPath
          NoPath,
          Ignoring,      \* the content of GitIgnore whose rules ignore the directory
          Read,          \* paths that are also opened and read
          Worlds,        \* the roots looked at, told apart by their paths: may it be
                         \* a jj root, the commands clients give, a bound on its clock
          MaxQueue       \* the kernel's event queue

ASSUME WatcherAssumption ==
    /\ Dir \subseteq Paths /\ (Dir # {} => DirSignal \in Paths)
    /\ MaxQueue \in Nat \ {0}
    /\ \A w \in Worlds :
          /\ w.paths \subseteq Paths \ {DirSignal} /\ w.modes \subseteq BOOLEAN
          /\ w.crawls \subseteq {"promote", "recrawl"} /\ w.ticks \in Nat
          /\ \A v \in Worlds : v.paths = w.paths => v = w

VARIABLES
    disk,      \* what symlink_metadata returns, NoMeta if the path is absent
    attached,  \* the kernel watch is registered
    queue,     \* events between the kernel and the event loop
    root,
    wpc,       \* the event loop: wait, collect, apply
    events,    \* the events of its batch still to collect
    jj_mode,   \* is_jj_events() as read under mode_transition
    out,       \* the batch, as far as it is not applied
    scope,     \* JjScope's cache of the root's .gitignore: cold or its content
    op,        \* the crawl under way: register, promote, recrawl or none
    todo, got, \* paths it has still to stat, what it found
    seen, clk, \* a client: what it knows of each path, and its clock (0: none)
    \* history, for the properties only
    gap,       \* changed between the scan that registers and the watch
    dropped,   \* changes the kernel dropped
    raced,     \* changed behind the back of a recrawl
    crawled    \* known to the index a recrawl replaced, and not found by it

loop == <<wpc, events, jj_mode, out, scope>>
crawl == <<op, todo, got>>
client == <<seen, clk>>
history == <<gap, dropped, raced, crawled>>
vars == <<disk, attached, queue, root, wpc, events, jj_mode, out, scope, op, todo, got,
          seen, clk, gap, dropped, raced, crawled>>

World == CHOOSE w \in Worlds : w.paths = DOMAIN disk
CanBump == root.ticks < World.ticks

\* Root::tree is free: promote_to_full holds it for its whole crawl, and
\* apply_changes for its whole batch.
Unlocked == op # "promote" /\ wpc # "apply"
Registered == op # "register"

NoPaths == [p \in {} |-> NoMeta]

-----------------------------------------------------------------------------
Init ==
    /\ \E w \in Worlds :
          /\ disk \in [w.paths -> Metas \cup {NoMeta}]
          /\ \E jj \in w.modes : root = RootNew(jj)
    /\ \A p \in Dir \cap DOMAIN disk : disk[p] # NoMeta => disk[DirPath] # NoMeta
    /\ attached = FALSE
    /\ queue = <<>>
    /\ op = "register"
    /\ todo = IF root.jj_events THEN {} ELSE DOMAIN disk
    /\ got = NoPaths
    /\ wpc = "wait" /\ events = <<>> /\ jj_mode = FALSE /\ out = <<>> /\ scope = "cold"
    /\ seen = [p \in DOMAIN disk |-> NoMeta] /\ clk = 0
    /\ gap = {} /\ dropped = {} /\ raced = {} /\ crawled = {}

(* The file system and the kernel (external). *)
Overflowing == Len(queue) >= MaxQueue
Queue(e) ==
    queue' = IF ~attached THEN queue
             ELSE IF ~Overflowing THEN Append(queue, e)
             ELSE IF queue[Len(queue)].kind = "Rescan" THEN queue
             ELSE Append(queue, [kind |-> "Rescan"])

\* The root has a full index or may be promoted to one: a dropped change then
\* counts, since a removal queued before it may be applied after the promotion.
MayBeFull == ~root.jj_events \/ "promote" \in World.crawls

Fs(p, md) ==
    /\ disk[p] # md
    /\ p = DirPath /\ md = NoMeta => \A q \in Dir \ {p} : disk[q] = NoMeta
    /\ p \in Dir \ {DirPath} /\ DirPath # NoPath => disk[DirPath] # NoMeta
    /\ disk' = [disk EXCEPT ![p] = md]
    /\ Queue([kind |-> IF md = NoMeta THEN "Remove" ELSE "Change", path |-> p])
    /\ gap' = IF attached \/ root.jj_events THEN gap \ {p} ELSE gap \cup {p}
    /\ dropped' = IF attached /\ Overflowing /\ MayBeFull THEN dropped \cup {p}
                  ELSE dropped \ {p}
    /\ raced' = IF op = "recrawl" /\ p \notin todo THEN raced \cup {p} ELSE raced \ {p}
    /\ UNCHANGED <<attached, root, loop, crawl, client, crawled>>

\* A file is opened and read.
Access(p) ==
    /\ p \in Read /\ disk[p] # NoMeta
    /\ attached /\ ~Overflowing
    /\ Queue([kind |-> "Access", path |-> p])
    /\ UNCHANGED <<disk, attached, root, loop, crawl, client, history>>

-----------------------------------------------------------------------------
(* A crawl: initial_scan and walk, one symlink_metadata at a time. *)
Stat(p) ==
    /\ p \in todo
    /\ todo' = todo \ {p}
    /\ got' = IF disk[p] = NoMeta THEN got
              ELSE [q \in DOMAIN got \cup {p} |-> IF q = p THEN disk[p] ELSE got[q]]
    /\ UNCHANGED <<disk, attached, queue, root, loop, op, client, history>>

Scanned == todo = {}
EndCrawl == op' = "none" /\ todo' = {} /\ got' = NoPaths

\* register_root: the index is seeded, then watcher::spawn returns once the
\* watch is attached, then the root can be found.
Seed ==
    /\ op = "register" /\ Scanned /\ root.ticks = 1
    /\ root' = seed(root, got)
    /\ UNCHANGED <<disk, attached, queue, loop, crawl, client, history>>

Attach ==
    /\ op = "register" /\ root.ticks > 1
    /\ attached' = TRUE
    /\ EndCrawl
    /\ UNCHANGED <<disk, queue, root, loop, client, history>>

\* promote_to_full takes mode_transition.write(), then the tree.
PromoteBegin ==
    /\ "promote" \in World.crawls
    /\ op = "none" /\ wpc = "wait"
    /\ root.jj_events
    /\ op' = "promote" /\ todo' = DOMAIN disk /\ got' = NoPaths
    /\ UNCHANGED <<disk, attached, queue, root, loop, client, history>>

PromoteEnd ==
    /\ op = "promote" /\ Scanned
    /\ root' = promote_to_full(root, got)
    /\ EndCrawl
    /\ UNCHANGED <<disk, attached, queue, loop, client, history>>

\* debug-recrawl: the scan of a full index holds no lock.
RecrawlBegin ==
    /\ "recrawl" \in World.crawls
    /\ op = "none"
    /\ ~root.jj_events
    /\ op' = "recrawl" /\ todo' = DOMAIN disk /\ got' = NoPaths
    /\ UNCHANGED <<disk, attached, queue, root, loop, client, history>>

RecrawlEnd ==
    /\ op = "recrawl" /\ Scanned
    /\ Unlocked /\ CanBump
    /\ root' = seed(root, got)
    /\ crawled' = (crawled \cup Known(root.tree)) \ DOMAIN got
    /\ EndCrawl
    /\ UNCHANGED <<disk, attached, queue, loop, client, gap, dropped, raced>>

\* debug-recrawl of a jj root, and debug-fsevents-inject-drop.
Invalidate ==
    /\ "recrawl" \in World.crawls
    /\ op = "none" /\ Unlocked
    /\ root.jj_events /\ CanBump
    /\ root' = invalidate_jj_events(root)
    /\ UNCHANGED <<disk, attached, queue, loop, crawl, client, history>>

-----------------------------------------------------------------------------
(* The event loop. *)

\* Mutant: mode_transition is not taken, so a batch can slip under a promotion.
Take_NoModeLock(n) ==
    /\ wpc = "wait"
    /\ Registered
    /\ n \in 1..Len(queue)
    /\ events' = SubSeq(queue, 1, n)
    /\ queue' = SubSeq(queue, n + 1, Len(queue))
    /\ jj_mode' = root.jj_events
    /\ wpc' = "collect"
    /\ UNCHANGED <<disk, attached, root, out, scope, crawl, client, history>>

\* A batch of 1 to MAX_BATCH events, then mode_transition.read().
Take(n) ==
    /\ wpc = "wait"
    /\ Registered /\ op # "promote"
    /\ n \in 1..Len(queue)
    /\ events' = SubSeq(queue, 1, n)
    /\ queue' = SubSeq(queue, n + 1, Len(queue))
    /\ jj_mode' = root.jj_events
    /\ wpc' = "collect"
    /\ UNCHANGED <<disk, attached, root, out, scope, crawl, client, history>>

Change(o, p) == [op |-> o, path |-> p]
Upsert(p) == [op |-> "Upsert", path |-> p, meta |-> disk[p]]
ChangeOf(e) == IF e.kind = "Remove" \/ disk[e.path] = NoMeta
               THEN Change("Remove", e.path) ELSE Upsert(e.path)

\* JjScope::ignored_directory for a path in Dir, with the rules it reads or
\* has cached.
Rules == IF scope # "cold" THEN scope
         ELSE IF GitIgnore \in DOMAIN disk THEN disk[GitIgnore] ELSE NoMeta
InIgnorable(e) ==
    /\ e.path \in Dir
    /\ e.path = DirPath => disk[DirPath] # NoMeta \/ e.kind = "Remove"

\* Mutant: a .gitignore edit empties the batch and the cache, not the index.
collect_jj_KeepsIndex(e) ==
    /\ UNCHANGED root
    /\ IF InIgnorable(e) /\ Rules = Ignoring
       THEN out' = Append(out, Change("Signal", DirSignal)) /\ scope' = Rules
       ELSE IF e.path = GitIgnore
       THEN out' = <<>> /\ scope' = "cold"
       ELSE /\ out' = Append(out, ChangeOf(e))
            /\ scope' = IF InIgnorable(e) THEN Rules ELSE scope

\* collect_event for a path of a jj root.
collect_jj(e) ==
    LET collapse == InIgnorable(e) /\ Rules = Ignoring
        drop_gone == e.path = DirPath /\ e.kind = "Remove"
    IN  IF collapse
        THEN /\ out' = Append(IF drop_gone THEN Append(out, Change("Remove", e.path)) ELSE out,
                              Change("Signal", DirSignal))
             /\ scope' = Rules
             /\ UNCHANGED root
        ELSE IF e.path = GitIgnore
        THEN /\ CanBump
             /\ scope' = "cold"
             /\ root' = invalidate_jj_events(root)
             /\ out' = <<>>
        ELSE /\ out' = Append(out, ChangeOf(e))
             /\ scope' = IF InIgnorable(e) THEN Rules ELSE scope
             /\ UNCHANGED root

\* collect_event, for an error, a rescan, an access and a change.
collect_event(e) ==
    IF e.kind = "Rescan"
    THEN IF root.jj_events
         THEN CanBump /\ root' = invalidate_jj_events(root) /\ scope' = "cold" /\ out' = <<>>
         ELSE UNCHANGED <<root, scope, out>>
    ELSE IF e.kind = "Access"
    THEN UNCHANGED <<root, scope, out>>
    ELSE IF jj_mode
    THEN collect_jj(e)
    ELSE /\ out' = Append(out, ChangeOf(e))
         /\ UNCHANGED <<root, scope>>

Collect ==
    /\ wpc = "collect"
    /\ events # <<>>
    /\ collect_event(Head(events))
    /\ events' = Tail(events)
    /\ UNCHANGED <<disk, attached, queue, wpc, jj_mode, crawl, client, history>>

\* apply_changes: it takes the tree and the next tick, applies the changes one
\* by one and lets go of the tree; the loop then lets go of mode_transition.
Apply ==
    /\ wpc = "collect" /\ events = <<>>
    /\ IF out = <<>>
       THEN wpc' = "wait" /\ UNCHANGED root
       ELSE CanBump /\ root' = apply_begin(root, FALSE) /\ wpc' = "apply"
    /\ UNCHANGED <<disk, attached, queue, events, jj_mode, out, scope, crawl, client, history>>

ApplyOne ==
    /\ wpc = "apply"
    /\ root' = apply_one(root, root.ticks, Head(out))
    /\ crawled' = crawled \ Known(root'.tree)
    /\ out' = Tail(out)
    /\ wpc' = IF Tail(out) = <<>> THEN "wait" ELSE "apply"
    /\ UNCHANGED <<disk, attached, queue, events, jj_mode, scope, crawl, client,
                   gap, dropped, raced>>

-----------------------------------------------------------------------------
\* What the index says of a path.
Indexed(p) == IF p \in Live(root.tree) THEN root.tree.entries[p].meta ELSE NoMeta

\* The files of an answer, with the directory a signal stands for.
Listed(a) == a.files \cup (IF DirSignal \in a.files THEN Dir ELSE {})

(* A client asks for what changed since its clock.  From an event index it  *)
(* learns which paths to look at, from a full one what they are.            *)
Query ==
    /\ Registered /\ Unlocked
    /\ LET a == answer(root, IF clk = 0 THEN None ELSE Tick(clk), 0, FALSE)
           news(p) == IF root.jj_events THEN disk[p] ELSE Indexed(p)
       IN  /\ seen' = [p \in DOMAIN disk |-> IF a.fresh \/ p \in Listed(a)
                                             THEN news(p) ELSE seen[p]]
           /\ clk' = a.clock
    /\ UNCHANGED <<disk, attached, queue, root, loop, crawl, history>>

Next ==
    \/ \E p \in DOMAIN disk, md \in Metas \cup {NoMeta} : Fs(p, md)
    \/ \E p \in DOMAIN disk : Access(p)
    \/ \E p \in DOMAIN disk : Stat(p)
    \/ Seed \/ Attach
    \/ PromoteBegin \/ PromoteEnd
    \/ RecrawlBegin \/ RecrawlEnd
    \/ Invalidate
    \/ \E n \in 1..MaxQueue + 1 : Take(n)
    \/ Collect \/ Apply \/ ApplyOne
    \/ Query

Spec == Init /\ [][Next]_vars

-----------------------------------------------------------------------------
\* Every event has been applied and no crawl is under way.
Settled == attached /\ queue = <<>> /\ wpc = "wait" /\ op = "none"

\* A full index that has settled is the disk: the events that raced with the
\* crawl of a promotion, the stats that raced with the changes, removals seen
\* late and batches cut anywhere leave no path behind.  The exceptions are
\* what the kernel dropped, what changed between the first scan and the watch,
\* and what a recrawl overwrote.
IndexMatchesDisk ==
    Settled /\ ~root.jj_events =>
        \A p \in DOMAIN disk \ (gap \cup dropped \cup raced) : Indexed(p) = disk[p]

Tells(a, p) == a.fresh \/ p \in Listed(a)
ClientOk(lost) ==
    Settled /\ clk > 0 =>
        \A p \in DOMAIN disk \ lost :
            seen[p] = disk[p] \/ Tells(answer(root, Tick(clk), 0, FALSE), p)

\* jj never trusts a stale path: once a jj root has settled, each path that
\* is not as the client last saw it is listed (itself or through its ignored
\* directory's signal) since the client's clock, or the client is told to scan
\* afresh.  Lost events, .gitignore edits in the middle of a batch, cached
\* rules and a full index do not break it (README.md: "Editing a .gitignore,
\* losing filesystem events, or exhausting the bounded event index tells jj to
\* do a fresh scan").
JjClientCoherent == root.jj_events => ClientOk({})

\* The same of a full index, with its exceptions: a client's clock from before
\* a promotion, or from before any batch, leaves it nothing stale.
FullClientCoherent == ~root.jj_events => ClientOk(gap \cup dropped \cup raced \cup crawled)

-----------------------------------------------------------------------------
(* A statement of the repository the code does not keep. *)

\* debug.rs:24-26: a recrawl re-seeds the tree "from a fresh scan of the disk",
\* for when it "has drifted from reality".  So no change made while it runs
\* may leave the settled index different from the disk.
RecrawlMatchesDisk ==
    Settled /\ ~root.jj_events =>
        \A p \in DOMAIN disk \ (gap \cup dropped) : Indexed(p) = disk[p]
=============================================================================
