-------------------------------- MODULE Scan --------------------------------
(***************************************************************************)
(* Which paths a root reports (daemon/watcher.rs): walk prunes as it       *)
(* descends, should_ignore judges the path of an event alone.  A path is   *)
(* the sequence of its names.  The index follows the disk by events; the   *)
(* first scan, a recrawl and a promotion replace it by a walk.             *)
(***************************************************************************)
EXTENDS Naturals, Sequences, FiniteSets

CONSTANTS Names,       \* file names
          Dirs,        \* WatchIgnores::dirs
          Vcs,         \* WatchIgnores::vcs
          MaxDepth,    \* bound on the names of a path
          MaxFiles     \* bound on the entries on disk

ASSUME ScanAssumption == MaxDepth \in Nat /\ MaxFiles \in Nat

Kinds == {"file", "dir", "link"}

VARIABLES disk,    \* the entries below the root, and what each is
          index    \* the paths the tree holds as existing

scanVars == <<disk, index>>

Entries == DOMAIN disk

file_name(p) == p[Len(p)]

Children(dir) == {p \in Entries : Len(p) = Len(dir) + 1 /\ SubSeq(p, 1, Len(dir)) = dir}

\* Mutant: an entry below a VCS directory is descended into like any other.
Descend_Vcs(below, p, shallow) == IF disk[p] = "dir" THEN below[p][FALSE] ELSE {}

\* is_real_dir: links are not followed.  Below a VCS directory the walk is
\* shallow: its entries are reported and not entered.
Descend(below, p, shallow) ==
    IF disk[p] = "dir" /\ ~shallow THEN below[p][file_name(p) \in Vcs] ELSE {}

\* The paths found under a directory.
walk[dir \in Entries \cup {<<>>}] ==
    [shallow \in BOOLEAN |->
        LET kept == {p \in Children(dir) : file_name(p) \notin Dirs}
        IN  kept \cup UNION {Descend(walk, p, shallow) : p \in kept}]

initial_scan == walk[<<>>][FALSE]

\* A pruned name anywhere, or two or more names below the first VCS directory.
should_ignore(rel) ==
    \/ \E i \in DOMAIN rel : rel[i] \in Dirs
    \/ \E i \in DOMAIN rel :
         /\ rel[i] \in Vcs
         /\ \A j \in 1..(i - 1) : rel[j] \notin Vcs
         /\ i + 1 < Len(rel)

-----------------------------------------------------------------------------
\* The watch starts on an empty root; Rescan covers a scan of any disk.
ScanInit == disk = << >> /\ index = {}

\* collect_event for one path: dropped, or applied with what the stat finds.
Event(rel, exists) ==
    index' = IF should_ignore(rel) THEN index
             ELSE IF exists THEN index \cup {rel} ELSE index \ {rel}

Create(dir, name, kind) ==
    LET p == Append(dir, name)
    IN  /\ dir = <<>> \/ (dir \in Entries /\ disk[dir] = "dir")
        /\ p \notin Entries
        /\ Len(p) <= MaxDepth
        /\ Cardinality(Entries) < MaxFiles
        /\ disk' = [q \in Entries \cup {p} |-> IF q = p THEN kind ELSE disk[q]]
        /\ Event(p, TRUE)

Delete(p) ==
    /\ Children(p) = {}
    /\ disk' = [q \in Entries \ {p} |-> disk[q]]
    /\ Event(p, FALSE)

\* A recrawl, or a promotion out of jj mode.
Rescan ==
    /\ index' = initial_scan
    /\ UNCHANGED disk

ScanNext ==
    \/ \E dir \in Entries \cup {<<>>}, name \in Names, kind \in Kinds : Create(dir, name, kind)
    \/ \E p \in Entries : Delete(p)
    \/ Rescan

ScanSpec == ScanInit /\ [][ScanNext]_scanVars

-----------------------------------------------------------------------------
\* "applies to the initial scan, recrawls and filesystem events alike"
\* (CHANGELOG.md): whatever is on disk, the paths events have put into the
\* index are the paths a walk finds, for names that are pruned, VCS
\* directories, both, nested, files or links.
EventsMatchWalk == index = initial_scan

=============================================================================
