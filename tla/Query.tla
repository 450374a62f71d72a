------------------------------- MODULE Query --------------------------------
(***************************************************************************)
(* The query command (commands/query.rs) over one root: parsing the        *)
(* expression, deciding whether a jj root must build its full index        *)
(* (QuerySpec::is_jj_fsmonitor_query), and filtering the rows              *)
(* (query/run.rs, query/generator.rs).  Ticks are abstracted to `changed`, *)
(* the paths with an oclock after the client's clock; RootIndex is about   *)
(* ticks.  A path, a name and a dirname target are sequences of names;     *)
(* Fold and Ext give a name in lower case and its extension.  Parse and    *)
(* Eval are the expression language; Expr defines them as expr.rs does.    *)
(***************************************************************************)
EXTENDS Naturals, Sequences, Functions

CONSTANTS DiskPaths,      \* paths that may be on disk
          Raws,       \* expressions clients send
          Shapes,     \* the rest of a query: relative_root (<<>> is none),
                      \* generators and flags
          DirPaths,   \* the paths that are directories
          Cookies,    \* names that start with .watchman-cookie-
          Fold, Ext,
          Parse(_), Eval(_, _, _),
          Unset       \* a generator or a depth that is not given; the SCM set when
                      \* changed_paths failed or there is no SCM clock

Name == DOMAIN Fold

ASSUME QueryAssumption ==
    /\ \A n \in Name : Fold[n] \in DOMAIN Ext
    /\ \A p \in DiskPaths : p \in Seq(Name) /\ Len(p) > 0
    /\ \A s \in Shapes : s.base \in Seq(Name) /\ s.case_sensitive \in BOOLEAN

Error == [kind |-> "error"]

-----------------------------------------------------------------------------
\* expr.rs

\* std::path: the last name of a path, what is before it, and its prefixes.
file_name(rel) == rel[Len(rel)]
parent(rel) == SubSeq(rel, 1, Len(rel) - 1)
starts_with(rel, base) == Len(base) <= Len(rel) /\ SubSeq(rel, 1, Len(base)) = base

Folded(p) == [i \in DOMAIN p |-> Fold[p[i]]]
Equal(p, q, cased) == IF cased THEN p = q ELSE Folded(p) = Folded(q)

match_dirname(rel, target, cased) ==
    /\ rel # <<>>
    /\ \/ Equal(parent(rel), target, cased)
       \/ /\ target # <<>> /\ Len(target) < Len(parent(rel))
          /\ Equal(SubSeq(parent(rel), 1, Len(target)), target, cased)

match_name(rel, names, scope, cased) ==
    LET hay == IF scope = "wholename" \/ rel = <<>> THEN rel ELSE <<file_name(rel)>>
    IN  \E i \in DOMAIN names : Equal(names[i], hay, cased)

\* The extension of the file name, in lower case, is one of exts.
HasSuffix(rel, exts) == rel # <<>> /\ Ext[Fold[file_name(rel)]] \in exts

\* What the properties below need of eval: how it walks not(anyof(...)), and
\* its answer for a name and a dirname below it.
ASSUME EvalAssumption ==
    \A raw \in Raws, rel \in DiskPaths, case_sensitive \in BOOLEAN :
        LET e == Parse(raw)
            holds(x) == Eval(x, rel, case_sensitive)
        IN  e.kind = "not" /\ e.of.kind = "anyof" =>
              /\ holds(e) <=> ~\E i \in DOMAIN e.of.list : holds(e.of.list[i])
              /\ \A i \in DOMAIN e.of.list :
                   LET x == e.of.list[i]
                       cased == x.cased /\ case_sensitive
                   IN  /\ x.kind = "name" => holds(x) <=> match_name(rel, x.names, x.scope, cased)
                       /\ x.kind = "dirname" => holds(x) <=> match_dirname(rel, x.path, cased)

-----------------------------------------------------------------------------
\* run.rs

\* Mutant: the names alone are looked for.
is_jj_fsmonitor_query_NamesOnly(e) ==
    /\ e.kind = "not" /\ e.of.kind = "anyof"
    /\ \E i \in DOMAIN e.of.list :
         e.of.list[i].kind = "name" /\ e.of.list[i].scope = "wholename"

\* not(anyof(name [.git, .jj] wholename, dirname .git, dirname .jj)), in any
\* order and case rule.
is_jj_fsmonitor_query(e) ==
    /\ e.kind = "not" /\ e.of.kind = "anyof"
    /\ LET parts == e.of.list
           dir(name) == \E i \in DOMAIN parts : parts[i].kind = "dirname" /\ parts[i].path = <<name>>
       IN  /\ Len(parts) = 3
           /\ \E i \in DOMAIN parts :
                /\ parts[i].kind = "name" /\ parts[i].scope = "wholename"
                /\ Len(parts[i].names) = 2
                /\ {<<".git">>, <<".jj">>} \subseteq Range(parts[i].names)
           /\ dir(".git") /\ dir(".jj")

\* What a jj root does not index (watcher.rs).
is_jj_internal(rel) == rel[1] \in {".git", ".jj"}

\* A path generator: below its path, at most depth + 1 names down.
accept_path(rel, g) ==
    /\ starts_with(rel, g.path)
    /\ g.depth = Unset \/ Len(rel) - Len(g.path) <= g.depth + 1

\* Every generator that is given accepts; an empty list accepts nothing.
accept(rel, gens) ==
    /\ gens.suffix = Unset \/ HasSuffix(rel, gens.suffix)
    /\ gens.glob = Unset \/ rel \in gens.glob
    /\ gens.paths = Unset \/ \E g \in gens.paths : accept_path(rel, g)

\* One turn of the loop over the tree: is rel a row?  `allowed` is the SCM set.
Row(q, e, rel, allowed) ==
    LET shown == SubSeq(rel, Len(q.base) + 1, Len(rel))
    IN  /\ file_name(rel) \notin Cookies
        /\ q.always_include_directories \/ rel \notin DirPaths
        /\ starts_with(rel, q.base)
        /\ accept(shown, q.generators)
        /\ allowed = Unset \/ rel \in allowed \/ shown \in allowed
        /\ Eval(e, shown, q.case_sensitive)

\* Mutant: rows keep the prefix they were selected by.
Strip_None(q, rows) == rows

\* Rows are named relative to relative_root.
Strip(q, rows) == {SubSeq(rel, Len(q.base) + 1, Len(rel)) : rel \in rows}

-----------------------------------------------------------------------------
VARIABLES
    disk, changed,    \* what is on disk, and of it what is newer than the clock
    jj,               \* Root::jj_events
    outdated,         \* the clock is older than oldest_available_tick
    query, result     \* the last query and its answer

queryVars == <<disk, changed, jj, outdated, query, result>>

\* parse_spec
Queries ==
    {[raw |-> raw, since |-> since, base |-> s.base, generators |-> s.generators,
      case_sensitive |-> s.case_sensitive,
      always_include_directories |-> s.always_include_directories,
      empty_on_fresh_instance |-> s.empty_on_fresh_instance] :
        raw \in Raws, since \in {"none", "clock", "scm"}, s \in Shapes}

\* changed_paths is asked only for an SCM clock, and may fail.
ScmSets(q) == {Unset} \cup (IF q.since = "scm" THEN {{p} : p \in DiskPaths} ELSE {})

NoResult == [status |-> "none"]

QueryInit ==
    /\ disk \in SUBSET DiskPaths
    /\ changed \in SUBSET disk
    /\ jj \in BOOLEAN
    /\ outdated = FALSE
    /\ query = Unset
    /\ result = NoResult

\* The rows by index mode: a jj root holds the changes outside .git and .jj, a
\* full one every path.
Indexed(mode) == IF mode THEN {p \in changed : ~is_jj_internal(p)} ELSE disk

\* The command: parse, promote unless the query is jj's own, run.  A promotion
\* stamps every path anew and outdates the clock.  `find` and `since` are the
\* queries for "true", never jj's own.
Ask(q, allowed) ==
    LET e == Parse(q.raw)
        promoted == jj /\ ~is_jj_fsmonitor_query(e)
        fresh == \/ q.since = "none"
                 \/ q.since = "clock" /\ outdated'
                 \/ q.since = "scm" /\ jj'
        rows == {p \in Indexed(jj') :
                   /\ ~(fresh /\ q.empty_on_fresh_instance)
                   /\ q.since = "clock" => p \in changed'
                   /\ Row(q, e, p, allowed)}
    IN  /\ result = NoResult
        /\ query' = q
        /\ IF e = Error
           THEN result' = [status |-> "error"] /\ UNCHANGED <<changed, jj, outdated>>
           ELSE /\ jj' = (jj /\ ~promoted)
                /\ changed' = IF promoted THEN disk ELSE changed
                /\ outdated' = (outdated \/ promoted)
                /\ result' = [status |-> "ok", scm |-> allowed, files |-> Strip(q, rows),
                              fresh |-> fresh]
        /\ UNCHANGED disk

\* The client has its answer.
Reply ==
    /\ result # NoResult
    /\ query' = Unset /\ result' = NoResult
    /\ UNCHANGED <<disk, changed, jj, outdated>>

QueryNext ==
    \/ Reply
    \/ \E q \in Queries : \E allowed \in ScmSets(q) : Ask(q, allowed)

QuerySpec == QueryInit /\ [][QueryNext]_queryVars

-----------------------------------------------------------------------------
\* Types; every row is a path of the disk below the relative root.
QueryTypeOK ==
    /\ changed \subseteq disk /\ disk \subseteq DiskPaths
    /\ {jj, outdated} \subseteq BOOLEAN
    /\ query = Unset \/ query.raw \in Raws
    /\ result.status = "ok" => \A p \in result.files : (query.base \o p) \in disk

\* "If another Watchman client asks for a general query ... watchwoman builds
\* the full index" (README.md): whatever the expression, an answer since a clock
\* has every changed path the query matches, and an answer from a full index
\* every path it matches (none when empty_on_fresh_instance asks so).  So a
\* query taken for jj's own never selects a path a jj root leaves out of its
\* index.  It fails for a relative_root below
\* .git or .jj, which the test for jj's own query does not look at.
Complete ==
    result.status = "ok" =>
        LET e == Parse(query.raw)
            due == IF result.fresh /\ query.empty_on_fresh_instance THEN {}
                   ELSE IF query.since = "clock" THEN changed
                   ELSE IF jj THEN {} ELSE disk
        IN  Strip(query, {p \in due : Row(query, e, p, result.scm)}) \subseteq result.files

\* "unknown operators don't crash the daemon, they become a `False` terminal so
\* the query returns nothing" (expr.rs): no query is answered with an error.
UnknownIsFalse == result.status # "error"

\* "Returns `None` on any error - the caller treats that as 'fall back to a fresh
\* query'" (scm.rs): an SCM query whose changed paths are not known is fresh.
ScmErrorIsFresh ==
    result.status = "ok" /\ query.since = "scm" /\ result.scm = Unset => result.fresh

=============================================================================
