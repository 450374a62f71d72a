----------------------------- MODULE MCWatcher -----------------------------
(* Three roots: one path, in either mode, promoted and recrawled; one path    *)
(* that is also read; and a jj root with a directory, its signal and the      *)
(* .gitignore that may ignore it.                                             *)
EXTENDS Watcher

CONSTANTS p, r, d, g, sig

SomeWorlds ==
    {[paths |-> {p}, modes |-> BOOLEAN, crawls |-> {"promote", "recrawl"}, ticks |-> 5],
     [paths |-> {r}, modes |-> BOOLEAN, crawls |-> {"promote"}, ticks |-> 4],
     [paths |-> {d, g}, modes |-> {TRUE}, crawls |-> {}, ticks |-> 4]}
=============================================================================
