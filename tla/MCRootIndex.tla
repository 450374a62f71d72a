---------------------------- MODULE MCRootIndex ----------------------------
EXTENDS RootIndex, TLC

\* Paths and threads are interchangeable: no property tells them apart.
Symmetry == Permutations(Paths) \cup Permutations(Procs)
=============================================================================
