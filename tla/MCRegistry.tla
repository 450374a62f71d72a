---------------------------- MODULE MCRegistry ----------------------------
EXTENDS Registry

\* Every client uses the same subscription name.
SameName == [t \in Procs |-> "sub"]
=============================================================================
