--------------------------- MODULE MCTriggerStore ---------------------------
\* One command at a time, and a file for each side of the rename.
EXTENDS TriggerStore
=============================================================================
