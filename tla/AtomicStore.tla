----------------------------- MODULE AtomicStore -----------------------------
(***************************************************************************)
(* What the trigger store promises: a table in memory, a durable copy of   *)
(* it, and no other way for the copy to change than to become the table    *)
(* as it is.  After a crash the table is the copy again.                   *)
(***************************************************************************)
VARIABLES memory, durable

CONSTANT Tables    \* every table there can be

Init == memory = durable

Edit == memory' \in Tables /\ UNCHANGED durable
Commit == durable' = memory /\ UNCHANGED memory
Crash == memory' = durable /\ UNCHANGED durable

Next == Edit \/ Commit \/ Crash
Spec == Init /\ [][Next]_<<memory, durable>>
=============================================================================
