---------------------------- MODULE MCCompanion -----------------------------
(* Command lines of the three clients, on a project root and below one. *)
EXTENDS Companion

MCDirs == {"root", "below"}
MCProject == [d \in MCDirs |-> "root"]

Job(job, dirs, max, timed, settle, persistent) ==
    [job |-> job, dirs |-> dirs, max_events |-> max, timed |-> timed, settle |-> settle,
     persistent |-> persistent]

MCOptions ==
    {Job("wait", dirs, max, timed, 0, FALSE) :
        dirs \in {<<"root">>, <<"below">>}, max \in {0, 3}, timed \in BOOLEAN}
    \cup {Job("wait", <<"root", "below">>, 2, TRUE, 0, FALSE)}
    \cup {Job("make", <<d>>, 0, FALSE, settle, FALSE) : d \in MCDirs, settle \in {0, 1}}
    \cup {Job("cli", <<d>>, 0, FALSE, 0, p) : d \in MCDirs, p \in BOOLEAN}
=============================================================================
