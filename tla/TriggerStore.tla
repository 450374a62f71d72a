---------------------------- MODULE TriggerStore ----------------------------
(***************************************************************************)
(* The durable triggers of one root (daemon/root.rs: install_trigger,      *)
(* remove_trigger, persist_triggers, load_persisted_triggers, persisted).  *)
(* A command edits the table under its lock, then, without it, takes a     *)
(* snapshot, writes triggers.json.tmp and renames it over triggers.json.   *)
(* All threads use the same temporary name, so a file is an inode here: a  *)
(* writer keeps writing to the inode it opened wherever that has moved.    *)
(* The daemon may be killed between any two steps and started again.       *)
(*                                                                         *)
(* A trigger is told apart by its stdin mode, the one field persisted in   *)
(* another form than it is kept in.                                        *)
(***************************************************************************)
EXTENDS Naturals, FiniteSets

CONSTANTS Names,   \* trigger names
          Procs,   \* command threads
          Nodes,   \* inodes
          NoNode

ASSUME TriggerStoreAssumption == NoNode \notin Nodes

StdinModes == {"None", "NamePerLine", "JsonName"}
NoTrigger == "NoTrigger"
Tables == [Names -> StdinModes \cup {NoTrigger}]
Empty == [n \in Names |-> NoTrigger]

\* The `stdin` value of a PersistedTrigger, and back.
from_trigger(m) == CASE m = "NamePerLine" -> "NAME_PER_LINE"
                     [] m = "JsonName" -> "json"
                     [] OTHER -> "null"

\* Mutant: one of the modes is not recognised.
into_trigger_NoJson(s) == IF s = "NAME_PER_LINE" THEN "NamePerLine" ELSE "None"

into_trigger(s) == CASE s = "NAME_PER_LINE" -> "NamePerLine"
                     [] s \in {"json", "JSON"} -> "JsonName"
                     [] OTHER -> "None"

\* triggers.json holds an array: the table's triggers and no others.
Serialised(table) == [n \in {m \in Names : table[m] # NoTrigger} |-> from_trigger(table[n])]
NoItems == [n \in {} |-> "null"]
Bytes(kind, items) == [kind |-> kind, items |-> items]

VARIABLES
    up,              \* the daemon runs and has the root registered
    triggers,        \* Root::triggers
    step, items, fd, \* a command thread, its snapshot, the inode it has open
    tmp, file,       \* the inodes of triggers.json.tmp and triggers.json
    content,         \* of each inode
    unsaved          \* history: a write failed, and no command has persisted alone since

storage == <<tmp, file, content>>
storeVars == <<up, triggers, step, items, fd, tmp, file, content, unsaved>>

Put(f, x, v) == [f EXCEPT ![x] = v]

\* load_persisted_triggers: a file that is missing or malformed is ignored.
Loaded ==
    IF file = NoNode \/ content[file].kind # "json"
    THEN Empty
    ELSE LET saved == content[file].items
         IN  [n \in Names |-> IF n \in DOMAIN saved THEN into_trigger(saved[n])
                                                     ELSE NoTrigger]

-----------------------------------------------------------------------------
StoreInit ==
    /\ up = TRUE
    /\ triggers = Empty
    /\ step = [t \in Procs |-> "idle"]
    /\ items = [t \in Procs |-> NoItems]
    /\ fd = [t \in Procs |-> NoNode]
    /\ tmp = NoNode /\ file = NoNode
    /\ content = [n \in Nodes |-> Bytes("empty", NoItems)]
    /\ unsaved = FALSE

\* A command that persists alone makes good for earlier failures.
StartPersist(t) ==
    /\ step' = Put(step, t, "persist")
    /\ unsaved' = (unsaved /\ \E u \in Procs \ {t} : step[u] # "idle")

\* The `trigger` command.
install_trigger(t, n, m) ==
    /\ up /\ step[t] = "idle"
    /\ triggers' = Put(triggers, n, m)
    /\ StartPersist(t)
    /\ UNCHANGED <<up, items, fd, storage>>

\* trigger-del; nothing is persisted when there was no such trigger.
remove_trigger(t, n) ==
    /\ up /\ step[t] = "idle"
    /\ triggers[n] # NoTrigger
    /\ triggers' = Put(triggers, n, NoTrigger)
    /\ StartPersist(t)
    /\ UNCHANGED <<up, items, fd, storage>>

-----------------------------------------------------------------------------
(* persist_triggers. *)
Snapshot(t) ==
    /\ step[t] = "persist"
    /\ items' = Put(items, t, Serialised(triggers))
    /\ step' = Put(step, t, "open")
    /\ UNCHANGED <<up, triggers, fd, storage, unsaved>>

\* The state directory cannot be made, or the temporary file not opened.
Fails(t) ==
    /\ step[t] \in {"persist", "open"}
    /\ step' = Put(step, t, "idle")
    /\ items' = Put(items, t, NoItems)
    /\ unsaved' = TRUE
    /\ UNCHANGED <<up, triggers, fd, storage>>

Free(n) == n \notin {tmp, file} /\ \A t \in Procs : fd[t] # n

\* Mutant: the file is written where it is.
Open_InPlace(t, n) ==
    /\ step[t] = "open"
    /\ IF file = NoNode THEN Free(n) ELSE n = file
    /\ file' = n
    /\ content' = Put(content, n, Bytes("empty", NoItems))
    /\ fd' = Put(fd, t, n)
    /\ step' = Put(step, t, "write")
    /\ UNCHANGED <<up, triggers, items, tmp, unsaved>>

\* std::fs::write opens with create and truncate ...
Open(t, n) ==
    /\ step[t] = "open"
    /\ IF tmp = NoNode THEN Free(n) ELSE n = tmp
    /\ tmp' = n
    /\ content' = Put(content, n, Bytes("empty", NoItems))
    /\ fd' = Put(fd, t, n)
    /\ step' = Put(step, t, "write")
    /\ UNCHANGED <<up, triggers, items, file, unsaved>>

Close(t, next) == fd' = Put(fd, t, NoNode) /\ step' = Put(step, t, next)

\* ... and writes from the start.  Over another thread's longer text that
\* leaves a malformed file; lengths are not modelled.
Write(t, whole) ==
    /\ step[t] = "write"
    /\ ~whole => content[fd[t]].kind # "empty"
                 /\ content[fd[t]] # Bytes("json", items[t])
    /\ content' = Put(content, fd[t], IF whole THEN Bytes("json", items[t])
                                               ELSE Bytes("torn", NoItems))
    /\ Close(t, "rename")
    /\ UNCHANGED <<up, triggers, items, tmp, file, unsaved>>

\* Mutant: cleaning up after a failed write removes the file itself.
WriteFails_Removes(t) ==
    /\ step[t] = "write"
    /\ content' = Put(content, fd[t], Bytes("torn", NoItems))
    /\ Close(t, "idle")
    /\ items' = Put(items, t, NoItems)
    /\ file' = NoNode
    /\ unsaved' = TRUE
    /\ UNCHANGED <<up, triggers, tmp>>

\* The disk is full: the temporary file stays, cut short.
WriteFails(t) ==
    /\ step[t] = "write"
    /\ content' = Put(content, fd[t], Bytes("torn", NoItems))
    /\ Close(t, "idle")
    /\ items' = Put(items, t, NoItems)
    /\ unsaved' = TRUE
    /\ UNCHANGED <<up, triggers, tmp, file>>

\* Without a temporary file, which another thread may have renamed, the
\* error is ignored.
Rename(t) ==
    /\ step[t] = "rename"
    /\ step' = Put(step, t, "idle")
    /\ items' = Put(items, t, NoItems)
    /\ IF tmp = NoNode
       THEN UNCHANGED storage
       ELSE /\ file' = tmp /\ tmp' = NoNode
            /\ content' = [n \in Nodes |-> IF n = file THEN Bytes("empty", NoItems)
                                                       ELSE content[n]]
    /\ UNCHANGED <<up, triggers, fd, unsaved>>

-----------------------------------------------------------------------------
(* The daemon is killed, and started again. *)
Crash ==
    /\ up
    /\ up' = FALSE
    /\ triggers' = Empty
    /\ step' = [t \in Procs |-> "idle"]
    /\ items' = [t \in Procs |-> NoItems]
    /\ fd' = [t \in Procs |-> NoNode]
    /\ unsaved' = FALSE
    /\ UNCHANGED storage

Restart ==
    /\ ~up
    /\ up' = TRUE
    /\ triggers' = Loaded
    /\ UNCHANGED <<step, items, fd, storage, unsaved>>

StoreNext ==
    \/ \E t \in Procs :
          \/ \E n \in Names, m \in StdinModes : install_trigger(t, n, m)
          \/ \E n \in Names : remove_trigger(t, n)
          \/ Snapshot(t) \/ Fails(t)
          \/ \E n \in Nodes : Open(t, n)
          \/ \E whole \in BOOLEAN : Write(t, whole)
          \/ WriteFails(t) \/ Rename(t)
    \/ Crash \/ Restart

StoreSpec == StoreInit /\ [][StoreNext]_storeVars

-----------------------------------------------------------------------------
\* persist_triggers switches the file over in one step: with one command at a
\* time, whenever the daemon is killed and whichever writes failed before, a
\* triggers.json that exists is well formed.
FileIntact == file # NoNode => content[file].kind = "json"

\* A trigger or trigger-del that has returned survives a restart: between
\* commands, unless a write failed, the file loads to the table.
Durable ==
    up /\ ~unsaved /\ (\A t \in Procs : step[t] = "idle") => Loaded = triggers

\* The store is an AtomicStore: with one command at a time the file only ever
\* changes to the table as it is, and a restart brings back the file.
Store == INSTANCE AtomicStore WITH
            memory <- IF up THEN triggers ELSE Loaded,
            durable <- Loaded
Atomic == Store!Spec

\* "Intentionally not persistent" (the header of commands/trigger.rs): a restart
\* brings no trigger back.
NotPersistent == [][Restart => triggers' = Empty]_storeVars
=============================================================================
