----------------------------- MODULE Lifecycle -----------------------------
(***************************************************************************)
(* A daemon's life and the CLI that starts it: connect_or_spawn and        *)
(* spawn_daemon (cli.rs), serve and handle_connection (daemon/server.rs),  *)
(* request_shutdown (daemon/state.rs).  One socket path is shared by all   *)
(* of them; sock_path names the daemon whose socket inode is there, alive  *)
(* or not.  bind(2) and listen(2) are separate steps of UnixListener::bind:   *)
(* in between, connecting is refused.  A Notified future hears only the    *)
(* notify_waiters calls made after it was created.                         *)
(***************************************************************************)
EXTENDS Naturals, FiniteSets

CONSTANTS Clis,      \* command-line clients, each making call after call
          Daemons,   \* bound on daemon processes alive, or holding the path, at once
          NoDaemon

ASSUME LifecycleAssumption == NoDaemon \notin Daemons

VARIABLES
    sock_path,  \* whose socket is there
    dpc,        \* where each daemon's serve is
    flag,       \* DaemonState::shutting_down
    cpc,        \* where each CLI is in its call
    opt,        \* its call: the command, and --no-spawn
    srv, hpc,   \* the daemon it is connected to, and where the handler is
    \* history, for the properties only
    excuse      \* something happened during the call that may make it fail

daemonv == <<dpc, flag>>
callv == <<cpc, opt>>
connv == <<srv, hpc>>
lifeVars == <<sock_path, dpc, flag, cpc, opt, srv, hpc, excuse>>

With(f, x, v) == [f EXCEPT ![x] = v]

\* The options of a call: shutdown-server or any other command.
Options == [shutdown : BOOLEAN, no_spawn : BOOLEAN]

Running(d) == dpc[d] # "dead"

\* The socket of d takes connections: listen(2) was called and the listener lives.
Listening(d) == dpc[d] \notin {"dead", "start", "unlinked", "bound"}

Active == {c \in Clis : cpc[c] \notin {"idle", "failed"}}

\* A call under way may fail once a socket is unlinked or a daemon ends.
Excused(S) == excuse' = [c \in Clis |-> excuse[c] \/ c \in S]

LifeInit ==
    /\ sock_path = NoDaemon
    /\ dpc = [d \in Daemons |-> "dead"]
    /\ flag = [d \in Daemons |-> FALSE]
    /\ cpc = [c \in Clis |-> "idle"]
    /\ opt \in [Clis -> {[shutdown |-> FALSE, no_spawn |-> FALSE]}]
    /\ srv = [c \in Clis |-> NoDaemon]
    /\ hpc = [c \in Clis |-> "none"]
    /\ excuse = [c \in Clis |-> FALSE]

-----------------------------------------------------------------------------
\* connect_or_spawn

\* A user runs the CLI; sock_path.exists() is its first look at the path.
Call(c) ==
    /\ cpc[c] \in {"idle", "failed"}
    /\ \E o \in Options : opt' = With(opt, c, o)
    /\ cpc' = With(cpc, c, IF sock_path # NoDaemon THEN "connect" ELSE "absent")
    /\ excuse' = With(excuse, c, FALSE)
    /\ UNCHANGED <<sock_path, dpc, flag, srv, hpc>>

Fail(c) == cpc' = With(cpc, c, "failed")

\* connect(2) queues the stream on the listener; the PDU follows at once.
Connected(c) ==
    /\ sock_path # NoDaemon /\ Listening(sock_path)
    /\ cpc' = With(cpc, c, "waiting")
    /\ srv' = With(srv, c, sock_path)
    /\ hpc' = With(hpc, c, "backlog")

Refused == sock_path # NoDaemon /\ ~Listening(sock_path)

\* Mutant: a refused connection is an error, as it was before 0.2.2.
Connect_RefusedFails(c) ==
    /\ cpc[c] = "connect"
    /\ \/ Connected(c)
       \/ /\ sock_path = NoDaemon \/ Refused
          /\ Fail(c)
          /\ UNCHANGED connv
    /\ UNCHANGED <<sock_path, daemonv, opt, excuse>>

\* The first connect: taken, refused (an orphan), or an error when the path
\* was unlinked since it was seen.
Connect(c) ==
    /\ cpc[c] = "connect"
    /\ \/ Connected(c)
       \/ /\ Refused
          /\ cpc' = With(cpc, c, "orphan")
          /\ UNCHANGED connv
       \/ /\ sock_path = NoDaemon
          /\ Fail(c)
          /\ UNCHANGED connv
    /\ UNCHANGED <<sock_path, daemonv, opt, excuse>>

\* remove_file of what is at the path by now.
RemoveOrphan(c) ==
    /\ cpc[c] = "orphan"
    /\ sock_path' = NoDaemon
    /\ cpc' = With(cpc, c, "absent")
    /\ Excused(IF sock_path = NoDaemon THEN {} ELSE Active \ {c})
    /\ UNCHANGED <<daemonv, opt, connv>>

\* --no-spawn gives up; otherwise spawn_daemon starts a process, or cannot.
SpawnDaemon(c) ==
    /\ cpc[c] = "absent"
    /\ ~opt[c].no_spawn
    /\ \E d \in Daemons :
         /\ ~Running(d) /\ sock_path # d
         /\ dpc' = With(dpc, d, "start")
         /\ flag' = With(flag, d, FALSE)
    /\ cpc' = With(cpc, c, "poll")
    /\ UNCHANGED <<sock_path, opt, connv, excuse>>

NotSpawned(c) ==
    /\ cpc[c] = "absent"
    /\ Fail(c)
    /\ excuse' = With(excuse, c, TRUE)
    /\ UNCHANGED <<sock_path, daemonv, opt, connv>>

\* The poll for the socket file, up to its 5 s deadline.
Poll(c) ==
    /\ cpc[c] = "poll"
    /\ sock_path # NoDaemon
    /\ cpc' = With(cpc, c, "reconnect")
    /\ UNCHANGED <<sock_path, daemonv, opt, connv, excuse>>

PollDeadline(c) ==
    /\ cpc[c] = "poll"
    /\ Fail(c)
    /\ excuse' = With(excuse, c, TRUE)
    /\ UNCHANGED <<sock_path, daemonv, opt, connv>>

\* The connect after a spawn has no second chance.  The call is excused when
\* it meets a live daemon between its bind and its listen.
Reconnect(c) ==
    /\ cpc[c] = "reconnect"
    /\ \/ Connected(c) /\ UNCHANGED excuse
       \/ /\ sock_path = NoDaemon \/ Refused
          /\ Fail(c)
          /\ excuse' = With(excuse, c, excuse[c] \/ (Refused /\ Running(sock_path)))
          /\ UNCHANGED connv
    /\ UNCHANGED <<sock_path, daemonv, opt>>

-----------------------------------------------------------------------------
\* serve

Goto(d, from, to) == dpc[d] = from /\ dpc' = With(dpc, d, to)

\* remove_file before binding, and after the loop: whoever's socket it is.
Unlink(d) ==
    /\ Goto(d, "start", "unlinked") \/ Goto(d, "closing", "exiting")
    /\ sock_path' = NoDaemon
    /\ Excused(IF sock_path = NoDaemon THEN {} ELSE Active)
    /\ UNCHANGED <<flag, callv, connv>>

\* bind(2) fails with EADDRINUSE when a socket has come back; serve returns it.
Bind(d) ==
    /\ \/ Goto(d, "unlinked", "bound") /\ sock_path = NoDaemon /\ sock_path' = d
       \/ Goto(d, "unlinked", "dead") /\ sock_path # NoDaemon /\ UNCHANGED sock_path
    /\ UNCHANGED <<flag, callv, connv, excuse>>

Listen(d) ==
    /\ Goto(d, "bound", "loop")
    /\ UNCHANGED <<sock_path, flag, callv, connv, excuse>>

\* The head of the loop: select! creates the Notified and waits.
Select(d) ==
    /\ Goto(d, "loop", "select")
    /\ UNCHANGED <<sock_path, flag, callv, connv, excuse>>

\* accept wins, even over a notification: the connection gets its task.
Accept(d, c) ==
    /\ Goto(d, "select", "accepted") \/ Goto(d, "woken", "accepted")
    /\ srv[c] = d /\ hpc[c] = "backlog"
    /\ hpc' = With(hpc, c, "read")
    /\ UNCHANGED <<sock_path, flag, callv, srv, excuse>>

\* The notification wins.
Break(d) ==
    /\ Goto(d, "woken", "closing")
    /\ UNCHANGED <<sock_path, flag, callv, connv, excuse>>

\* Mutant: the loop leaves the flag to the notification.
Check_NotifiedOnly(d) ==
    /\ Goto(d, "accepted", "loop")
    /\ UNCHANGED <<sock_path, flag, callv, connv, excuse>>

\* is_shutting_down at the foot of the loop.
Check(d) ==
    /\ Goto(d, "accepted", IF flag[d] THEN "closing" ELSE "loop")
    /\ UNCHANGED <<sock_path, flag, callv, connv, excuse>>

\* Mutant: only the listener is closed; the connections taken stay open.
Die_LeavesClients(d) ==
    /\ dpc' = With(dpc, d, "dead")
    /\ Excused(Active)
    /\ UNCHANGED <<sock_path, flag, callv, connv>>

\* The end of a process: its clients see their connections closed.
Die(d) ==
    /\ dpc' = With(dpc, d, "dead")
    /\ cpc' = [c \in Clis |-> IF srv[c] = d THEN "failed" ELSE cpc[c]]
    /\ srv' = [c \in Clis |-> IF srv[c] = d THEN NoDaemon ELSE srv[c]]
    /\ hpc' = [c \in Clis |-> IF srv[c] = d THEN "none" ELSE hpc[c]]
    /\ Excused(Active)
    /\ UNCHANGED <<sock_path, flag, opt>>

\* serve returned: the listener and the runtime are dropped, tasks with them;
\* the drop waits for commands running in spawn_blocking.
Exit(d) ==
    /\ dpc[d] = "exiting"
    /\ \A c \in Clis : srv[c] = d => hpc[c] # "notify"
    /\ Die(d)

\* SIGKILL: the socket file stays.
Crash(d) == Running(d) /\ Die(d)

-----------------------------------------------------------------------------
\* handle_connection

\* The first PDU is dispatched whatever the flag says.  shutdown-server swaps
\* the flag, and the thread that set it goes on to notify.
dispatch(c) ==
    /\ hpc[c] = "read"
    /\ IF opt[c].shutdown
       THEN /\ flag' = With(flag, srv[c], TRUE)
            /\ hpc' = With(hpc, c, IF flag[srv[c]] THEN "send" ELSE "notify")
       ELSE hpc' = With(hpc, c, "send") /\ UNCHANGED flag
    /\ UNCHANGED <<sock_path, dpc, callv, srv, excuse>>

\* notify_waiters reaches serve only while it waits in select!.
Notify(c) ==
    /\ hpc[c] = "notify"
    /\ hpc' = With(hpc, c, "send")
    /\ dpc' = IF dpc[srv[c]] = "select" THEN With(dpc, srv[c], "woken") ELSE dpc
    /\ UNCHANGED <<sock_path, flag, callv, srv, excuse>>

\* Mutant: shutdown-server answers when the accept loop has ended.
Respond_AfterLoop(c) ==
    /\ hpc[c] = "send"
    /\ opt[c].shutdown => dpc[srv[c]] \in {"closing", "exiting"}
    /\ hpc' = With(hpc, c, "queued")
    /\ UNCHANGED <<sock_path, daemonv, callv, srv, excuse>>

\* session.send, once the blocking task has returned.
Respond(c) ==
    /\ hpc[c] = "send"
    /\ hpc' = With(hpc, c, "queued")
    /\ UNCHANGED <<sock_path, daemonv, callv, srv, excuse>>

\* The writer task writes the response; the CLI prints it and exits.
Write(c) ==
    /\ hpc[c] = "queued"
    /\ cpc' = With(cpc, c, "idle")
    /\ srv' = With(srv, c, NoDaemon)
    /\ hpc' = With(hpc, c, "none")
    /\ UNCHANGED <<sock_path, daemonv, opt, excuse>>

-----------------------------------------------------------------------------
CliStep(c) ==
    \/ Connect(c) \/ RemoveOrphan(c) \/ SpawnDaemon(c) \/ NotSpawned(c)
    \/ Poll(c) \/ PollDeadline(c) \/ Reconnect(c)

ServeStep(d) ==
    \/ Unlink(d) \/ Bind(d) \/ Listen(d) \/ Select(d) \/ Break(d) \/ Check(d)
    \/ Exit(d) \/ \E c \in Clis : Accept(d, c)

HandlerStep(c) == dispatch(c) \/ Notify(c) \/ Respond(c) \/ Write(c)

LifeNext ==
    \/ \E c \in Clis : Call(c) \/ CliStep(c) \/ HandlerStep(c)
    \/ \E d \in Daemons : ServeStep(d) \/ Crash(d)

LifeSpec == LifeInit /\ [][LifeNext]_lifeVars

\* Processes and tasks that can run do; users need not call and nothing need
\* crash.  The kernel's backlog is a queue, so no connection is passed over for
\* ever.
LifeFairness ==
    /\ \A c \in Clis : WF_lifeVars(CliStep(c)) /\ WF_lifeVars(HandlerStep(c))
    /\ \A d \in Daemons : WF_lifeVars(ServeStep(d)) /\ \A c \in Clis : SF_lifeVars(Accept(d, c))

LifeFairSpec == LifeSpec /\ LifeFairness

-----------------------------------------------------------------------------
\* Types, and: a handler exists exactly for a CLI that waits on a live daemon,
\* so no daemon ends under a client without the client seeing it.
LifeTypeOK ==
    /\ sock_path \in Daemons \cup {NoDaemon}
    /\ dpc \in [Daemons -> {"dead", "start", "unlinked", "bound", "loop", "select",
                            "woken", "accepted", "closing", "exiting"}]
    /\ flag \in [Daemons -> BOOLEAN]
    /\ cpc \in [Clis -> {"idle", "failed", "connect", "orphan", "absent", "poll",
                         "reconnect", "waiting"}]
    /\ opt \in [Clis -> Options]
    /\ srv \in [Clis -> Daemons \cup {NoDaemon}]
    /\ hpc \in [Clis -> {"none", "backlog", "read", "notify", "send", "queued"}]
    /\ excuse \in [Clis -> BOOLEAN]
    /\ \A c \in Clis :
         /\ (cpc[c] = "waiting") <=> (srv[c] # NoDaemon)
         /\ (hpc[c] = "none") <=> (srv[c] = NoDaemon)
         /\ srv[c] # NoDaemon => Running(srv[c])

\* A call that may spawn fails only if, while it ran, a socket was unlinked
\* under it, a daemon ended, no daemon could be started in time, or the new
\* daemon had bound and not yet listened.  In particular a socket left by a
\* crash or a shutdown does not fail it (cli.rs connect_or_spawn).
FailureExplained ==
    \A c \in Clis : cpc[c] = "failed" => excuse[c]

\* Every call ends: a connected client is answered or hung up on, also by a
\* daemon that is shutting down (server.rs dispatches the first PDU whatever
\* the flag, and dropping the runtime closes what is left).
CallEnds == \A c \in Clis : (c \in Active) ~> (c \notin Active)

\* A daemon asked to shut down ends once any client has connected to it, even
\* if its notification was lost (server.rs checks is_shutting_down after each
\* accept).
ShutdownAtNextAccept ==
    \A d \in Daemons :
        (flag[d] /\ \E c \in Clis : srv[c] = d /\ hpc[c] = "backlog") ~> ~Running(d)

\* "socket presence is the liveness signal" (docs/PARITY.md): a daemon that
\* takes connections and has not been asked to stop has its socket at the path.
SocketSignalsLiveness ==
    \A d \in Daemons : Listening(d) /\ ~flag[d] => sock_path = d

\* "shutdown-server - { "shutdown": true } then closes" (docs/PROTOCOL.md), the
\* second half: a daemon asked to shut down ends.
ShutdownCloses == \A d \in Daemons : (Running(d) /\ flag[d]) ~> ~Running(d)

\* The first half: the client that asked is answered, not hung up on, by a
\* daemon that ends on its own (Exit; a crash answers nobody).
ShutdownAnswered ==
    [][\A d \in Daemons : Exit(d) =>
         \A c \in Clis : srv[c] = d /\ opt[c].shutdown => hpc[c] \in {"none", "backlog", "read"}]_lifeVars

=============================================================================
