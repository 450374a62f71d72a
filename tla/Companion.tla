----------------------------- MODULE Companion ------------------------------
(***************************************************************************)
(* The clients that follow a subscription over one connection:             *)
(* watchman-wait and watchman-make (bin/) and `watchman -p` (cli.rs,       *)
(* send_and_print).  All three read JSON lines with json::read_pdu; the    *)
(* first two through a new BufReader for every PDU.  The daemon is what    *)
(* they see of it: it answers requests in order, and once a subscription   *)
(* is installed its pushes may come before the answer to `subscribe`.      *)
(* A line is three bytes: two halves of a PDU and the newline.             *)
(***************************************************************************)
EXTENDS Naturals, FiniteSets, Sequences, Functions, FiniteSetsExt

CONSTANTS Dirs, Project,   \* directories, and resolve_project_root of each
          Options,         \* command lines: job, dirs, max_events, timed, settle, persistent
          Files,           \* how many files a push may list
          MaxPushes,       \* bound on the pushes
          Capacity         \* of a BufReader, in bytes

ASSUME CompanionAssumption ==
    /\ Project \in [Dirs -> Dirs] /\ \A d \in Dirs : Project[Project[d]] = Project[d]
    /\ \A o \in Options :
          /\ o.job \in {"wait", "make", "cli"}
          /\ o.dirs \in Seq(Dirs) /\ o.dirs # <<>>
          /\ o.max_events \in Nat /\ o.settle \in Nat
          /\ o.timed \in BOOLEAN /\ o.persistent \in BOOLEAN
    /\ Files \subseteq Nat /\ MaxPushes \in Nat /\ Capacity \in Nat \ {0}

VARIABLES
    opts,       \* the command line
    \* the daemon
    roots,      \* the roots it watches
    inbox,      \* requests sent and not handled
    answering,  \* `subscribe` has installed the push loop and not answered
    pushing,    \* the push loop runs
    open,       \* it holds the connection open
    out, sock,  \* bytes it has queued; bytes that have arrived
    \* the client
    pc,         \* send, await (an answer), top (of its loop), read, done
    step,       \* requests sent
    buf, line,  \* the BufReader's bytes, and the line read so far
    failed,     \* send_and_print's err_present
    late,       \* watchman-wait's deadline has passed
    last_event, \* watchman-make has a change it did not run for
    fired,      \* commands watchman-make ran
    printed,    \* what was written to stdout
    exit,       \* the exit status
    \* history, for the properties only
    sent,       \* PDUs the daemon has queued
    why         \* the error the client ended with

daemon == <<roots, inbox, answering, pushing, open, out>>
reader == <<buf, line>>
effects == <<failed, last_event, fired, printed>>
vars == <<opts, roots, inbox, answering, pushing, open, out, sock, pc, step, buf, line,
          failed, late, last_event, fired, printed, exit, sent, why>>

NL == <<"newline">>
Line(v) == <<<<v, 1>>, <<v, 2>>, NL>>
Bytes(pdus) == [k \in 1..(3 * Len(pdus)) |-> Line(pdus[(k + 2) \div 3])[((k + 2) % 3) + 1]]

Response(ok) == [kind |-> "response", ok |-> ok]
Push(id, n) == [kind |-> "push", id |-> id, files |-> n]
Pushed == Cardinality({i \in DOMAIN sent : sent[i].kind = "push"})

\* The requests of a command line: watch-project for every directory, then
\* subscribe to the first.  send_and_print sends what it is told to.
Requests(o) ==
    LET watch == [i \in DOMAIN o.dirs |-> [cmd |-> "watch-project", dir |-> o.dirs[i]]]
        subscribe == <<[cmd |-> "subscribe", dir |-> o.dirs[1]]>>
    IN  IF o.job = "cli" THEN subscribe ELSE watch \o subscribe

Init ==
    /\ opts \in Options
    /\ roots \in SUBSET {Project[d] : d \in Dirs}
    /\ inbox = <<>> /\ answering = FALSE /\ pushing = FALSE /\ open = TRUE
    /\ out = <<>> /\ sock = <<>>
    /\ pc = "send" /\ step = 0 /\ buf = <<>> /\ line = <<>>
    /\ failed = FALSE /\ late = FALSE /\ last_event = FALSE /\ fired = 0 /\ printed = <<>>
    /\ exit = "none" /\ sent = <<>> /\ why = "none"

-----------------------------------------------------------------------------
(* The daemon, as its clients see it. *)
Connected == open /\ pc # "done"


Enqueue(v) == out' = out \o Line(v) /\ sent' = Append(sent, v)

Handle ==
    /\ Connected /\ ~answering /\ inbox # <<>>
    /\ inbox' = Tail(inbox)
    /\ LET r == Head(inbox)
       IN  IF r.cmd = "watch-project"
           THEN /\ roots' = roots \cup {Project[r.dir]}
                /\ Enqueue(Response(TRUE))
                /\ UNCHANGED <<answering, pushing>>
           ELSE IF r.dir \in roots
           THEN /\ answering' = TRUE /\ pushing' = TRUE
                /\ UNCHANGED <<roots, out, sent>>
           ELSE /\ Enqueue(Response(FALSE))
                /\ UNCHANGED <<roots, answering, pushing>>
    /\ UNCHANGED <<opts, open, sock, pc, step, reader, late, effects, exit, why>>

Answer ==
    /\ Connected /\ answering
    /\ answering' = FALSE
    /\ Enqueue(Response(TRUE))
    /\ UNCHANGED <<opts, roots, inbox, pushing, open, sock, pc, step, reader, late, effects,
                   exit, why>>

Change(n) ==
    /\ Connected /\ pushing
    /\ Pushed < MaxPushes
    /\ Enqueue(Push(Pushed + 1, n))
    /\ UNCHANGED <<opts, roots, inbox, answering, pushing, open, sock, pc, step, reader, late,
                   effects, exit, why>>

\* The kernel takes a byte from the writer.
Arrive ==
    /\ Connected /\ out # <<>>
    /\ sock' = Append(sock, Head(out))
    /\ out' = Tail(out)
    /\ UNCHANGED <<opts, roots, inbox, answering, pushing, open, pc, step, reader, late,
                   effects, exit, sent, why>>

\* The daemon ends; what it has not written is lost.
Close ==
    /\ Connected
    /\ open' = FALSE
    /\ out' = <<>>
    /\ UNCHANGED <<opts, roots, inbox, answering, pushing, sock, pc, step, reader, late,
                   effects, exit, sent, why>>

-----------------------------------------------------------------------------
(* Reading a PDU. *)
Ok(v) == [tag |-> "ok", pdu |-> v]
None == [tag |-> "none"]
Err(type, kind) == [tag |-> "err", type |-> type, kind |-> kind]

\* from_slice on the bytes of a line: only a whole PDU parses.
parse(bytes) ==
    IF bytes = <<>> THEN Err("ProtocolError", "Truncated")
    ELSE IF \E i \in DOMAIN sent : Line(sent[i]) = Append(bytes, NL)
    THEN Ok(Head(bytes)[1])
    ELSE Err("ProtocolError", "Json")

\* downcast_ref::<io::Error> sees the outermost error only.
timed_out(e) == e.type = "io::Error" /\ e.kind = "TimedOut"

Reading == pc \in {"await", "read"}
Starved == Reading /\ buf = <<>> /\ sock = <<>>


\* Mutant: watchman-wait sets no read timeout.
TimerRunsOut_unset ==
    \/ opts.job = "make" /\ pc = "read"
    \/ opts.job = "cli" /\ ~opts.persistent

\* A read timeout is set, and can have passed.
TimerRunsOut ==
    \/ opts.job = "wait" /\ pc = "read" /\ late
    \/ opts.job = "make" /\ pc = "read"
    \/ opts.job = "cli" /\ ~opts.persistent

-----------------------------------------------------------------------------
(* What each client does with the result. *)
Goto(label) == pc' = label /\ UNCHANGED <<exit, why>>
Finish(status, cause) == pc' = "done" /\ exit' = status /\ why' = cause

Names(v) == IF v.kind = "push" THEN [i \in 1..v.files |-> <<v.id, i>>] ELSE <<>>


\* Mutant: max_events is looked at between PDUs, not between names.
wait_whole_pdu(r) ==
    /\ UNCHANGED <<failed, last_event, fired>>
    /\ IF r.tag = "ok"
       THEN /\ printed' = printed \o Names(r.pdu)
            /\ IF opts.max_events > 0 /\ Len(printed') >= opts.max_events
               THEN Finish("ok", "none")
               ELSE Goto("top")
       ELSE UNCHANGED printed /\ Finish("err", r.kind)

\* watchman-wait: prints names until max_events of them are out.
wait(r) ==
    /\ UNCHANGED <<failed, last_event, fired>>
    /\ IF r.tag = "ok"
       THEN LET room  == IF opts.max_events = 0 THEN Len(Names(r.pdu))
                         ELSE opts.max_events - Len(printed)
                names == SubSeq(Names(r.pdu), 1, Min({room, Len(Names(r.pdu))}))
            IN  /\ printed' = printed \o names
                /\ IF opts.max_events > 0 /\ Len(printed \o names) >= opts.max_events
                   THEN Finish("ok", "none")
                   ELSE Goto("top")
       ELSE /\ UNCHANGED printed
            /\ Finish(IF timed_out(r) THEN "ok" ELSE "err", r.kind)


\* Mutant: last_event is not reset when the command runs.
make_no_reset(r) ==
    /\ UNCHANGED <<failed, printed>>
    /\ IF r.tag = "err" THEN Finish("err", r.kind) /\ UNCHANGED <<last_event, fired>>
       ELSE /\ Goto("top")
            /\ last_event' = TRUE
            /\ \E settled \in BOOLEAN : fired' = IF settled THEN fired + 1 ELSE fired

\* watchman-make: runs its command when a change is `settle` old.  The process
\* may be held up for that long between noting the change and looking at it.
make(r) ==
    /\ UNCHANGED <<failed, printed>>
    /\ IF r.tag = "err" /\ ~timed_out(r)
       THEN Finish("err", r.kind) /\ UNCHANGED <<last_event, fired>>
       ELSE /\ Goto("top")
            /\ \E settled \in IF r.tag = "ok" THEN BOOLEAN ELSE {TRUE} :
                  LET noted == r.tag = "ok" \/ last_event
                  IN  /\ last_event' = (noted /\ ~settled)
                      /\ fired' = IF noted /\ settled THEN fired + 1 ELSE fired

\* send_and_print after the first response: prints until the daemon closes.
drain(r) ==
    /\ UNCHANGED <<failed, last_event, fired>>
    /\ IF r.tag = "ok" THEN printed' = Append(printed, r.pdu) /\ Goto("top")
       ELSE /\ UNCHANGED printed
            /\ IF r.tag = "none" THEN Finish(IF failed THEN "err" ELSE "ok", "none")
               ELSE Finish("err", r.kind)

\* Mutant: the first PDU is printed and not looked at.
respond_unread(r) ==
    /\ UNCHANGED <<last_event, fired, failed>>
    /\ IF r.tag = "ok"
       THEN /\ printed' = Append(printed, r.pdu)
            /\ IF opts.persistent THEN Goto("top") ELSE Finish("ok", "none")
       ELSE Finish("err", "Closed") /\ UNCHANGED printed

\* send_and_print's first response.
respond(r) ==
    /\ UNCHANGED <<last_event, fired>>
    /\ IF r.tag = "ok"
       THEN LET err_present == r.pdu = Response(FALSE)
            IN  /\ printed' = Append(printed, r.pdu)
                /\ failed' = err_present
                /\ IF opts.persistent THEN Goto("top")
                   ELSE Finish(IF err_present THEN "err" ELSE "ok", "none")
       ELSE /\ Finish("err", IF r.tag = "none" THEN "Closed" ELSE r.kind)
            /\ UNCHANGED <<failed, printed>>

\* The others' answers, swallowed whatever they say.
swallow(r) ==
    /\ UNCHANGED effects
    /\ IF r.tag = "err" THEN Finish("err", r.kind)
       ELSE IF step < Len(Requests(opts)) THEN Goto("send")
       ELSE IF opts.job = "make" /\ opts.settle = 0 THEN Finish("err", "InvalidInput")
       ELSE Goto("top")

\* read_pdu of the companions makes an error of a closed connection.
On(r) ==
    LET result == IF r = None /\ opts.job # "cli" THEN Err("Context", "Closed") ELSE r
    IN  CASE opts.job = "cli" /\ pc = "await" -> respond(result)
          [] opts.job = "cli" /\ pc = "read" -> drain(result)
          [] opts.job # "cli" /\ pc = "await" -> swallow(result)
          [] opts.job = "wait" /\ pc = "read" -> wait(result)
          [] opts.job = "make" /\ pc = "read" -> make(result)

-----------------------------------------------------------------------------
Send ==
    /\ pc = "send"
    /\ IF open THEN /\ inbox' = Append(inbox, Requests(opts)[step + 1])
                    /\ step' = step + 1
                    /\ Goto("await")
               ELSE Finish("err", "BrokenPipe") /\ UNCHANGED <<inbox, step>>
    /\ UNCHANGED <<opts, roots, answering, pushing, open, out, sock, reader, late, effects,
                   sent>>

Top ==
    /\ pc = "top"
    /\ IF opts.job = "wait" /\ late THEN Finish("ok", "none") ELSE Goto("read")
    /\ UNCHANGED <<opts, daemon, sock, step, reader, late, effects, sent>>


\* Mutant: the BufReader is made anew for every PDU here too.
Keep_dropped(rest) == <<>>

\* The BufReader outlives the PDU in send_and_print only.
Keep(rest) == IF opts.job = "cli" THEN rest ELSE <<>>

Read ==
    /\ Reading /\ ~Starved
    /\ LET k    == IF buf = <<>> THEN Min({Capacity, Len(sock)}) ELSE 0
           data == buf \o SubSeq(sock, 1, k)
           ends == {i \in DOMAIN data : data[i] = NL}
       IN  /\ sock' = SubSeq(sock, k + 1, Len(sock))
           /\ IF ends = {}
              THEN /\ line' = line \o data
                   /\ buf' = <<>>
                   /\ UNCHANGED <<pc, effects, exit, why>>
              ELSE /\ line' = <<>>
                   /\ buf' = Keep(SubSeq(data, Min(ends) + 1, Len(data)))
                   /\ On(parse(line \o SubSeq(data, 1, Min(ends) - 1)))
    /\ UNCHANGED <<opts, daemon, step, late, sent>>

ReadEof ==
    /\ Starved /\ ~open
    /\ line' = <<>>
    /\ On(IF line = <<>> THEN None ELSE parse(line))
    /\ UNCHANGED <<opts, daemon, sock, step, buf, late, sent>>

ReadTimeout ==
    /\ Starved /\ open /\ TimerRunsOut
    /\ line' = <<>>
    /\ On(Err("ProtocolError", "TimedOut"))
    /\ UNCHANGED <<opts, daemon, sock, step, buf, late, sent>>

Expire ==
    /\ opts.job = "wait" /\ opts.timed /\ pc \in {"top", "read"} /\ ~late
    /\ late' = TRUE
    /\ UNCHANGED <<opts, daemon, sock, pc, step, reader, effects, exit, sent, why>>

Client == Send \/ Top \/ Read \/ ReadEof \/ ReadTimeout
Daemon == Handle \/ Answer
Next == Client \/ Daemon \/ (\E n \in Files : Change(n)) \/ Arrive \/ Close \/ Expire
Spec == Init /\ [][Next]_vars
FairSpec == Spec /\ WF_vars(Client) /\ WF_vars(Daemon) /\ WF_vars(Arrive)

-----------------------------------------------------------------------------
(* Properties. *)

\* `watchman -p` loses, repeats and reorders nothing, however the bytes arrive:
\* what it printed, what it holds and what is on the way is the daemon's stream
\* (send_and_print keeps one BufReader for all its reads).
StreamKept ==
    opts.job = "cli" /\ pc # "done" =>
        LET seen == Bytes(printed) \o line \o buf \o sock \o out
        IN  IF open THEN seen = Bytes(sent) ELSE seen = SubSeq(Bytes(sent), 1, Len(seen))

\* The exit status of `watchman` is 0 only if no error was answered, although
\* pushes may be read before the answer or after it (err_present is read from
\* the first PDU alone).
ErrorExits ==
    opts.job = "cli" /\ exit = "ok" => Response(FALSE) \notin Range(sent)

\* watchman-wait prints names in the order of the pushes, none twice, a push
\* from its first name on, at most max_events in all; and it exits 0 only once
\* it printed that many or its deadline passed.
WaitOutput ==
    opts.job = "wait" =>
        /\ \A i \in DOMAIN printed :
              LET id == printed[i][1]
                  n  == printed[i][2]
              IN  IF n > 1 THEN i > 1 /\ printed[i - 1] = <<id, n - 1>>
                           ELSE i > 1 => printed[i - 1][1] < id
        /\ opts.max_events > 0 => Len(printed) <= opts.max_events
        /\ exit = "ok" => late \/ (opts.max_events > 0 /\ Len(printed) = opts.max_events)

\* watchman-make runs its command at most once for every PDU that came after
\* its handshake, counting the run it still owes (the debounce of its loop).
OneRunPerChange ==
    opts.job = "make" /\ pc \in {"top", "read"} =>
        fired + (IF last_event THEN 1 ELSE 0) + Len(Requests(opts)) <= Len(sent)

\* A client outlives neither its deadline nor the daemon: watchman-wait ends
\* after its timeout even if nothing comes, and every client ends after the
\* connection is closed, whatever part of a line it was reading.
Ends == (late ~> pc = "done") /\ (~open ~> pc = "done")

-----------------------------------------------------------------------------
(* What the sources say of the clients and they do not do. *)

\* watchman_wait.rs: "Timeout reached; graceful exit."  The timeout comes
\* wrapped in a ProtocolError, which downcast_ref does not recognise.
TimeoutIsGraceful == opts.job = "wait" /\ why = "TimedOut" => exit = "ok"

\* watchman-wait has every name pushed to it on stdout or still to read.  A
\* BufReader that has read past its line takes the rest with it.
NothingDropped ==
    opts.job = "wait" /\ opts.max_events = 0 /\ open /\ pc \in {"top", "read"} =>
        \A v \in Range(sent) : v.kind = "push" => \A n \in 1..v.files :
            <<v.id, n>> \in Range(printed) \/ <<v, 1>> \in Range(line \o sock \o out)

\* A client that waits for changes is subscribed.  Below a project root
\* watch-project registers the root and subscribe asks for the directory.
WaitsSubscribed == opts.job # "cli" /\ pc \in {"top", "read"} => pushing
=============================================================================
