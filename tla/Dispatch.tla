------------------------------ MODULE Dispatch ------------------------------
(***************************************************************************)
(* One dispatch at the Orchestrator: the handler of                        *)
(* POST /v1/orchestrator/dispatch starts a runtime, collects its events    *)
(* until their channel is closed, and reports the specialist's execution.  *)
(* The ACP runtime drives an agent process over stdin and stdout: the      *)
(* runner (runSession) sends requests and waits for their answers, the     *)
(* reader (readLoop) handles what the process writes, and both emit events *)
(* into one bounded channel under one mutex.  The direct and the echo      *)
(* runtime are the fallbacks: a single goroutine, a channel and no mutex.  *)
(* The agent may answer, ask, edit files, misbehave, or exit at any time.  *)
(***************************************************************************)
EXTENDS Naturals, Sequences, FiniteSets

CONSTANTS
    Paths,      \* files of the workspace
    Contents,   \* what a file may hold, and that it is not there
    LeftOut,    \* the files, each with a content, that are not in a capture of the workspace
    Buffer,     \* capacity of the event channel
    MaxWire,    \* lines in the pipe from the agent
    MaxNotes    \* bound on the lines of the agent that answer no request

\* A capture leaves out what is not there, what lies in a directory such as .git or dist
\* whatever it holds, and what is large or not text.
ASSUME DispatchConstants == LeftOut \subseteq Paths \X Contents

VARIABLES
    kind,      \* the runtime: "none", "acp", "direct" or "echo"
    dispatcher, \* its handler: "dispatch", "collect", "wait", "audit", "ok" or "failed"
    got,       \* what the handler has collected: [error, done, files]
    runner,    \* the runner's step
    reader,    \* "off", "scan", "fail" or "ended"
    todo,      \* events that each goroutine has yet to emit
    blocked,   \* the goroutine that holds eventMu while the channel is full
    events,    \* the event channel
    shut,      \* is it closed
    pending,   \* requests that wait for an answer
    reply,     \* what has arrived for them
    agent,     \* the agent process: "off", "up" or "down"
    inbox,     \* requests it has received and not answered
    wire,      \* lines it has written
    notes,     \* how many of them answered no request
    files,     \* the workspace: what each file holds
    written,   \* history: written through the client before the prompt's answer was read
    snapshot,  \* the captures of the workspace: before the session, and after its prompt
    err,       \* the handle's err
    over,      \* has the direct runtime's call cost more than the agent's cap
    late,      \* has the dispatch's deadline passed
    stopped    \* has the runtime's own context ended

acp == <<pending, reply, agent, inbox, wire, notes, files, written, snapshot>>
vars == <<kind, dispatcher, got, runner, reader, todo, blocked, events, shut, acp,
          err, over, late, stopped>>

Requests   == {"initialize", "new", "prompt", "close"}
Goroutines == {"runner", "reader"}
Nobody     == "nobody"

Stream   == [type |-> "stream"]
Error    == [type |-> "error"]
Done     == [type |-> "done"]
Patch(P) == [type |-> "patch", files |-> P]

\* isCriticalRuntimeEvent
Critical(e) == e.type \in {"patch", "done", "error"}

Init ==
    /\ kind = "none" /\ dispatcher = "dispatch"
    /\ got = [error |-> FALSE, done |-> FALSE, files |-> {}]
    /\ runner = "off" /\ reader = "off"
    /\ todo = [g \in Goroutines |-> <<>>] /\ blocked = Nobody
    /\ events = <<>> /\ shut = FALSE
    /\ pending = {} /\ reply = [r \in Requests |-> "none"]
    /\ agent = "off" /\ inbox = {} /\ wire = <<>> /\ notes = 0
    /\ files \in [Paths -> Contents] /\ written = {} /\ snapshot = <<>>
    /\ err = FALSE /\ over = FALSE /\ late = FALSE /\ stopped = FALSE

-----------------------------------------------------------------------------
(* Starting: Dispatcher.Dispatch.                                          *)

\* The catalog, the agent's configuration or its tools are refused.
Refuse ==
    /\ dispatcher = "dispatch" /\ dispatcher' = "failed"
    /\ UNCHANGED <<kind, got, runner, reader, todo, blocked, events, shut, acp,
                   err, over, late, stopped>>

\* ACPRuntime.StartSession: the process, the reader and the runner.
StartAcp ==
    /\ dispatcher = "dispatch" /\ dispatcher' = "collect"
    /\ kind' = "acp" /\ runner' = "initialize" /\ reader' = "scan" /\ agent' = "up"
    /\ UNCHANGED <<got, todo, blocked, events, shut, pending, reply, inbox, wire, notes,
                   files, written, snapshot, err, over, late, stopped>>

\* The events of directHandle.run, by how its model call goes.
DirectEvents(call) ==
    <<Stream>> \o CASE call = "failed" -> <<Error>>
                    [] call = "over"   -> <<Stream, Error>>
                    [] call = "text"   -> <<Stream, Stream, Done>>
                    [] call = "patch"  -> <<Stream, Stream, Patch(Paths), Done>>

\* No agent process: the direct runtime, or the echo runtime when there is no model.
StartFallback ==
    /\ dispatcher = "dispatch" /\ dispatcher' = "collect"
    /\ runner' = "last"
    /\ \/ /\ kind' = "direct"
          /\ \E call \in {"failed", "over", "text", "patch"} :
                /\ todo' = [todo EXCEPT !["runner"] = DirectEvents(call)]
                /\ err' = (call \in {"failed", "over"}) /\ over' = (call = "over")
       \/ /\ kind' = "echo"
          /\ todo' = [todo EXCEPT !["runner"] = <<Stream, Patch(Paths), Done>>]
          /\ UNCHANGED <<err, over>>
    /\ UNCHANGED <<got, reader, blocked, events, shut, acp, late, stopped>>

-----------------------------------------------------------------------------
(* Events: emitEvent and closeEvents.                                      *)

Full == Len(events) >= Buffer

Idle(g) == todo[g] = <<>>

\* An event that is not critical is dropped when the channel is full.
Drops(e) == Full /\ ~Critical(e)

\* One event of an ACP goroutine, under eventMu.  Nothing is sent once the channel is
\* closed; a critical event waits for room, holding the mutex, until the runtime's
\* context ends, and then either case of the select may be taken.
Emit(g) ==
    /\ kind = "acp" /\ ~Idle(g) /\ blocked \in {Nobody, g}
    /\ LET e == Head(todo[g])
           next == todo' = [todo EXCEPT ![g] = Tail(@)] /\ blocked' = Nobody
       IN  \/ (shut \/ Drops(e) \/ (stopped /\ Critical(e))) /\ next /\ UNCHANGED events
           \/ ~shut /\ ~Full /\ next /\ events' = Append(events, e)
           \/ /\ ~shut /\ Full /\ ~Drops(e) /\ blocked = Nobody
              /\ blocked' = g /\ UNCHANGED <<todo, events>>
    /\ UNCHANGED <<kind, dispatcher, got, runner, reader, shut, acp, err, over, late, stopped>>

\* The other runtimes send and wait.
Send ==
    /\ kind \in {"direct", "echo"} /\ ~Idle("runner") /\ ~Full
    /\ events' = Append(events, Head(todo["runner"]))
    /\ todo' = [todo EXCEPT !["runner"] = Tail(@)]
    /\ UNCHANGED <<kind, dispatcher, got, runner, reader, blocked, shut, acp, err, over,
                   late, stopped>>

-----------------------------------------------------------------------------
(* The runner: runSession, sendRequest.                                    *)

\* The deferred calls of runSession start: the runtime's context is cancelled.
Exit == runner' = "close_events" /\ stopped' = TRUE

Fails ==
    /\ todo' = [todo EXCEPT !["runner"] = Append(@, Error)]
    /\ runner' = "exit"

\* A request is written and waits for its answer; the write fails once the process is
\* gone.
SendRequest ==
    /\ runner \in Requests /\ Idle("runner") /\ runner \notin pending /\ reply[runner] = "none"
    /\ IF agent = "up"
       THEN /\ pending' = pending \cup {runner} /\ inbox' = inbox \cup {runner}
            /\ UNCHANGED <<runner, todo>>
       ELSE /\ IF runner = "close" THEN runner' = "done" /\ UNCHANGED todo ELSE Fails
            /\ UNCHANGED <<pending, inbox>>
    /\ UNCHANGED <<kind, dispatcher, got, reader, blocked, events, shut, reply, agent, wire,
                   notes, files, written, snapshot, err, over, late, stopped>>

\* captureACPWorkspaceSnapshot: some directories, what is not a regular file, large files
\* and files that are not text are skipped without an error.
Captured(capture) == {p \in Paths : <<p, capture[p]>> \notin LeftOut}

\* workspacePatchSince: created, deleted or modified, as far as the captures have seen.
Differing(before, after) == {p \in Captured(before) \cup Captured(after) : before[p] # after[p]}

Compared(before, after) ==
    IF Differing(before, after) = {} THEN <<>> ELSE <<Patch(Differing(before, after))>>

\* The answer has come.  After initialize the workspace is captured, or a note says
\* that it could not be.  After the prompt come the patches in the agent's text or in its
\* result, and the comparison with a second capture, if there was a first and it succeeds.
Answered ==
    /\ runner \in Requests /\ reply[runner] \in {"ok", "error"}
    /\ \/ /\ reply[runner] = "error" \/ runner \in {"initialize", "new"}
          /\ runner # "close"
          /\ Fails /\ UNCHANGED snapshot
       \/ /\ reply[runner] = "ok" /\ runner = "initialize"
          /\ runner' = "new"
          /\ \/ snapshot' = <<files>> /\ UNCHANGED todo
             \/ UNCHANGED snapshot /\ todo' = [todo EXCEPT !["runner"] = <<Stream>>]
       \/ /\ reply[runner] = "ok" /\ runner = "new"
          /\ runner' = "prompt" /\ UNCHANGED <<todo, snapshot>>
       \/ /\ reply[runner] = "ok" /\ runner = "prompt"
          /\ runner' = "close"
          /\ \E inline \in {<<>>, <<Patch({})>>} :
                \/ /\ snapshot = <<>> /\ UNCHANGED snapshot
                   /\ todo' = [todo EXCEPT !["runner"] = inline]
                \/ /\ snapshot # <<>> /\ UNCHANGED snapshot
                   /\ todo' = [todo EXCEPT !["runner"] = Append(inline, Stream)]
                \/ /\ snapshot # <<>> /\ snapshot' = Append(snapshot, files)
                   /\ todo' = [todo EXCEPT !["runner"] = inline \o Compared(snapshot[1], files)]
       \/ runner = "close" /\ runner' = "done" /\ UNCHANGED <<todo, snapshot>>
    /\ UNCHANGED <<kind, dispatcher, got, reader, blocked, events, shut, pending, reply, agent,
                   inbox, wire, notes, files, written, err, over, late, stopped>>

\* The wait ends otherwise: the context has ended or five minutes are over.  An answer
\* may have come by then; select takes either.
Unanswered ==
    /\ runner \in pending \/ (runner \in Requests /\ reply[runner] # "none")
    /\ pending' = pending \ {runner}
    /\ IF runner = "close" THEN runner' = "done" /\ UNCHANGED todo ELSE Fails
    /\ UNCHANGED <<kind, dispatcher, got, reader, blocked, events, shut, reply, agent, inbox,
                   wire, notes, files, written, snapshot, err, over, late, stopped>>

\* The session is complete.
Complete ==
    /\ runner = "done"
    /\ todo' = [todo EXCEPT !["runner"] = <<Done>>] /\ runner' = "exit"
    /\ UNCHANGED <<kind, dispatcher, got, reader, blocked, events, shut, acp, err, over,
                   late, stopped>>

Leave ==
    /\ runner = "exit" /\ Idle("runner") /\ Exit
    /\ UNCHANGED <<kind, dispatcher, got, reader, todo, blocked, events, shut, acp, err, over,
                   late>>

\* Mutant: the channel is closed without the mutex and without the flag.
CloseEventsAtOnce ==
    /\ runner = "close_events" \/ (runner = "last" /\ Idle("runner"))
    /\ shut' = TRUE /\ runner' = "ended"
    /\ UNCHANGED <<kind, dispatcher, got, reader, todo, blocked, events, acp, err, over, late,
                   stopped>>

\* Mutant: a session that has failed leaves its channel open.
CloseEventsWhenDone ==
    /\ \/ runner = "close_events" /\ blocked = Nobody
       \/ runner = "last" /\ Idle("runner")
    /\ shut' = (kind # "acp" \/ reply["prompt"] = "ok") /\ runner' = "ended"
    /\ UNCHANGED <<kind, dispatcher, got, reader, todo, blocked, events, acp, err, over, late,
                   stopped>>

\* closeEvents, then close(h.done).
CloseEvents ==
    /\ \/ runner = "close_events" /\ blocked = Nobody
       \/ runner = "last" /\ Idle("runner")
    /\ shut' = TRUE /\ runner' = "ended"
    /\ UNCHANGED <<kind, dispatcher, got, reader, todo, blocked, events, acp, err, over, late,
                   stopped>>

-----------------------------------------------------------------------------
(* The reader: readLoop, handleAgentRequest, failPending.                  *)

Queue(es) == todo' = [todo EXCEPT !["reader"] = es]

\* Every request that waits is answered with an error.
FailPending ==
    /\ reply' = [r \in Requests |-> IF r \in pending THEN "error" ELSE reply[r]]
    /\ pending' = {}
    /\ reader' = "ended"

\* handleWriteTextFile, at any time while the process is read: the file is written and a
\* patch says so, or there is an error, and the file may hold a part of it.
WriteTextFile(p) ==
    /\ \E content \in Contents : files' = [files EXCEPT ![p] = content]
    /\ \/ /\ Queue(<<Stream, Patch({p})>>)
          /\ written' = IF reply["prompt"] = "none" THEN written \cup {p} ELSE written
       \/ Queue(<<Error>>) /\ UNCHANGED written

\* One line: an answer goes to its request, if that still waits; the agent's text and
\* its questions become events; a file is written through the client; an unsupported
\* request is an error of the session.
Read ==
    /\ reader = "scan" /\ Idle("reader") /\ wire # <<>>
    /\ wire' = Tail(wire)
    /\ LET line == Head(wire)
       IN  \/ /\ line[1] \in Requests
              /\ IF line[1] \in pending
                 THEN reply' = [reply EXCEPT ![line[1]] = line[2]] /\ pending' = pending \ {line[1]}
                 ELSE UNCHANGED <<reply, pending>>
              /\ UNCHANGED <<reader, todo, files, written, err>>
           \/ /\ line[1] = "note" /\ Queue(<<Stream>>)
              /\ UNCHANGED <<reader, reply, pending, files, written, err>>
           \/ /\ line[1] = "bad" /\ Queue(<<Error>>)
              /\ UNCHANGED <<reader, reply, pending, files, written, err>>
           \/ /\ line[1] = "write" /\ WriteTextFile(line[2])
              /\ UNCHANGED <<reader, reply, pending, err>>
           \/ /\ line[1] = "overlong"
              /\ err' = TRUE /\ reader' = "fail" /\ Queue(<<Error>>)
              /\ UNCHANGED <<reply, pending, files, written>>
    /\ UNCHANGED <<kind, dispatcher, got, runner, blocked, events, shut, agent, inbox, notes,
                   snapshot, over, late, stopped>>

\* The end of the agent's output, or a line that cannot be read.
ReadEnds ==
    /\ Idle("reader")
    /\ reader = "fail" \/ (reader = "scan" /\ wire = <<>> /\ agent = "down")
    /\ FailPending
    /\ UNCHANGED <<kind, dispatcher, got, runner, todo, blocked, events, shut, agent, inbox,
                   wire, notes, files, written, snapshot, err, over, late, stopped>>

-----------------------------------------------------------------------------
(* The agent process and time.                                             *)

Write(line) == Len(wire) < MaxWire /\ wire' = Append(wire, line)

Replies(r) ==
    /\ agent = "up" /\ r \in inbox
    /\ \E how \in {"ok", "error"} : Write(<<r, how>>)
    /\ inbox' = inbox \ {r}
    /\ UNCHANGED <<kind, dispatcher, got, runner, reader, todo, blocked, events, shut, pending,
                   reply, agent, notes, files, written, snapshot, err, over, late, stopped>>

Writes ==
    /\ agent = "up" /\ notes < MaxNotes /\ notes' = notes + 1
    /\ \/ Write(<<"note">>) \/ Write(<<"bad">>) \/ Write(<<"overlong">>)
       \/ \E p \in Paths : Write(<<"write", p>>)
    /\ UNCHANGED <<kind, dispatcher, got, runner, reader, todo, blocked, events, shut, pending,
                   reply, agent, inbox, files, written, snapshot, err, over, late, stopped>>

\* The agent changes a file with its own tools, in whatever it starts on its own.
Edits ==
    /\ agent = "up"
    /\ \E p \in Paths, content \in Contents :
          files[p] # content /\ files' = [files EXCEPT ![p] = content]
    /\ UNCHANGED <<kind, dispatcher, got, runner, reader, todo, blocked, events, shut, pending,
                   reply, agent, inbox, wire, notes, written, snapshot, err, over, late, stopped>>

\* The process exits by itself; the end of the context kills it.
Dies ==
    /\ agent = "up" /\ agent' = "down" /\ inbox' = {}
    /\ UNCHANGED <<kind, dispatcher, got, runner, reader, todo, blocked, events, shut, pending,
                   reply, wire, notes, files, written, snapshot, err, over, late, stopped>>

\* Ten minutes after the request.
Deadline ==
    /\ dispatcher \in {"collect", "wait", "audit"} /\ ~late
    /\ late' = TRUE /\ stopped' = TRUE
    /\ UNCHANGED <<kind, dispatcher, got, runner, reader, todo, blocked, events, shut, acp, err, over>>

-----------------------------------------------------------------------------
(* The handler.                                                            *)

Collect ==
    /\ dispatcher = "collect"
    /\ \/ /\ events # <<>> /\ events' = Tail(events)
          /\ LET e == Head(events)
             IN  got' = [got EXCEPT !.error = @ \/ e.type = "error", !.done = @ \/ e.type = "done",
                                    !.files = IF e.type = "patch" THEN @ \cup e.files ELSE @]
          /\ UNCHANGED dispatcher
       \/ events = <<>> /\ shut /\ dispatcher' = "wait" /\ UNCHANGED <<events, got>>
    /\ UNCHANGED <<kind, runner, reader, todo, blocked, shut, acp, err, over, late, stopped>>

\* Wait returns the handle's error; an error event fails the dispatch as well.
Wait ==
    /\ dispatcher = "wait" /\ runner = "ended"
    /\ dispatcher' = IF err \/ got.error THEN "failed" ELSE "audit"
    /\ UNCHANGED <<kind, got, runner, reader, todo, blocked, events, shut, acp, err, over,
                   late, stopped>>

\* Mutant: the execution is recorded on a context of its own.
AuditDetached ==
    /\ dispatcher = "audit"
    /\ dispatcher' \in {"ok", "failed"}
    /\ UNCHANGED <<kind, got, runner, reader, todo, blocked, events, shut, acp, err, over,
                   late, stopped>>

\* specialist.execution is appended on the dispatch's context, which may have ended.
Audit ==
    /\ dispatcher = "audit"
    /\ \/ ~late /\ dispatcher' = "ok"
       \/ dispatcher' = "failed"
    /\ UNCHANGED <<kind, got, runner, reader, todo, blocked, events, shut, acp, err, over,
                   late, stopped>>

-----------------------------------------------------------------------------
Runner == SendRequest \/ Answered \/ Complete \/ Leave \/ CloseEvents \/ Send \/ Emit("runner")
Reader == Read \/ ReadEnds \/ Emit("reader")
Handler == Refuse \/ StartAcp \/ StartFallback \/ Collect \/ Wait \/ Audit

Next ==
    \/ Runner \/ Unanswered \/ Reader \/ Handler
    \/ \E r \in Requests : Replies(r)
    \/ Writes \/ Edits \/ Dies \/ Deadline

\* The goroutines run, a wait for an answer is bounded, and a process whose context has
\* ended is killed.
Spec ==
    /\ Init /\ [][Next]_vars
    /\ WF_vars(Runner) /\ WF_vars(Reader) /\ WF_vars(Handler) /\ WF_vars(Unanswered)
    /\ WF_vars(stopped /\ Dies)

-----------------------------------------------------------------------------
(* Properties.                                                             *)

\* A dispatch that is reported completed ran to its end: its done event arrived and no
\* error did, the prompt was answered, the cost cap was kept.  The Shell has a patch for each
\* file that the agent wrote through the client before it answered, and, when the workspace
\* was captured twice, for each file that had changed from one capture to the other, unless
\* both leave it out.  Deadlines, dropped events, a dying process and an agent that goes on
\* after its answer must not let less through.
CompletedIsWhole ==
    dispatcher = "ok" =>
        /\ got.done /\ ~got.error /\ ~over
        /\ kind = "acp" =>
              /\ reply["prompt"] = "ok" /\ written \subseteq got.files
              /\ Len(snapshot) = 2 => \A p \in Paths :
                    \/ snapshot[1][p] = snapshot[2][p]
                    \/ {<<p, snapshot[1][p]>>, <<p, snapshot[2][p]>>} \subseteq LeftOut
                    \/ p \in got.files

\* No goroutine sends on the channel once it is closed, which would end the process: the
\* runner closes it only while nobody is blocked in a send, and a fallback when it has
\* nothing left to send.
NoSendOnClosed == shut => blocked = Nobody /\ (kind # "acp" => Idle("runner"))

\* Every dispatch is answered, and when it is the agent process is dead and both
\* goroutines have ended: nobody waits for an answer, for room in the channel or for the
\* mutex for ever.
DispatchEnds ==
    <>[](/\ dispatcher \in {"ok", "failed"} /\ agent # "up"
         /\ runner \in {"off", "ended"} /\ reader \in {"off", "ended"})

=============================================================================
