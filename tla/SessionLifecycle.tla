--------------------------- MODULE SessionLifecycle ---------------------------
(***************************************************************************)
(* The life of one governed session in the Governance Shell: the durable   *)
(* session row (session_store.go), the process-local maps keyed by the     *)
(* session ID (session_local_state.go), and the HTTP handlers and the      *)
(* background executor that read and write them concurrently.              *)
(*                                                                         *)
(* A request is one HTTP call.  Its program counter stops before every     *)
(* access to state that another request or executor shares, because the    *)
(* handlers hold no lock across such accesses.  An execution carries the   *)
(* name of the request whose RunAsync started it: a request starts at most *)
(* one.  A prompt carries the name of the request that submitted it.       *)
(***************************************************************************)
EXTENDS Naturals, FiniteSets

CONSTANTS
  Requests,      (* the HTTP requests about this session                     *)
  Creator,       (* the one whose createSession minted this session's ID     *)
  Agents,        (* the agents a client may name and the router may pick     *)
  None,          (* no agent, no prompt, no registered execution             *)
  Faults,        (* which things may go wrong, a subset of FaultKinds        *)
  MaxInFlight,   (* requests in flight together; 1 is a client that waits    *)
                 (* for each answer                                          *)
  MaxCrashes     (* bound on the crashes of the Governance Shell             *)

(* "store": a statement on the session database returns an error.           *)
(* "audit": an audit append returns an error.                               *)
(* "orchestrator": a call to the Orchestrator returns an error.             *)
(* "expiry": the prompt cache drops an entry older than LocalStateTTL.      *)
(* "evict": so does the cancel map, which takes an execution timeout that   *)
(*          exceeds LocalStateTTL.                                          *)
(* "timeout": an execution outlives AI_ORCH_EXECUTION_TIMEOUT.              *)
(* "crash": the process stops and starts again.                             *)
(* A client that disconnects cancels r.Context(), which the handler sees as *)
(* one of the first three.                                                  *)
FaultKinds == {"store", "audit", "orchestrator", "expiry", "evict", "timeout", "crash"}

ASSUME ConstantsAssumption ==
  /\ Creator \in Requests
  /\ None \notin Requests \cup Agents
  /\ Faults \subseteq FaultKinds
  /\ MaxInFlight \in Nat \ {0}
  /\ MaxCrashes \in Nat

VARIABLES
  (* the row of the sessions table and the audit table: durable *)
  status, routedAgent, audit,
  (* SessionService.prompts, SessionService.cancels, EventStore.closed *)
  prompt, canceler, stream,
  (* the requests: program counter and the locals that outlive a step *)
  pc, agent, carried, seen,
  (* the executions: phase of SessionExecutor.Run and state of its context *)
  exec, ctx,
  (* history: prompts and the agents picked for them; a status write lost *)
  selection, lost,
  crashes

durable == <<status, routedAgent, audit>>
memory  == <<prompt, canceler, stream>>
locals  == <<agent, carried, seen>>
runs    == <<exec, ctx>>
history == <<selection, lost, crashes>>
vars    == <<durable, memory, pc, locals, runs, history>>

-----------------------------------------------------------------------------
Status == {"none", "created", "awaiting_confirmation", "confirming", "confirmed",
           "running", "done", "failed", "aborted"}

(* Mutant: turns revive aborted sessions.                                   *)
TurnEligibleAborted == {"done", "failed", "patch_ready", "aborted"}

(* Mutant: turns queue behind a running execution.                          *)
TurnEligibleRunning == {"done", "failed", "patch_ready", "running"}

TurnEligible == {"done", "failed", "patch_ready"}

Labels == {"idle", "end",
           "create_store", "create_remember",
           "route", "set_agent", "set_status", "audit_selected", "remember",
           "confirm_get", "confirm_cas", "accept", "audit_confirmed", "commit", "reset",
           "forget", "set_running", "register",
           "turn_reopen", "turn_remember", "turn_route", "audit_turn", "turn_set_agent",
           "turn_set_status", "turn_accept", "audit_turn_confirmed",
           "audit_aborted", "abort_cas", "abort_cancel", "abort_close"}

(* The phases of an execution up to its write of "done" or "failed" ...     *)
Unsettled == {"start", "dispatch", "fail_status", "deny_audit", "deny_status",
              "publish_done", "done_status"}
(* ... and those after it.                                                  *)
Settled == {"fail_audit", "close_failed", "done_audit", "sweep"}

Phases == {"none", "over"} \cup Unsettled \cup Settled

EventTypes == {"session.created", "router.specialist.selected", "session.confirmed",
               "session.turn.requested", "session.turn.confirmed", "session.aborted",
               "runtime.failed", "runtime.denied"}

InFlight == {r \in Requests : pc[r] \notin {"idle", "end"}}

LiveExecutions == {r \in Requests : exec[r] \in Unsettled \cup Settled}

Init ==
  /\ status = "none" /\ routedAgent = None /\ audit = {}
  /\ prompt = None /\ canceler = None /\ stream = "open"
  /\ pc = [r \in Requests |-> "idle"]
  /\ agent = [r \in Requests |-> None]
  /\ carried = [r \in Requests |-> None]
  /\ seen = [r \in Requests |-> "none"]
  /\ exec = [r \in Requests |-> "none"]
  /\ ctx = [r \in Requests |-> "live"]
  /\ selection = {} /\ lost = FALSE /\ crashes = 0

(* A request arrives.  GET /v1/sessions lists the session from the INSERT   *)
(* on, so other requests may come before the creating one is answered.      *)
Arrive(r, label) ==
  /\ pc[r] = "idle"
  /\ Cardinality(InFlight) < MaxInFlight
  /\ pc' = [pc EXCEPT ![r] = label]

Goto(r, from, to) == pc[r] = from /\ pc' = [pc EXCEPT ![r] = to]

(* The call that handler step makes is answered with an error.              *)
Fails(r, from, fault, to) == fault \in Faults /\ Goto(r, from, to)

Record(event, r) == audit' = audit \cup {<<event, r>>}

(* SessionStore.CompareAndSwapStatus: one UPDATE ... WHERE status = old.    *)
CompareAndSwapStatus(old, new) == status = old /\ status' = new

(* cancelExecution: call and drop whatever CancelFunc the map holds.        *)
CancelExecution(why) ==
  /\ canceler' = None
  /\ ctx' = IF canceler # None /\ ctx[canceler] = "live"
            THEN [ctx EXCEPT ![canceler] = why] ELSE ctx

-----------------------------------------------------------------------------
(* SessionHandler and RunHandler: createSession audits, then stores the     *)
(* row, then remembers the prompt.                                          *)
CreateAudit(r) ==
  /\ r = Creator /\ status = "none"
  /\ Arrive(r, "create_store")
  /\ Record("session.created", r)
  /\ UNCHANGED <<status, routedAgent, memory, locals, runs, history>>

CreateStore(r) ==
  /\ Goto(r, "create_store", "create_remember")
  /\ status' = "created"
  /\ UNCHANGED <<routedAgent, audit, memory, locals, runs, history>>

CreateStoreFails(r) ==
  /\ Fails(r, "create_store", "store", "end")
  /\ UNCHANGED <<durable, memory, locals, runs, history>>

(* POST /v1/sessions answers here; POST /v1/runs goes on to route.          *)
CreateRemember(r) ==
  /\ \E next \in {"route", "end"} : Goto(r, "create_remember", next)
  /\ prompt' = r
  /\ UNCHANGED <<durable, canceler, stream, locals, runs, history>>

-----------------------------------------------------------------------------
(* MessagesHandler, whose tail RunHandler repeats: read the status, ask the *)
(* Orchestrator for a specialist, store agent and status, audit, remember.  *)
ArriveMessages(r) ==
  /\ r # Creator /\ status = "created"
  /\ Arrive(r, "route")
  /\ UNCHANGED <<durable, memory, locals, runs, history>>

Route(r) ==
  /\ Goto(r, "route", "set_agent")
  /\ \E a \in Agents : agent' = [agent EXCEPT ![r] = a] /\ selection' = selection \cup {<<r, a>>}
  /\ UNCHANGED <<durable, memory, carried, seen, runs, lost, crashes>>

SetAgent(r) ==
  /\ Goto(r, "set_agent", "set_status")
  /\ routedAgent' = agent[r]
  /\ UNCHANGED <<status, audit, memory, locals, runs, history>>

SetStatus(r) ==
  /\ Goto(r, "set_status", "audit_selected")
  /\ status' = "awaiting_confirmation"
  /\ UNCHANGED <<routedAgent, audit, memory, locals, runs, history>>

AuditSelected(r) ==
  /\ Goto(r, "audit_selected", "remember")
  /\ Record("router.specialist.selected", r)
  /\ UNCHANGED <<status, routedAgent, memory, locals, runs, history>>

(* Mutant: the routed prompt does not replace the creating request's.       *)
RememberFirst(r) ==
  /\ Goto(r, "remember", "end")
  /\ prompt' = IF prompt = None THEN r ELSE prompt
  /\ UNCHANGED <<durable, canceler, stream, locals, runs, history>>

Remember(r) ==
  /\ Goto(r, "remember", "end")
  /\ prompt' = r
  /\ UNCHANGED <<durable, canceler, stream, locals, runs, history>>

MessagesFails(r) ==
  /\ \/ Fails(r, "route", "orchestrator", "end")
     \/ Fails(r, "set_agent", "store", "end")
     \/ Fails(r, "set_status", "store", "end")
     \/ Fails(r, "audit_selected", "audit", "end")
  /\ UNCHANGED <<durable, memory, locals, runs, history>>

-----------------------------------------------------------------------------
(* ConfirmHandler: take the prompt, compare the named agent with the row,   *)
(* claim the session with a compare-and-swap, tell the Orchestrator, audit, *)
(* commit the claim, start the execution.                                   *)
ArriveConfirm(r, a) ==
  /\ r # Creator /\ prompt # None
  /\ Arrive(r, "confirm_get")
  /\ agent' = [agent EXCEPT ![r] = a]
  /\ carried' = [carried EXCEPT ![r] = prompt]
  /\ UNCHANGED <<durable, memory, seen, runs, history>>

AgentAllowed(r) == routedAgent \in {None, agent[r]}

ConfirmGet(r) ==
  /\ Goto(r, "confirm_get", IF AgentAllowed(r) THEN "confirm_cas" ELSE "end")
  /\ UNCHANGED <<durable, memory, locals, runs, history>>

ConfirmClaim(r) ==
  /\ Goto(r, "confirm_cas", "accept")
  /\ CompareAndSwapStatus("awaiting_confirmation", "confirming")
  /\ UNCHANGED <<routedAgent, audit, memory, locals, runs, history>>

ConfirmRefused(r) ==
  /\ Goto(r, "confirm_cas", "end")
  /\ status # "awaiting_confirmation" \/ "store" \in Faults
  /\ UNCHANGED <<durable, memory, locals, runs, history>>

Accept(r) ==
  /\ \/ Goto(r, "accept", "audit_confirmed")
     \/ Fails(r, "accept", "orchestrator", "reset")
  /\ UNCHANGED <<durable, memory, locals, runs, history>>

AuditConfirmed(r) ==
  /\ Goto(r, "audit_confirmed", "commit")
  /\ Record("session.confirmed", r)
  /\ UNCHANGED <<status, routedAgent, memory, locals, runs, history>>

(* Mutant: no reset when the confirmation cannot be audited.                *)
AuditConfirmedFailsNoReset(r) ==
  /\ Fails(r, "audit_confirmed", "audit", "end")
  /\ UNCHANGED <<durable, memory, locals, runs, history>>

(* Mutant: the audit error is logged and the confirm goes on.               *)
AuditConfirmedFailsOpen(r) ==
  /\ Fails(r, "audit_confirmed", "audit", "commit")
  /\ UNCHANGED <<durable, memory, locals, runs, history>>

AuditConfirmedFails(r) ==
  /\ Fails(r, "audit_confirmed", "audit", "reset")
  /\ UNCHANGED <<durable, memory, locals, runs, history>>

(* The reset is unconditional and its error is dropped.                     *)
Reset(r) ==
  /\ Goto(r, "reset", "end")
  /\ status' = "awaiting_confirmation"
  /\ UNCHANGED <<routedAgent, audit, memory, locals, runs, history>>

Commit(r) ==
  /\ Goto(r, "commit", "forget")
  /\ CompareAndSwapStatus("confirming", "confirmed")
  /\ UNCHANGED <<routedAgent, audit, memory, locals, runs, history>>

CommitRefused(r) ==
  /\ Goto(r, "commit", "end")
  /\ status # "confirming"
  /\ UNCHANGED <<durable, memory, locals, runs, history>>

(* A database error in the reset or the commit ends the request with the    *)
(* row still "confirming".                                                  *)
ConfirmStranded(r) ==
  /\ Fails(r, "reset", "store", "end") \/ Fails(r, "commit", "store", "end")
  /\ lost' = TRUE
  /\ UNCHANGED <<durable, memory, locals, runs, selection, crashes>>

-----------------------------------------------------------------------------
(* The tail of ConfirmHandler and TurnsHandler: forgetPrompt, then RunAsync *)
(* writes "running" over whatever the row holds, registers the CancelFunc   *)
(* over whatever the map holds, and spawns the executor.                    *)
Forget(r) ==
  /\ Goto(r, "forget", "set_running")
  /\ prompt' = None
  /\ UNCHANGED <<durable, canceler, stream, locals, runs, history>>

SetRunning(r) ==
  /\ Goto(r, "set_running", "register")
  /\ status' = "running"
  /\ UNCHANGED <<routedAgent, audit, memory, locals, runs, history>>

SetRunningFails(r) ==
  /\ Fails(r, "set_running", "store", "register")
  /\ lost' = TRUE
  /\ UNCHANGED <<durable, memory, locals, runs, selection, crashes>>

(* Mutant: the execution is spawned without registerCancel.                 *)
RegisterNothing(r) ==
  /\ Goto(r, "register", "end")
  /\ exec' = [exec EXCEPT ![r] = "start"]
  /\ UNCHANGED <<durable, memory, locals, ctx, history>>

(* Mutant: registerCancel keeps the entry it finds.                         *)
RegisterFirst(r) ==
  /\ Goto(r, "register", "end")
  /\ canceler' = IF canceler = None THEN r ELSE canceler
  /\ exec' = [exec EXCEPT ![r] = "start"]
  /\ UNCHANGED <<durable, prompt, stream, locals, ctx, history>>

Register(r) ==
  /\ Goto(r, "register", "end")
  /\ canceler' = r
  /\ exec' = [exec EXCEPT ![r] = "start"]
  /\ UNCHANGED <<durable, prompt, stream, locals, ctx, history>>

-----------------------------------------------------------------------------
(* TurnsHandler: read the status, reopen the stream, remember the prompt,   *)
(* route it unless the client named an agent, audit.  A manual turn then    *)
(* goes back to the confirm gate; an auto-confirmed one runs at once.       *)
ArriveTurn(r, a) ==
  /\ r # Creator /\ status \in TurnEligible
  /\ Arrive(r, "turn_reopen")
  /\ agent' = [agent EXCEPT ![r] = a]
  /\ carried' = [carried EXCEPT ![r] = r]
  /\ selection' = IF a = None THEN selection ELSE selection \cup {<<r, a>>}
  /\ UNCHANGED <<durable, memory, seen, runs, lost, crashes>>

TurnReopen(r) ==
  /\ Goto(r, "turn_reopen", "turn_remember")
  /\ stream' = "open"
  /\ UNCHANGED <<durable, prompt, canceler, locals, runs, history>>

TurnRemember(r) ==
  /\ Goto(r, "turn_remember", IF agent[r] = None THEN "turn_route" ELSE "audit_turn")
  /\ prompt' = r
  /\ UNCHANGED <<durable, canceler, stream, locals, runs, history>>

TurnRoute(r) ==
  /\ Goto(r, "turn_route", "audit_turn")
  /\ \E a \in Agents : agent' = [agent EXCEPT ![r] = a] /\ selection' = selection \cup {<<r, a>>}
  /\ UNCHANGED <<durable, memory, carried, seen, runs, lost, crashes>>

(* The client chose between a manual and an auto-confirmed turn.            *)
AuditTurn(r) ==
  /\ \E next \in {"turn_set_agent", "turn_accept"} : Goto(r, "audit_turn", next)
  /\ Record("session.turn.requested", r)
  /\ UNCHANGED <<status, routedAgent, memory, locals, runs, history>>

TurnSetAgent(r) ==
  /\ Goto(r, "turn_set_agent", "turn_set_status")
  /\ routedAgent' = agent[r]
  /\ UNCHANGED <<status, audit, memory, locals, runs, history>>

TurnSetStatus(r) ==
  /\ Goto(r, "turn_set_status", "end")
  /\ status' = "awaiting_confirmation"
  /\ UNCHANGED <<routedAgent, audit, memory, locals, runs, history>>

TurnAccept(r) ==
  /\ Goto(r, "turn_accept", "audit_turn_confirmed")
  /\ UNCHANGED <<durable, memory, locals, runs, history>>

AuditTurnConfirmed(r) ==
  /\ Goto(r, "audit_turn_confirmed", "forget")
  /\ Record("session.turn.confirmed", r)
  /\ UNCHANGED <<status, routedAgent, memory, locals, runs, history>>

TurnFails(r) ==
  /\ \/ Fails(r, "turn_route", "orchestrator", "end")
     \/ Fails(r, "audit_turn", "audit", "end")
     \/ Fails(r, "turn_set_agent", "store", "end")
     \/ Fails(r, "turn_set_status", "store", "end")
     \/ Fails(r, "turn_accept", "orchestrator", "end")
     \/ Fails(r, "audit_turn_confirmed", "audit", "end")
  /\ UNCHANGED <<durable, memory, locals, runs, history>>

-----------------------------------------------------------------------------
(* AbortHandler: read the status, audit, swap that status for "aborted",    *)
(* cancel the registered execution, close the stream.                       *)
ArriveAbort(r) ==
  /\ r # Creator /\ status # "none"
  /\ Arrive(r, "audit_aborted")
  /\ seen' = [seen EXCEPT ![r] = status]
  /\ UNCHANGED <<durable, memory, agent, carried, runs, history>>

AuditAborted(r) ==
  /\ Goto(r, "audit_aborted", "abort_cas")
  /\ Record("session.aborted", r)
  /\ UNCHANGED <<status, routedAgent, memory, locals, runs, history>>

AbortCommit(r) ==
  /\ Goto(r, "abort_cas", "abort_cancel")
  /\ CompareAndSwapStatus(seen[r], "aborted")
  /\ UNCHANGED <<routedAgent, audit, memory, locals, runs, history>>

AbortRefused(r) ==
  /\ \/ Fails(r, "audit_aborted", "audit", "end")
     \/ Goto(r, "abort_cas", "end") /\ (status # seen[r] \/ "store" \in Faults)
  /\ UNCHANGED <<durable, memory, locals, runs, history>>

AbortCancel(r) ==
  /\ Goto(r, "abort_cancel", "abort_close")
  /\ CancelExecution("abort")
  /\ UNCHANGED <<durable, prompt, stream, locals, exec, history>>

AbortClose(r) ==
  /\ Goto(r, "abort_close", "end")
  /\ stream' = "closed"
  /\ UNCHANGED <<durable, prompt, canceler, locals, runs, history>>

-----------------------------------------------------------------------------
(* SessionExecutor.Run.  Status writes use context.Background(); the audit  *)
(* appends and the dispatch use the execution's context and do nothing once *)
(* it is cancelled.                                                         *)
Advance(x, from, to) == exec[x] = from /\ exec' = [exec EXCEPT ![x] = to]

(* The errors of these appends are dropped.  runtime.started and            *)
(* runtime.done, which no property reads, are left out of the table.        *)
RecordIfLive(event, x) ==
  \/ ctx[x] = "live" /\ Record(event, x)
  \/ (ctx[x] # "live" \/ "audit" \in Faults) /\ audit' = audit

ExecStart(x) ==
  /\ Advance(x, "start", "dispatch")
  /\ UNCHANGED <<durable, memory, pc, locals, ctx, history>>

(* Dispatch answers with the runtime's events; among them may be a tool     *)
(* loop over its cap or a patch the buffer refuses.                         *)
ExecDispatched(x) ==
  /\ ctx[x] = "live"
  /\ \E next \in {"publish_done", "deny_audit"} : Advance(x, "dispatch", next)
  /\ UNCHANGED <<durable, memory, pc, locals, ctx, history>>

ExecDispatchFails(x) ==
  /\ Advance(x, "dispatch", "fail_status")
  /\ ctx[x] # "live" \/ "orchestrator" \in Faults
  /\ UNCHANGED <<durable, memory, pc, locals, ctx, history>>

(* setSessionStatus drops the error of its UPDATE.                          *)
ExecSetStatus(x, from, new, to) ==
  /\ Advance(x, from, to)
  /\ \/ status' = new /\ lost' = lost
     \/ "store" \in Faults /\ status' = status /\ lost' = TRUE
  /\ UNCHANGED <<routedAgent, audit, memory, pc, locals, ctx, selection, crashes>>

ExecFailStatus(x) == ExecSetStatus(x, "fail_status", "failed", "fail_audit")

ExecFailAudit(x) ==
  /\ Advance(x, "fail_audit", "close_failed")
  /\ RecordIfLive("runtime.failed", x)
  /\ UNCHANGED <<status, routedAgent, memory, pc, locals, ctx, history>>

ExecDenyAudit(x) ==
  /\ Advance(x, "deny_audit", "deny_status")
  /\ RecordIfLive("runtime.denied", x)
  /\ UNCHANGED <<status, routedAgent, memory, pc, locals, ctx, history>>

ExecDenyStatus(x) == ExecSetStatus(x, "deny_status", "failed", "close_failed")

ExecCloseFailed(x) ==
  /\ Advance(x, "close_failed", "sweep")
  /\ stream' = "closed"
  /\ UNCHANGED <<durable, prompt, canceler, pc, locals, ctx, history>>

ExecPublishDone(x) ==
  /\ Advance(x, "publish_done", "done_status")
  /\ stream' = "closed"
  /\ UNCHANGED <<durable, prompt, canceler, pc, locals, ctx, history>>

ExecDoneStatus(x) == ExecSetStatus(x, "done_status", "done", "done_audit")

ExecDoneAudit(x) ==
  /\ Advance(x, "done_audit", "sweep")
  /\ UNCHANGED <<durable, memory, pc, locals, ctx, history>>

(* defer e.service.cancelExecution(sessionID): by session, not by execution *)
ExecSweep(x) ==
  /\ Advance(x, "sweep", "over")
  /\ CancelExecution("swept")
  /\ UNCHANGED <<durable, prompt, stream, pc, locals, history>>

-----------------------------------------------------------------------------
(* The environment: deadlines, expiries, a crash of the Governance Shell.   *)
ExecTimeout(x) ==
  /\ "timeout" \in Faults /\ x \in LiveExecutions /\ ctx[x] = "live"
  /\ ctx' = [ctx EXCEPT ![x] = "timeout"]
  /\ UNCHANGED <<durable, memory, pc, locals, exec, history>>

PromptExpires ==
  /\ "expiry" \in Faults /\ prompt # None
  /\ prompt' = None
  /\ UNCHANGED <<durable, canceler, stream, pc, locals, runs, history>>

(* evictCancelsLocked deletes the CancelFunc without calling it.            *)
CancelEvicted ==
  /\ "evict" \in Faults /\ canceler # None
  /\ canceler' = None
  /\ UNCHANGED <<durable, prompt, stream, pc, locals, runs, history>>

(* Nothing reads the transient rows back at start-up.                       *)
Crash ==
  /\ "crash" \in Faults /\ crashes < MaxCrashes /\ status # "none"
  /\ pc' = [r \in Requests |-> IF r \in InFlight THEN "end" ELSE pc[r]]
  /\ exec' = [x \in Requests |-> IF x \in LiveExecutions THEN "over" ELSE exec[x]]
  /\ prompt' = None /\ canceler' = None /\ stream' = "open"
  /\ lost' = TRUE /\ crashes' = crashes + 1
  /\ UNCHANGED <<durable, locals, ctx, selection>>

-----------------------------------------------------------------------------
Arrivals(r) ==
  \/ CreateAudit(r)
  \/ ArriveMessages(r)
  \/ \E a \in Agents : ArriveConfirm(r, a)
  \/ \E a \in Agents \cup {None} : ArriveTurn(r, a)
  \/ ArriveAbort(r)

CreateStep(r) == CreateStore(r) \/ CreateStoreFails(r) \/ CreateRemember(r)

MessagesStep(r) ==
  Route(r) \/ SetAgent(r) \/ SetStatus(r) \/ AuditSelected(r) \/ Remember(r) \/ MessagesFails(r)

ConfirmStep(r) ==
  \/ ConfirmGet(r) \/ ConfirmClaim(r) \/ ConfirmRefused(r) \/ Accept(r)
  \/ AuditConfirmed(r) \/ AuditConfirmedFails(r) \/ Reset(r)
  \/ Commit(r) \/ CommitRefused(r) \/ ConfirmStranded(r)

RunStep(r) == Forget(r) \/ SetRunning(r) \/ SetRunningFails(r) \/ Register(r)

TurnStep(r) ==
  \/ TurnReopen(r) \/ TurnRemember(r) \/ TurnRoute(r) \/ AuditTurn(r) \/ TurnSetAgent(r)
  \/ TurnSetStatus(r) \/ TurnAccept(r) \/ AuditTurnConfirmed(r) \/ TurnFails(r)

AbortStep(r) ==
  AuditAborted(r) \/ AbortCommit(r) \/ AbortRefused(r) \/ AbortCancel(r) \/ AbortClose(r)

Handle(r) ==
  CreateStep(r) \/ MessagesStep(r) \/ ConfirmStep(r) \/ RunStep(r) \/ TurnStep(r) \/ AbortStep(r)

Execute(x) ==
  \/ ExecStart(x) \/ ExecDispatched(x) \/ ExecDispatchFails(x)
  \/ ExecFailStatus(x) \/ ExecFailAudit(x) \/ ExecCloseFailed(x)
  \/ ExecDenyAudit(x) \/ ExecDenyStatus(x)
  \/ ExecPublishDone(x) \/ ExecDoneStatus(x) \/ ExecDoneAudit(x)
  \/ ExecSweep(x)

Environment == (\E x \in Requests : ExecTimeout(x)) \/ PromptExpires \/ CancelEvicted \/ Crash

Next == (\E r \in Requests : Arrivals(r) \/ Handle(r) \/ Execute(r)) \/ Environment

Spec == Init /\ [][Next]_vars

(* Go runs every goroutine, and each blocking call returns: SQLite and the  *)
(* Orchestrator client answer or fail, Dispatch at the latest when the      *)
(* execution's deadline cancels its context.  No client has to come back.   *)
Fairness == \A r \in Requests : WF_vars(Handle(r)) /\ WF_vars(Execute(r))

FairSpec == Spec /\ Fairness

-----------------------------------------------------------------------------
TypeOK ==
  /\ status \in Status /\ routedAgent \in Agents \cup {None}
  /\ audit \subseteq EventTypes \X Requests
  /\ prompt \in Requests \cup {None} /\ canceler \in Requests \cup {None}
  /\ stream \in {"open", "closed"}
  /\ pc \in [Requests -> Labels]
  /\ agent \in [Requests -> Agents \cup {None}]
  /\ carried \in [Requests -> Requests \cup {None}]
  /\ seen \in [Requests -> Status]
  /\ exec \in [Requests -> Phases]
  /\ ctx \in [Requests -> {"live", "abort", "timeout", "swept"}]
  /\ selection \subseteq Requests \X Agents
  /\ lost \in BOOLEAN /\ crashes \in 0 .. MaxCrashes

(* Fail closed: whatever fails, crashes or overlaps, no execution starts    *)
(* before its approval is in the audit table (confirm.go:109-132,           *)
(* turns.go:184-206).                                                       *)
Approvals(r) == {<<"session.confirmed", r>>, <<"session.turn.confirmed", r>>}

ApprovedBeforeRunning ==
  \A r \in Requests :
    exec[r] # "none" \/ pc[r] \in {"forget", "set_running", "register"} => Approvals(r) \cap audit # {}

(* The three statuses that no client request can leave always have someone  *)
(* at work who will move them on, unless a status write was lost to a       *)
(* database error or a crash (confirm.go:96-137, execution.go:46-204).      *)
TransientHasOwner ==
  ~lost =>
    /\ status = "confirming" => \E r \in Requests : pc[r] \in {"accept", "audit_confirmed", "commit", "reset"}
    /\ status = "confirmed" => \E r \in Requests : pc[r] \in {"forget", "set_running"}
    /\ status = "running" => \E r \in Requests : pc[r] = "register" \/ exec[r] \in Unsettled

(* The cancel map never holds a function whose execution is gone: the       *)
(* deferred sweep empties the session's entry (execution.go:50-51).         *)
CancelerIsLive == canceler # None => canceler \in LiveExecutions

(* As long as a session has started one execution only, an abort or sweep   *)
(* finds its CancelFunc in the map (execution.go:47-48), unless             *)
(* LocalStateTTL is below the execution timeout.                            *)
SoleExecutionCancelable ==
  "evict" \notin Faults =>
    \A x \in LiveExecutions :
      ctx[x] = "live" => canceler = x \/ \E y \in Requests \ {x} : exec[y] # "none"

(* Once "aborted" is written and everyone who was already past a status     *)
(* check has drained, no later request revives the session                  *)
(* (messages.go:97, confirm.go:96, turns.go:91, abort.go:74).               *)
PastGate ==
  {"route", "set_agent", "set_status", "accept", "audit_confirmed", "commit", "reset", "forget",
   "set_running", "turn_reopen", "turn_remember", "turn_route", "audit_turn", "turn_set_agent",
   "turn_set_status", "turn_accept", "audit_turn_confirmed", "create_store", "create_remember",
   "register"}

Sealed ==
  /\ status = "aborted"
  /\ \A r \in Requests : pc[r] \notin PastGate /\ exec[r] \notin Unsettled

SealedStaysSealed == [][Sealed => Sealed']_vars

(* An execution gets a prompt together with the agent picked for that very  *)
(* prompt (messages.go:144-193, confirm.go:70-150, turns.go:107-206).       *)
RunsWhatWasRouted ==
  \A r \in Requests : exec[r] # "none" => <<carried[r], agent[r]>> \in selection

(* At most one executor per session has not yet written its result: a turn  *)
(* starts only "on a completed session" (turns.go:91).                      *)
OneExecution == Cardinality({r \in Requests : exec[r] \in Unsettled}) <= 1

(* "Cancel any running execution for this session." (abort.go:80): no       *)
(* execution that is still to write its result outlives an abort's cancel,  *)
(* as long as each client call waits for the one before.                    *)
AbortCancelsAll ==
  [][\A r \in Requests : pc[r] = "abort_cancel" /\ pc'[r] = "abort_close" =>
       \A x \in Requests : exec[x] \in Unsettled => ctx'[x] # "live"]_vars

(* A session does not stay in a status no request can leave, unless a       *)
(* status write was lost (confirm.go:96-137, execution.go:46-204).           *)
Transient == {"confirming", "confirmed", "running"}

TransientIsLeft == status \in Transient ~> status \notin Transient \/ lost

-----------------------------------------------------------------------------
(* Claims of the documentation and comments.                                *)

(* sessionStatusAllowsModelCalls of the model gateway.                      *)
ModelCallsAllowed(s) == s \in {"created", "awaiting_confirmation", "confirming", "confirmed", "running"}

(* "Model calls are rejected with 409 once a session reaches a terminal     *)
(* status (done, failed, aborted)" (docs/api-contract-v1.md:69): "aborted", *)
(* which no later request may leave, is never written over with a status    *)
(* that admits model calls.                                                 *)
AbortedStopsModelCalls == [][status = "aborted" => ~ModelCallsAllowed(status')]_status

(* A follow-up turn streams: "Reopen clears the closed flag so a follow-up  *)
(* turn can stream new events on the same session" (stream.go:113).         *)
FollowUpStreams ==
  \A x \in Requests : exec[x] \in Unsettled \ {"fail_status", "done_status"} /\ ctx[x] = "live" => stream = "open"

(* "Completed or patch-ready sessions can now continue through              *)
(* /v1/sessions/{id}/turns" (changelog.md:206): no execution is cancelled   *)
(* but by an abort or by its deadline.                                      *)
NoExecutionSwept == \A x \in Requests : exec[x] \in Unsettled => ctx[x] # "swept"
=============================================================================
