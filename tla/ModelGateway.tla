------------------------------ MODULE ModelGateway ------------------------------
(***************************************************************************)
(* The model compatibility gateway of the Governance Shell and the other   *)
(* handlers that act for a runtime on a session: chat completions and      *)
(* responses (with or without streaming), the Orchestrator's model proxy   *)
(* and the MCP tool proxy.  A gateway call without a session header opens  *)
(* an auto session of its own and finishes it when it ends; a Task tool    *)
(* call seen in the answer records a delegated child session.  Appends to  *)
(* the audit log and status writes may fail, clients leave, owners abort   *)
(* and the process restarts.  The kill switch has a module of its own:     *)
(* here a gate may always refuse.                                          *)
(***************************************************************************)
EXTENDS Naturals, FiniteSets

CONSTANTS
    Calls,        \* the calls runtimes make, each at most once
    Shared,       \* an interactive session that exists from the start; no call
    Unset,        \* no value: the session of a call without one, the status of a missing row
    Requests,     \* the requests each call may make, <<endpoint, stream>>: a function
    MaxTroubles   \* failing database operations, clients that leave, restarts

VARIABLES
    raw,       \* does the backend forward raw bodies (modelbackend.RawChatBackend)
    status,    \* status column of the sessions; an auto session is named by its call
    child,     \* calls whose delegated child session has been created
    call,      \* the handler of each call
    log,       \* the audit log, as a set of <<event, call>>
    abort,     \* the abort request of an owner: [pc, sess, seen]
    troubles,  \* database failures, departures and restarts so far
    lost       \* history: calls whose last status write was lost

gatewayVars == <<raw, status, child, call, log, abort, troubles, lost>>

GatewaySessions == Calls \cup {Shared}
Open     == {"awaiting_confirmation", "running"}
Statuses == Open \cup {"completed", "failed", "aborted", Unset}
Models   == {"chat", "responses"}     \* the endpoints of the gateway itself
Kinds    == Models \cup {"proxy", "mcp"}

GatewayConstants ==
    /\ Shared \notin Calls /\ Unset \notin GatewaySessions
    /\ Unset \notin Open \cup {"completed", "failed", "aborted"} \cup Kinds \cup {"whole"}
    /\ Requests \in [Calls -> SUBSET (Kinds \X BOOLEAN)]
    /\ MaxTroubles \in Nat

ASSUME GatewayAssumption == GatewayConstants

NoCall == [pc |-> "idle", kind |-> Unset, stream |-> FALSE, sess |-> Unset,
           finish |-> "failed", result |-> Unset, task |-> FALSE, gone |-> FALSE,
           answered |-> FALSE]
NoAbort == [pc |-> "idle", sess |-> Unset, seen |-> Unset]

InFlight(c)    == call[c].pc \notin {"idle", "done", "lost"}
AutoSession(c) == call[c].sess = c

GatewayInit ==
    /\ raw \in BOOLEAN
    /\ status = [s \in GatewaySessions |-> IF s = Shared THEN "running" ELSE Unset]
    /\ child = {} /\ log = {}
    /\ call = [c \in Calls |-> NoCall]
    /\ abort = NoAbort
    /\ troubles = 0 /\ lost = {}

-----------------------------------------------------------------------------
(* The database.  A statement of a call whose request has been cancelled   *)
(* fails; any other one may fail, MaxTroubles times in a behaviour.        *)

DbWorks(gone, ok) ==
    IF ok THEN ~gone /\ troubles' = troubles
    ELSE \/ gone /\ troubles' = troubles
         \/ ~gone /\ troubles < MaxTroubles /\ troubles' = troubles + 1

\* One append; detached: on a context of its own, not the request's.
AppendEvent(c, event, detached, ok) ==
    /\ DbWorks(call[c].gone /\ ~detached, ok)
    /\ log' = IF ok THEN log \cup {<<event, c>>} ELSE log

Goto(c, pc) == call' = [call EXCEPT ![c].pc = pc]

\* Rejected before anything happened: the handler returns.
TurnAway(c) == call' = [call EXCEPT ![c] = [NoCall EXCEPT !.pc = "done"]]

-----------------------------------------------------------------------------
(* Resolving the session.                                                  *)

\* A request without a session header reaches resolveSession.
ArriveAuto(c, kind, stream) ==
    /\ call[c].pc = "idle" /\ kind \in Models
    /\ call' = [call EXCEPT ![c].pc = "check", ![c].kind = kind, ![c].stream = stream]
    /\ UNCHANGED <<raw, status, child, log, abort, troubles, lost>>

\* A request with a session header: sessionInfo checks the status; the proxies
\* only look the record up.  The record of an auto session does not say that it
\* was auto-created.
ArriveWithSession(c, kind, stream, s) ==
    /\ call[c].pc = "idle" /\ s # c
    /\ LET found  == status[s] # Unset
           active == kind \in Models => status[s] \in Open
           next   == CASE kind = "mcp"   -> "check"
                       [] kind = "proxy" -> "upstream"
                       [] OTHER          -> "route"
       IN  IF found /\ active
           THEN call' = [call EXCEPT ![c].pc = next, ![c].kind = kind,
                                     ![c].stream = stream, ![c].sess = s]
           ELSE TurnAway(c)
    /\ UNCHANGED <<raw, status, child, log, abort, troubles, lost>>

\* CreateAutoGatewaySession: kill switches, work item and policy.  A denial has an
\* audit event of its own, whose error is ignored; the log here holds what follows.
CheckAuto(c) ==
    /\ call[c].pc = "check" /\ call[c].kind # "mcp"
    /\ Goto(c, "audit_auto") \/ TurnAway(c)
    /\ UNCHANGED <<raw, status, child, log, abort, troubles, lost>>

AuditAuto(c) ==
    /\ call[c].pc = "audit_auto"
    /\ \E ok \in BOOLEAN :
          /\ AppendEvent(c, "session.auto_created", FALSE, ok)
          /\ IF ok THEN Goto(c, "create") ELSE TurnAway(c)
    /\ UNCHANGED <<raw, status, child, abort, lost>>

CreateAuto(c) ==
    /\ call[c].pc = "create"
    /\ \E ok \in BOOLEAN :
          /\ DbWorks(call[c].gone, ok)
          /\ IF ok THEN /\ status' = [status EXCEPT ![c] = "running"]
                        /\ call' = [call EXCEPT ![c].pc = "route", ![c].sess = c]
                   ELSE TurnAway(c) /\ UNCHANGED status
    /\ UNCHANGED <<raw, child, log, abort, lost>>

-----------------------------------------------------------------------------
(* The model call.                                                         *)

\* Mutant: an early return that does not pass the deferred finish.
RouteReturns(c) ==
    /\ call[c].pc = "route"
    /\ \/ ~(call[c].kind = "responses" /\ call[c].stream /\ ~raw) /\ Goto(c, "upstream")
       \/ Goto(c, "done")
    /\ UNCHANGED <<raw, status, child, log, abort, troubles, lost>>

\* routeModel and applyGovernedReasoning may refuse; responses without a raw
\* backend cannot stream.
Route(c) ==
    /\ call[c].pc = "route"
    /\ \/ ~(call[c].kind = "responses" /\ call[c].stream /\ ~raw) /\ Goto(c, "upstream")
       \/ Goto(c, "finish")
    /\ UNCHANGED <<raw, status, child, log, abort, troubles, lost>>

\* The provider's part, up to its last byte: an error (of a stream at its start or by
\* an end without completion), an answer, or for a stream also response.incomplete or
\* a client that leaves between two lines.  The answer may hold a Task tool call.
Results(c) ==
    {"error"} \cup (IF call[c].gone THEN {} ELSE {"whole"})
              \cup (IF call[c].stream /\ call[c].kind = "responses" THEN {"incomplete"} ELSE {})
              \cup (IF call[c].stream /\ call[c].gone THEN {"left"} ELSE {})

Upstream(c) ==
    /\ call[c].pc = "upstream"
    /\ \E r \in Results(c), t \in BOOLEAN :
          /\ t => r = "whole" /\ call[c].kind # "proxy"
          /\ call' = [call EXCEPT ![c].pc = "answer", ![c].result = r, ![c].task = t]
    /\ UNCHANGED <<raw, status, child, log, abort, troubles, lost>>

EndEvent(c) ==
    IF ~call[c].stream THEN "model.call"
    ELSE CASE call[c].result = "whole"      -> "stream.completed"
           [] call[c].result = "incomplete" -> "stream.incomplete"
           [] OTHER                         -> "stream.failed"

\* Mutant: a truncated stream counts as completed.
AuditCallTruncated(c) ==
    /\ call[c].pc = "answer" /\ call[c].kind # "proxy"
    /\ \E ok \in BOOLEAN :
          /\ AppendEvent(c, EndEvent(c), call[c].result = "left", ok)
          /\ call' = [call EXCEPT
                 ![c].pc = IF ok /\ call[c].result = "whole" /\ call[c].task
                           THEN "delegate" ELSE "respond",
                 ![c].finish = IF call[c].result \in {"whole", "incomplete"} THEN "completed" ELSE @]
    /\ UNCHANGED <<raw, status, child, abort, lost>>

\* auditModelCall: the end of the call is recorded and an error of the append is
\* dropped.  finishStatus becomes "completed" on a streamed answer and on one of a
\* backend that is not raw, nowhere else; the session is delegated to only from an
\* answer that is recorded and whole.
AuditCall(c) ==
    /\ call[c].pc = "answer" /\ call[c].kind # "proxy"
    /\ \E ok \in BOOLEAN :
          /\ AppendEvent(c, EndEvent(c), call[c].result = "left", ok)
          /\ LET whole == call[c].result = "whole"
             IN  call' = [call EXCEPT
                    ![c].pc = IF ok /\ whole /\ call[c].task THEN "delegate" ELSE "respond",
                    ![c].finish = IF whole /\ (call[c].stream \/ ~raw)
                                  THEN "completed" ELSE @]
    /\ UNCHANGED <<raw, status, child, abort, lost>>

\* Mutant: the answer is given although it is not recorded.
AuditProxyAnyway(c) ==
    /\ call[c].pc = "answer" /\ call[c].kind = "proxy"
    /\ \E ok \in BOOLEAN :
          /\ AppendEvent(c, "model.proxy_call", FALSE, ok)
          /\ call' = [call EXCEPT ![c].pc = "done", ![c].answered = TRUE]
    /\ UNCHANGED <<raw, status, child, abort, lost>>

\* The Orchestrator's model proxy: only an answer is recorded, and it is not given
\* when it cannot be.
AuditProxy(c) ==
    /\ call[c].pc = "answer" /\ call[c].kind = "proxy"
    /\ IF call[c].result = "whole"
       THEN \E ok \in BOOLEAN :
               /\ AppendEvent(c, "model.proxy_call", FALSE, ok)
               /\ call' = [call EXCEPT ![c].pc = "done", ![c].answered = ok]
       ELSE TurnAway(c) /\ UNCHANGED <<log, troubles>>
    /\ UNCHANGED <<raw, status, child, abort, lost>>

-----------------------------------------------------------------------------
(* Delegation: DelegateTask, CreateDelegatedTaskSession.                   *)

\* The agent's configuration, the parent's record, the kill switch, the policy; a
\* denial is audited like the one of an auto session.
CheckDelegation(c) ==
    /\ call[c].pc = "delegate"
    /\ \/ ~call[c].gone /\ Goto(c, "audit_child")
       \/ Goto(c, "respond")
    /\ UNCHANGED <<raw, status, child, log, abort, troubles, lost>>

\* Mutant: the child is created although its event could not be appended.
AuditDelegationAnyway(c) ==
    /\ call[c].pc = "audit_child"
    /\ \E ok \in BOOLEAN : AppendEvent(c, "session.delegated", FALSE, ok)
    /\ Goto(c, "create_child")
    /\ UNCHANGED <<raw, status, child, abort, lost>>

AuditDelegation(c) ==
    /\ call[c].pc = "audit_child"
    /\ \E ok \in BOOLEAN :
          /\ AppendEvent(c, "session.delegated", FALSE, ok)
          /\ Goto(c, IF ok THEN "create_child" ELSE "respond")
    /\ UNCHANGED <<raw, status, child, abort, lost>>

CreateChild(c) ==
    /\ call[c].pc = "create_child"
    /\ \E ok \in BOOLEAN :
          /\ DbWorks(call[c].gone, ok)
          /\ child' = IF ok THEN child \cup {c} ELSE child
    /\ Goto(c, "respond")
    /\ UNCHANGED <<raw, status, log, abort, lost>>

\* The answer is written; a stream has been written as it came.
Respond(c) ==
    /\ call[c].pc = "respond"
    /\ call' = [call EXCEPT ![c].pc = "finish", ![c].answered = call[c].result = "whole"]
    /\ UNCHANGED <<raw, status, child, log, abort, troubles, lost>>

\* Mutant: the status is written without comparing it first.
FinishBlindly(c) ==
    /\ call[c].pc = "finish"
    /\ call' = [call EXCEPT ![c].pc = "done", ![c].gone = FALSE, ![c].task = FALSE]
    /\ IF ~AutoSession(c) THEN UNCHANGED <<status, troubles, lost>>
       ELSE \E ok \in BOOLEAN :
               /\ DbWorks(FALSE, ok)
               /\ status' = IF ok THEN [status EXCEPT ![c] = call[c].finish] ELSE status
               /\ lost' = IF ok THEN lost ELSE lost \cup {c}
    /\ UNCHANGED <<raw, child, log, abort>>

\* finishGatewayAutoSession, deferred by the handler: CompareAndSwapStatus from
\* "running", on a context of its own and with its error ignored.
Finish(c) ==
    /\ call[c].pc = "finish"
    /\ call' = [call EXCEPT ![c].pc = "done", ![c].gone = FALSE, ![c].task = FALSE]
    /\ IF ~AutoSession(c) THEN UNCHANGED <<status, troubles, lost>>
       ELSE \E ok \in BOOLEAN :
               /\ DbWorks(FALSE, ok)
               /\ status' = IF ok /\ status[c] = "running"
                            THEN [status EXCEPT ![c] = call[c].finish] ELSE status
               /\ lost' = IF ok THEN lost ELSE lost \cup {c}
    /\ UNCHANGED <<raw, child, log, abort>>

-----------------------------------------------------------------------------
(* The MCP proxy: policy and credential, then the audit event, then the    *)
(* upstream tool.  The session's status is not looked at.                  *)

CheckTool(c) ==
    /\ call[c].pc = "check" /\ call[c].kind = "mcp"
    /\ \/ \E ok \in BOOLEAN :      \* allowed, with a credential
             /\ AppendEvent(c, "mcp.forwarded", FALSE, ok)
             /\ IF ok THEN Goto(c, "forward") ELSE TurnAway(c)
       \/ TurnAway(c) /\ UNCHANGED <<log, troubles>>
    /\ UNCHANGED <<raw, status, child, abort, lost>>

\* The tool runs; answered says that it has.
Forward(c) ==
    /\ call[c].pc = "forward"
    /\ \E a \in BOOLEAN : call' = [call EXCEPT ![c].pc = "done", ![c].answered = a]
    /\ UNCHANGED <<raw, status, child, log, abort, troubles, lost>>

-----------------------------------------------------------------------------
(* What happens around the calls.                                          *)

\* The client of a call closes its connection: the request's context ends.
ClientLeaves(c) ==
    /\ InFlight(c) /\ ~call[c].gone
    /\ troubles < MaxTroubles /\ troubles' = troubles + 1
    /\ call' = [call EXCEPT ![c].gone = TRUE]
    /\ UNCHANGED <<raw, status, child, log, abort, lost>>

\* The interactive session moves on under the session handlers.
SharedMoves ==
    /\ status[Shared] = "running"
    /\ status' = [status EXCEPT ![Shared] = "completed"]
    /\ UNCHANGED <<raw, child, call, log, abort, troubles, lost>>

\* AbortHandler: it reads the record, appends session.aborted, then swaps the
\* status it has read.  One request, for a session that is open, is enough here.
AbortReads(s) ==
    /\ abort.pc = "idle" /\ status[s] \in Open
    /\ abort' = [pc |-> "audit", sess |-> s, seen |-> status[s]]
    /\ UNCHANGED <<raw, status, child, call, log, troubles, lost>>

AbortAudits ==
    /\ abort.pc = "audit"
    /\ \E ok \in BOOLEAN :
          /\ DbWorks(FALSE, ok)
          /\ log' = IF ok THEN log \cup {<<"session.aborted", abort.sess>>} ELSE log
          /\ abort' = [abort EXCEPT !.pc = IF ok THEN "swap" ELSE "refused"]
    /\ UNCHANGED <<raw, status, child, call, lost>>

AbortSwaps ==
    /\ abort.pc = "swap"
    /\ \E ok \in BOOLEAN :
          /\ DbWorks(FALSE, ok)
          /\ LET swaps == ok /\ status[abort.sess] = abort.seen
             IN  /\ status' = IF swaps THEN [status EXCEPT ![abort.sess] = "aborted"] ELSE status
                 /\ abort' = [abort EXCEPT !.pc = IF swaps THEN "aborted" ELSE "refused"]
    /\ UNCHANGED <<raw, child, call, log, lost>>

-----------------------------------------------------------------------------
(* A crash.                                                                *)

\* The process stops and starts again: every handler and its deferred calls are gone.
GatewayRestarts ==
    /\ troubles < MaxTroubles /\ troubles' = troubles + 1
    /\ call' = [c \in Calls |-> IF InFlight(c) THEN [call[c] EXCEPT !.pc = "lost"] ELSE call[c]]
    /\ lost' = lost \cup {c \in Calls : InFlight(c)}
    /\ abort' = IF abort.pc \in {"audit", "swap"} THEN [abort EXCEPT !.pc = "refused"] ELSE abort
    /\ UNCHANGED <<raw, status, child, log>>

-----------------------------------------------------------------------------
Step(c) ==
    \/ CheckAuto(c) \/ AuditAuto(c) \/ CreateAuto(c) \/ Route(c)
    \/ AuditCall(c) \/ AuditProxy(c)
    \/ CheckDelegation(c) \/ AuditDelegation(c) \/ CreateChild(c)
    \/ Respond(c) \/ Finish(c) \/ CheckTool(c)

GatewayNext ==
    \/ \E c \in Calls :
          \/ \E r \in Requests[c] :
                \/ ArriveAuto(c, r[1], r[2])
                \/ \E s \in GatewaySessions : ArriveWithSession(c, r[1], r[2], s)
          \/ Step(c) \/ Upstream(c) \/ Forward(c) \/ ClientLeaves(c)
    \/ SharedMoves
    \/ \E s \in GatewaySessions : AbortReads(s)
    \/ AbortAudits \/ AbortSwaps
    \/ GatewayRestarts

GatewaySpec == GatewayInit /\ [][GatewayNext]_gatewayVars

-----------------------------------------------------------------------------
(* Properties.                                                             *)

\* An auto session is running only while the call that opened it is in progress;
\* otherwise its last status write failed or the process stopped under it.  Every
\* return of the handlers, on errors and in streams, has to pass the deferred
\* finishGatewayAutoSession.
RunningIsOwned ==
    \A c \in Calls : status[c] = "running" => InFlight(c) \/ c \in lost

\* A streamed call whose session is its own leaves it completed exactly when the
\* provider's stream was whole, and failed when it was cut, truncated or abandoned,
\* unless the owner aborted it.
StatusTellsTheEnd ==
    \A c \in Calls :
        AutoSession(c) /\ call[c].stream /\ call[c].pc = "done" /\ c \notin lost =>
            status[c] \in {IF call[c].result = "whole" THEN "completed" ELSE "failed", "aborted"}

\* An abort that was answered holds: no call that was in progress writes its end over
\* the aborted status, nor does the end of the interactive session.
AbortHolds == abort.pc = "aborted" => status[abort.sess] = "aborted"

\* What was done for a runtime stands in the log.  The MCP proxy and the Orchestrator's
\* model proxy are fail-closed: no tool has run and no answer has been given that was not
\* recorded first.  A delegated child session stands there together with the recorded,
\* whole answer of its parent that asked for it.
WorkIsLogged ==
    /\ \A c \in Calls : call[c].answered =>
          /\ call[c].kind = "mcp"   => <<"mcp.forwarded", c>> \in log
          /\ call[c].kind = "proxy" => <<"model.proxy_call", c>> \in log
    /\ \A c \in child :
          /\ <<"session.delegated", c>> \in log
          /\ \E e \in {"model.call", "stream.completed"} : <<e, c>> \in log
          /\ status[call[c].sess] # Unset

=============================================================================
