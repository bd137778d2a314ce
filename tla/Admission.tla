------------------------------- MODULE Admission -------------------------------
(***************************************************************************)
(* How a session is admitted: POST /v1/sessions and the model gateway's    *)
(* auto sessions go through authorization, the kill switches, the checks   *)
(* of the request and the policy engine; a refusal is recorded as          *)
(* session.denied, an admission as session.created before its row.         *)
(* Administrators block and unblock meanwhile: each change writes a row    *)
(* and then the copy in memory that every gate reads, and a restart loads  *)
(* the copy from the rows.                                                 *)
(***************************************************************************)
EXTENDS Naturals, FiniteSets

CONSTANTS
    Callers,       \* requests for a session
    Asks,          \* what they ask: records [kind, flaws]
    Admins,        \* administrators' requests in progress
    Targets,       \* what the switch may block: <<scope, id>>
    NoChange,          \* no administrator's request
    MaxSwitches,   \* bound on the administrators' changes
    MaxFailures    \* bound on failing database operations and restarts

VARIABLES
    setup,      \* configuration: [auth, static, durable]
    rows,       \* table kill_switches
    copy,       \* SQLiteKillSwitch.mem, or the MemoryKillSwitch
    admin,      \* the administrators' requests: [op, target, at, alone] or NoChange
    caller,     \* the requests for sessions
    denials,    \* session.denied events for each caller
    created,    \* callers with a session.created event
    stored,     \* callers with a row in sessions
    switches, failures,
    raced,      \* history: targets two administrators changed at the same time
    held        \* history: targets whose block was answered and not taken back

switchVars == <<rows, copy, admin, switches, raced>>
admitVars == <<setup, switchVars, caller, denials, created, stored,
               failures, held>>

NoCaller == [at |-> "idle", kind |-> "session", flaws |-> {},
             code |-> "none", barred |-> {}]

Init ==
    /\ setup \in [auth : {"oidc", "dev", "unset"}, static : BOOLEAN, durable : BOOLEAN]
    /\ rows = {} /\ copy = {} /\ raced = {} /\ held = {}
    /\ admin = [a \in Admins |-> NoChange]
    /\ caller = [c \in Callers |-> NoCaller]
    /\ denials = [c \in Callers |-> 0]
    /\ created = {} /\ stored = {}
    /\ switches = 0 /\ failures = 0

\* A database operation works, or fails while the bound allows.
Works(ok) == IF ok THEN UNCHANGED failures
             ELSE failures < MaxFailures /\ failures' = failures + 1

-----------------------------------------------------------------------------
(* The gates.                                                              *)

At(c, step) == caller[c].at = step
Has(c, flaw) == flaw \in caller[c].flaws
Goes(c, step) == caller' = [caller EXCEPT ![c].at = step]
Refuses(c, code) == caller' = [caller EXCEPT ![c].at = "deny", ![c].code = code]
Answers(c, code) == caller' = [caller EXCEPT ![c].at = "done", ![c].code = code]

Blocked(scope, id) == <<scope, id>> \in copy

\* blockedByKillSwitch with no agent, with the caller's agent; blockedByClientKillSwitch.
Agent(c) == IF caller[c].kind = "auto" THEN "model-gateway" ELSE "reviewer"
BlockedGlobally == setup.static \/ Blocked("global", "all") \/ Blocked("global", "sessions")
BlockedForAgent(c) == BlockedGlobally \/ Blocked("agent", Agent(c))
BlockedForClient(c) == caller[c].kind = "auto" /\ Blocked("client", "opencode")

\* The targets that keep the caller out.
Concern(c) == {<<"global", "all">>, <<"global", "sessions">>, <<"agent", Agent(c)>>}
              \cup (IF caller[c].kind = "auto" THEN {<<"client", "opencode">>} ELSE {})

Gate(c, from) == At(c, from) /\ UNCHANGED <<setup, switchVars, denials, created, stored,
                                            failures, held>>

Arrive(c) ==
    /\ Gate(c, "idle")
    /\ \E ask \in Asks :
          caller' = [caller EXCEPT ![c] = [NoCaller EXCEPT !.at = "authorize", !.kind = ask.kind,
                                                           !.flaws = ask.flaws, !.barred = held]]

\* RequireAuthorizedRequest; an auto session only needs the label of its actor.
Authorize(c) ==
    /\ Gate(c, "authorize")
    /\ IF caller[c].kind = "auto"
       THEN IF Has(c, "label") THEN Answers(c, "invalid") ELSE Goes(c, "global")
       ELSE IF setup.auth = "unset" THEN Refuses(c, "unavailable")
       ELSE IF Has(c, "token") THEN Refuses(c, "unauthorized")
       ELSE IF setup.auth = "dev" /\ Has(c, "label") THEN Refuses(c, "invalid")
       ELSE Goes(c, "global")

CheckGlobal(c) ==
    /\ Gate(c, "global")
    /\ IF BlockedGlobally THEN Refuses(c, "locked") ELSE Goes(c, "request")

\* normalizeRuntimeModes, validate, resolveSessionContext and enforceWorkItemContext.
CheckRequest(c) ==
    /\ Gate(c, "request")
    /\ IF caller[c].kind = "session" /\ Has(c, "body") THEN Answers(c, "invalid")
       ELSE IF Has(c, "work_item") THEN Refuses(c, "precondition")
       ELSE Goes(c, "agent")

\* Mutant: the agent's switch is not consulted.
CheckNoAgent(c) ==
    /\ Gate(c, "agent")
    /\ IF BlockedGlobally \/ BlockedForClient(c) THEN Refuses(c, "locked") ELSE Goes(c, "policy")

CheckAgent(c) ==
    /\ Gate(c, "agent")
    /\ IF BlockedForAgent(c) \/ BlockedForClient(c) THEN Refuses(c, "locked")
       ELSE Goes(c, "policy")

\* NativeEngine.Evaluate: the first of its three checks that fails gives the reason.
Evaluate(flaws) ==
    IF "classification" \in flaws THEN "classification"
    ELSE IF "secret" \in flaws THEN "secret"
    ELSE IF "cost" \in flaws THEN "cost" ELSE "allowed"

EvaluatePolicy(c) ==
    /\ Gate(c, "policy")
    /\ LET reason == Evaluate(caller[c].flaws)
       IN  CASE reason = "allowed" -> Goes(c, "audit")
             [] reason = "cost"    -> Refuses(c, "payment")
             [] OTHER              -> Refuses(c, "forbidden")

-----------------------------------------------------------------------------
(* The records.                                                            *)

\* Mutant: a refusal is told before, and whether or not, it is recorded.
DenyAnyway(c) ==
    /\ At(c, "deny")
    /\ \E ok \in BOOLEAN :
          /\ Works(ok)
          /\ denials' = IF ok THEN [denials EXCEPT ![c] = @ + 1] ELSE denials
          /\ Answers(c, caller[c].code)
    /\ UNCHANGED <<setup, switchVars, created, stored, held>>

\* appendDenied and appendDeniedWithCost.  POST /v1/sessions answers 500 when the event
\* cannot be appended; for an auto session the error is dropped.
Deny(c) ==
    /\ At(c, "deny")
    /\ \E ok \in BOOLEAN :
          /\ Works(ok)
          /\ denials' = IF ok THEN [denials EXCEPT ![c] = @ + 1] ELSE denials
          /\ Answers(c, IF ok \/ caller[c].kind = "auto" THEN caller[c].code ELSE "error")
    /\ UNCHANGED <<setup, switchVars, created, stored, held>>

\* session.created or session.auto_created, and only then the row.
AuditCreated(c) ==
    /\ At(c, "audit")
    /\ \E ok \in BOOLEAN :
          /\ Works(ok)
          /\ created' = IF ok THEN created \cup {c} ELSE created
          /\ IF ok THEN Goes(c, "store") ELSE Answers(c, "error")
    /\ UNCHANGED <<setup, switchVars, denials, stored, held>>

CreateRow(c) ==
    /\ At(c, "store")
    /\ \E ok \in BOOLEAN :
          /\ Works(ok)
          /\ stored' = IF ok THEN stored \cup {c} ELSE stored
          /\ Answers(c, IF ok THEN "created" ELSE "error")
    /\ UNCHANGED <<setup, switchVars, denials, created, held>>

-----------------------------------------------------------------------------
(* The administrators.  RequireAdminRequest has let them pass.             *)

InProgress(t) == {a \in Admins : admin[a] # NoChange /\ admin[a].target = t}

SwitchStarts(a) ==
    /\ admin[a] = NoChange /\ switches < MaxSwitches /\ switches' = switches + 1
    /\ \E op \in {"block", "unblock"}, t \in Targets :
          /\ admin' = [b \in Admins |->
                IF b = a THEN [op |-> op, target |-> t, alone |-> InProgress(t) = {},
                               at |-> IF setup.durable THEN "row" ELSE "copy"]
                ELSE IF b \in InProgress(t) THEN [admin[b] EXCEPT !.alone = FALSE]
                ELSE admin[b]]
          /\ raced' = IF InProgress(t) = {} THEN raced ELSE raced \cup {t}
          /\ held' = IF op = "unblock" \/ InProgress(t) # {} THEN held \ {t} ELSE held
          /\ caller' = [c \in Callers |-> [caller[c] EXCEPT !.barred = IF op = "unblock" THEN @ \ {t} ELSE @]]
    /\ UNCHANGED <<setup, rows, copy, denials, created, stored, failures>>

Change(set, a) == IF admin[a].op = "block" THEN set \cup {admin[a].target}
                  ELSE set \ {admin[a].target}

\* Mutant: the copy is changed although the row was not.
SwitchRowAnyway(a) ==
    /\ admin[a] # NoChange /\ admin[a].at = "row"
    /\ \E ok \in BOOLEAN :
          /\ Works(ok)
          /\ rows' = IF ok THEN Change(rows, a) ELSE rows
          /\ admin' = [admin EXCEPT ![a].at = "copy"]
    /\ UNCHANGED <<setup, copy, switches, raced, caller, denials, created, stored, held>>

\* INSERT OR IGNORE or DELETE; an error ends the request.
SwitchRow(a) ==
    /\ admin[a] # NoChange /\ admin[a].at = "row"
    /\ \E ok \in BOOLEAN :
          /\ Works(ok)
          /\ rows' = IF ok THEN Change(rows, a) ELSE rows
          /\ admin' = [admin EXCEPT ![a] = IF ok THEN [@ EXCEPT !.at = "copy"] ELSE NoChange]
    /\ UNCHANGED <<setup, copy, switches, raced, caller, denials, created, stored,
                   held>>

\* MemoryKillSwitch.Block and Unblock, and the answer.
SwitchCopy(a) ==
    /\ admin[a] # NoChange /\ admin[a].at = "copy"
    /\ copy' = Change(copy, a)
    /\ admin' = [admin EXCEPT ![a] = NoChange]
    /\ raced' = IF admin[a].alone THEN raced \ {admin[a].target} ELSE raced
    /\ held' = IF admin[a].op = "block" /\ admin[a].alone THEN held \cup {admin[a].target} ELSE held
    /\ UNCHANGED <<setup, rows, switches, caller, denials, created, stored,
                   failures>>

-----------------------------------------------------------------------------
\* load: the copy of a durable switch is read from its rows; a switch in memory is open.
Load == IF setup.durable THEN rows ELSE {}

\* The process stops and starts again: requests in progress are gone.
Restart ==
    /\ failures < MaxFailures /\ failures' = failures + 1
    /\ copy' = Load
    /\ admin' = [a \in Admins |-> NoChange] /\ raced' = {}
    /\ held' = IF setup.durable THEN held ELSE {}
    /\ caller' = [c \in Callers |->
          [caller[c] EXCEPT !.at = IF @ \in {"idle", "done"} THEN @ ELSE "lost",
                            !.barred = IF setup.durable THEN @ ELSE {}]]
    /\ UNCHANGED <<setup, rows, switches, denials, created, stored>>

Next ==
    \/ \E c \in Callers :
          \/ Arrive(c) \/ Authorize(c) \/ CheckGlobal(c) \/ CheckRequest(c) \/ CheckAgent(c)
          \/ EvaluatePolicy(c) \/ Deny(c) \/ AuditCreated(c) \/ CreateRow(c)
    \/ \E a \in Admins : SwitchStarts(a) \/ SwitchRow(a) \/ SwitchCopy(a)
    \/ Restart

Spec == Init /\ [][Next]_admitVars

-----------------------------------------------------------------------------
(* Properties.                                                             *)

\* The switch that the gates read is the one in the database whenever nobody is in the
\* middle of changing it: an administrator's failed write, and a restart between the row
\* and the copy, leave them equal.  Two administrators who change one target at the same
\* time may leave them different, until the next change or restart.
SwitchesAgree ==
    setup.durable =>
        \A t \in Targets \ raced : InProgress(t) = {} => (t \in rows <=> t \in copy)

\* A block that was answered holds: no request that arrives later is admitted past it
\* until somebody starts to unblock, whatever restarts and failures come between; neither
\* its event nor its row is written.
BlockHolds ==
    \A c \in created \cup stored : caller[c].barred \cap Concern(c) = {}

\* What a caller is told of POST /v1/sessions is what the audit log says: a refusal past
\* the body's checks has exactly one session.denied, an admission its event and its row,
\* nobody has both, and no row exists without its event.
AnswerIsLogged ==
    /\ stored \subseteq created
    /\ \A c \in Callers :
          /\ c \in created => denials[c] = 0
          /\ At(c, "done") /\ caller[c].kind = "session" =>
                CASE caller[c].code = "created" -> c \in stored
                  [] caller[c].code \in {"locked", "forbidden", "payment", "precondition",
                                         "unauthorized", "unavailable"} -> denials[c] = 1
                  [] OTHER -> c \notin stored /\ denials[c] <= 1
=============================================================================
