--------------------------- MODULE SpecialistRouting ---------------------------
(***************************************************************************)
(* The Orchestrator's intake: it accepts sessions, and routes a prompt to  *)
(* a specialist of the catalog of agents on disk.  The router keeps the    *)
(* outcome of validating that catalog, a report or an error, for a while.  *)
(* Validation reads the files one after another, while they may change,    *)
(* and runs outside of the cache's lock: requests that find nothing fresh  *)
(* validate each on their own and write the cache one after another.       *)
(***************************************************************************)
EXTENDS Naturals, Sequences

CONSTANTS
    Intakes,
    Prompts,         \* the agents a request stands for, in order: its work item's, its
                     \* branch's, and always its keywords'
    Catalogs,        \* sets of agents the files on disk may define
    Broken,          \* the outcome of files that do not validate
    NoAgent,         \* no agent, no outcome
    HitTTL, ErrTTL,  \* how long a report and an error are kept
    MaxValidation,   \* bound on the time a validation takes
    MaxTime,         \* bound on the clock
    MaxEdits,        \* bound on changes of the files
    MaxRouterTroubles  \* bound on failing appends and restarts

ASSUME IntakeConstants ==
    /\ HitTTL \in Nat \ {0} /\ ErrTTL \in Nat \ {0}
    /\ MaxValidation \in Nat /\ MaxTime \in Nat

VARIABLES
    now,
    files,           \* the catalog on disk: [agents, valid, edition], another edition
                     \* after each change
    edits,
    cached,          \* Router.cached: NoAgent or [outcome, at]
    request,
    routed,          \* router.specialist.selected and orchestrator.session.accepted
    routerTroubles,
    onDisk           \* history: for each time, what was on disk

routerVars == <<now, files, edits, cached, request, routed, routerTroubles, onDisk>>

NewIntake == [at |-> "idle", wanted |-> <<>>, agent |-> NoAgent,
              outcome |-> NoAgent, began |-> 0, met |-> {}, taken |-> 0]

IntakeInit ==
    /\ now = 0 /\ edits = 0 /\ routerTroubles = 0
    /\ \E agents \in Catalogs, valid \in BOOLEAN :
          files = [agents |-> agents, valid |-> valid, edition |-> 0]
    /\ onDisk = [t \in 0 .. MaxTime |-> IF t = 0 THEN {files} ELSE {}]
    /\ cached = NoAgent
    /\ request = [r \in Intakes |-> NewIntake]
    /\ routed = {}

IntakeAt(r, step) == request[r].at = step
IntakeGoes(r, step) == request' = [request EXCEPT ![r].at = step]

-----------------------------------------------------------------------------
(* POST /v1/orchestrator/route.                                            *)

RoutePrompt(r, prompt) ==
    /\ IntakeAt(r, "idle")
    /\ request' = [request EXCEPT ![r] = [NewIntake EXCEPT !.at = "look", !.wanted = prompt]]
    /\ UNCHANGED <<now, files, edits, cached, routed, routerTroubles, onDisk>>

\* Mutant: errors are kept as long as reports.
FreshAlike == cached # NoAgent /\ now - cached.at < HitTTL

Lifetime(outcome) == IF outcome = Broken THEN ErrTTL ELSE HitTTL

FreshCatalog == cached # NoAgent /\ now - cached.at < Lifetime(cached.outcome)

Taken(r, outcome, step) ==
    request' = [request EXCEPT ![r].at = step, ![r].outcome = outcome, ![r].taken = now, ![r].met = {},
                               ![r].began = IF step = "store" THEN @ ELSE 0]

\* cachedCatalog looks under the lock, and lets go of it.
LookUpCatalog(r) ==
    /\ IntakeAt(r, "look")
    /\ IF FreshCatalog THEN Taken(r, cached.outcome, "select")
       ELSE request' = [request EXCEPT ![r].at = "validate", ![r].began = now, ![r].met = {files}]
    /\ UNCHANGED <<now, files, edits, cached, routed, routerTroubles, onDisk>>

\* What a validation may make of the states it met: of a single one what it holds, of
\* more an error or some of their agents, as the files it read fit together or not.
Diagnosed(disk) == IF disk.valid THEN disk.agents ELSE Broken

Validations(S) ==
    IF \E disk \in S : S = {disk} THEN {Diagnosed(disk) : disk \in S}
    ELSE {Broken} \cup SUBSET UNION {disk.agents : disk \in S}

Validate(r) ==
    /\ IntakeAt(r, "validate")
    /\ \E outcome \in Validations(request[r].met) : Taken(r, outcome, "store")
    /\ UNCHANGED <<now, files, edits, cached, routed, routerTroubles, onDisk>>

\* The outcome is stamped when it is stored; it may replace a newer one.
StoreOutcome(r) ==
    /\ IntakeAt(r, "store")
    /\ cached' = [outcome |-> request[r].outcome, at |-> now]
    /\ Taken(r, request[r].outcome, "select")
    /\ UNCHANGED <<now, files, edits, routed, routerTroubles, onDisk>>

Listed(r) == {i \in DOMAIN request[r].wanted :
                request[r].outcome # Broken /\ request[r].wanted[i] \in request[r].outcome}

\* Mutant: the agent the keywords stand for is taken as it is.
SelectedUnlisted(r) ==
    LET q == request[r]
        I == Listed(r) \cup (IF q.outcome = Broken THEN {} ELSE {Len(q.wanted)})
    IN {q.wanted[i] : i \in {j \in I : \A k \in I : j <= k}}

\* SelectSpecialist: the first that the catalog has, if it has one.
Selected(r) ==
    {request[r].wanted[i] : i \in {j \in Listed(r) : \A k \in Listed(r) : j <= k}}

Select(r) ==
    /\ IntakeAt(r, "select")
    /\ \/ Selected(r) = {} /\ IntakeGoes(r, "bad request")
       \/ \E agent \in Selected(r) :
             request' = [request EXCEPT ![r].at = "audit", ![r].agent = agent]
    /\ UNCHANGED <<now, files, edits, cached, routed, routerTroubles, onDisk>>

-----------------------------------------------------------------------------
(* POST /v1/orchestrator/sessions, for the agent the caller names.         *)

Accept(r, agent) ==
    /\ IntakeAt(r, "idle")
    /\ request' = [request EXCEPT ![r] = [NewIntake EXCEPT !.at = "audit accepted", !.agent = agent]]
    /\ UNCHANGED <<now, files, edits, cached, routed, routerTroubles, onDisk>>

\* Both answer when the event stands, or with an error.
Audit(r, waits, done) ==
    /\ IntakeAt(r, waits)
    /\ \/ /\ routed' = routed \cup {<<r, done, request[r].agent>>}
          /\ IntakeGoes(r, done) /\ UNCHANGED routerTroubles
       \/ /\ routerTroubles < MaxRouterTroubles /\ routerTroubles' = routerTroubles + 1
          /\ IntakeGoes(r, "error") /\ UNCHANGED routed
    /\ UNCHANGED <<now, files, edits, cached, onDisk>>

AuditSelected(r) == Audit(r, "audit", "selected")
AuditAccepted(r) == Audit(r, "audit accepted", "accepted")

-----------------------------------------------------------------------------
\* Someone changes the catalog, or where its files lie.  Validations at work meet that too.
Edit(agents, valid) ==
    /\ edits < MaxEdits /\ edits' = edits + 1
    /\ files' = [agents |-> agents, valid |-> valid, edition |-> edits + 1]
    /\ onDisk' = [onDisk EXCEPT ![now] = @ \cup {files'}]
    /\ request' = [r \in Intakes |-> [request[r] EXCEPT
                      !.met = IF IntakeAt(r, "validate") THEN @ \cup {files'} ELSE @]]
    /\ UNCHANGED <<now, cached, routed, routerTroubles>>

ClockTicks ==
    /\ now < MaxTime /\ now' = now + 1
    /\ \A r \in Intakes : IntakeAt(r, "validate") \/ IntakeAt(r, "store")
                             => now - request[r].began < MaxValidation
    /\ onDisk' = [onDisk EXCEPT ![now + 1] = {files}]
    /\ UNCHANGED <<files, edits, cached, request, routed, routerTroubles>>

\* The process starts again, with an empty cache; its requests are gone.
RestartIntake ==
    /\ routerTroubles < MaxRouterTroubles /\ routerTroubles' = routerTroubles + 1
    /\ cached' = NoAgent
    /\ request' = [r \in Intakes |-> NewIntake]
    /\ routed' = {}      \* of requests the model forgets
    /\ UNCHANGED <<now, files, edits, onDisk>>

IntakeNext ==
    \/ \E r \in Intakes :
          \/ \E prompt \in Prompts : RoutePrompt(r, prompt)
          \/ \E agent \in UNION Catalogs : Accept(r, agent)
    \/ \E r \in Intakes :
          \/ LookUpCatalog(r) \/ Validate(r) \/ StoreOutcome(r) \/ Select(r)
          \/ AuditSelected(r) \/ AuditAccepted(r)
    \/ \E agents \in Catalogs, valid \in BOOLEAN : Edit(agents, valid)
    \/ ClockTicks \/ RestartIntake

IntakeSpec == IntakeInit /\ [][IntakeNext]_routerVars

-----------------------------------------------------------------------------
\* What a validation may find that begins at one time and ends at another.
Findings(from, to) == Validations(UNION {onDisk[t] : t \in from .. to})

\* What request r goes by is what a validation could find not long before it took it.
Recent(r, TTL) ==
    LET q == request[r]
        from == IF q.taken > TTL + MaxValidation THEN q.taken - TTL - MaxValidation ELSE 0
    IN \E b, e \in from .. q.taken :
          b <= e /\ e <= b + MaxValidation /\ q.outcome \in Findings(b, e)

\* However long validations take and whichever stores its outcome last, a request is routed
\* by a report that a validation of the files on disk gives within the report's lifetime and
\* one validation before, and refused for an error that one gives within an error's lifetime;
\* if nobody changed the files meanwhile that is their catalog.  The agent it is told is one
\* of that report, and the audit log has it (router.go:98-135, 172-204, 230-260).
RoutedByTheCatalog ==
    \A r \in Intakes :
       /\ request[r].at \in {"select", "audit", "selected", "bad request"} =>
             Recent(r, Lifetime(request[r].outcome) - 1)
       /\ IntakeAt(r, "selected") =>
             /\ request[r].outcome # Broken /\ request[r].agent \in request[r].outcome
             /\ <<r, "selected", request[r].agent>> \in routed
       /\ IntakeAt(r, "accepted") => <<r, "accepted", request[r].agent>> \in routed

================================================================================
