----------------------------- MODULE PatchReview -----------------------------
(***************************************************************************)
(* The review of proposed patches in the Governance Shell.  An executor    *)
(* goes through the events of a finished runtime: it stores each patch in  *)
(* the PatchBuffer, remembers its identifier, audits the proposal and      *)
(* publishes it without its contents.  The reviewer fetches the contents   *)
(* and decides.  The buffer and the set of known patches are two maps with *)
(* a lifetime each, evicted when they are read, and both are lost with the *)
(* process.  Executions of one session may overlap (see SessionLifecycle)  *)
(* and may use the same patch identifier.                                  *)
(***************************************************************************)
EXTENDS Naturals, Functions

CONSTANTS
    PatchSessions, \* sessions of one or more actors
    PatchIds,      \* identifiers the agents give to their patches
    Executions,    \* executions whose runtime has returned its events
    BufferTTL,     \* defaultPatchBufferTTL
    LocalTTL,      \* localStateTTL
    LoopMax,       \* toolLoopMax; 0 disables the cap
    MaxEvents,     \* events of one execution
    MaxMinutes     \* bound on the clock

VARIABLES
    minutes,     \* the clock
    executing,   \* the executions: where each is in its loop, and with which patch
    buffer,      \* PatchBuffer: <<session, id>> to [content, at]
    knownAt,     \* SessionService.patchTimes: <<session, id>> to a time
    shown,       \* history: what the stream has published in this process's life,
                 \* <<session, id>> to the time its contents were stored
    review,      \* the reviewer's request: [kind, key, step, answer]
    decided      \* the patches with a patch.decision event

reviewVars == <<minutes, executing, buffer, knownAt, shown, review, decided>>

Keys == PatchSessions \X PatchIds
Empty == [k \in {} |-> 0]
Put(map, key, value) == [k \in DOMAIN map \cup {key} |-> IF k = key THEN value ELSE map[k]]

\* A patch as the agent wrote it: acceptable, or with one file that is unsafe or holds a
\* secret, or not an envelope of this session at all.
Contents == {"clean", "one_bad_file", "malformed"}

Ready(s) == [session |-> s, at |-> "next", id |-> CHOOSE p \in PatchIds : TRUE, run |-> 0,
             events |-> 0, time |-> 0]

PatchesInit ==
    /\ minutes = 0
    /\ \E home \in [Executions -> PatchSessions] :
          executing = [x \in Executions |-> Ready(home[x])]
    /\ buffer = Empty /\ knownAt = Empty /\ shown = Empty
    /\ decided = {}
    /\ review = [kind |-> "none", key |-> CHOOSE k \in Keys : TRUE, step |-> "known",
                 answer |-> "none"]

-----------------------------------------------------------------------------
(* The executor's loop.                                                    *)

LoopAt(x, step) == executing[x].at = step
Key(x) == <<executing[x].session, executing[x].id>>
LoopGoes(x, step) == executing' = [executing EXCEPT ![x].at = step]

\* ToolLoopCounter.Observe: calls of tools count, the agent's output starts again, other
\* events leave the count alone.
Observe(run, type) ==
    IF type \in {"tool_call", "mcp_call", "command"} THEN run + 1
    ELSE IF type \in {"stream", "patch", "done"} THEN 0 ELSE run

LoopExceeded(run, type) ==
    LoopMax > 0 /\ type \in {"tool_call", "mcp_call", "command"} /\ Observe(run, type) > LoopMax

\* Any event but a patch: it is audited or published, or ends the execution as denied.
HandleEvent(x) ==
    /\ LoopAt(x, "next") /\ executing[x].events < MaxEvents
    /\ \E type \in {"stream", "tool_call", "tool_request", "acp_permission", "done"} :
          executing' = [executing EXCEPT
              ![x].events = @ + 1,
              ![x].run = Observe(@, type),
              ![x].at = IF LoopExceeded(executing[x].run, type) THEN "denied" ELSE "next"]
    /\ UNCHANGED <<minutes, buffer, knownAt, shown, review, decided>>

\* PatchBuffer.Store: all files are validated before anything is stored; a patch that is
\* refused ends the execution.
Store(x) ==
    /\ LoopAt(x, "next") /\ executing[x].events < MaxEvents
    /\ \E p \in PatchIds, c \in Contents :
          /\ executing' = [executing EXCEPT ![x].events = @ + 1, ![x].id = p, ![x].run = 0, ![x].time = minutes,
                               ![x].at = IF c = "clean" THEN "stored" ELSE "rejected"]
          /\ IF c = "clean"
             THEN buffer' = Put(buffer, <<executing[x].session, p>>, [content |-> c, at |-> minutes])
             ELSE UNCHANGED buffer
    /\ UNCHANGED <<minutes, knownAt, shown, review, decided>>

\* Mutant: an identifier that is known already keeps its time.
RememberOnce(x) ==
    /\ LoopAt(x, "stored") /\ LoopGoes(x, "remembered")
    /\ knownAt' = IF Key(x) \in DOMAIN knownAt THEN knownAt ELSE Put(knownAt, Key(x), minutes)
    /\ UNCHANGED <<minutes, buffer, shown, review, decided>>

\* rememberPatch
Remember(x) ==
    /\ LoopAt(x, "stored") /\ LoopGoes(x, "remembered")
    /\ knownAt' = Put(knownAt, Key(x), minutes)
    /\ UNCHANGED <<minutes, buffer, shown, review, decided>>

\* The proposal is audited, whether or not that succeeds, and published without contents.
Publish(x) ==
    /\ LoopAt(x, "remembered") /\ LoopGoes(x, "next")
    /\ shown' = Put(shown, Key(x), executing[x].time)
    /\ UNCHANGED <<minutes, buffer, knownAt, review, decided>>

\* Done, or denied or rejected, which fails the session: the stream is closed.
FinishLoop(x) ==
    /\ executing[x].at \in {"next", "denied", "rejected"}
    /\ executing' = [executing EXCEPT ![x] = [Ready(@.session) EXCEPT !.at = "ended"]]
    /\ UNCHANGED <<minutes, buffer, knownAt, shown, review, decided>>

-----------------------------------------------------------------------------
(* The reviewer: PatchFetchHandler and PatchDecisionHandler.  Ownership of *)
(* the session has been checked.                                           *)

\* evictPatchesLocked and evictLocked: what is older than its lifetime goes.
Young(time, ttl) == minutes <= time + ttl
KnownAfterEviction  == Restrict(knownAt, {k \in DOMAIN knownAt : Young(knownAt[k], LocalTTL)})
BufferAfterEviction == Restrict(buffer, {k \in DOMAIN buffer : Young(buffer[k].at, BufferTTL)})

Ask(kind, key) ==
    /\ review.kind = "none" \/ review.step = "answered"
    /\ review' = [kind |-> kind, key |-> key, step |-> "known", answer |-> "none"]
    /\ UNCHANGED <<minutes, executing, buffer, knownAt, shown, decided>>

Answer(a) == review' = [review EXCEPT !.step = "answered", !.answer = a]

\* patchKnown: 404 for a fetch and 409 for a decision when the session does not know it.
PatchKnown ==
    /\ review.kind # "none" /\ review.step = "known"
    /\ knownAt' = KnownAfterEviction
    /\ IF review.key \in DOMAIN knownAt'
       THEN review' = [review EXCEPT !.step = review.kind] ELSE Answer("unknown")
    /\ UNCHANGED <<minutes, executing, buffer, shown, decided>>

\* PatchBuffer.Get
Get ==
    /\ review.step = "fetch"
    /\ buffer' = BufferAfterEviction
    /\ Answer(IF review.key \in DOMAIN buffer' THEN buffer'[review.key].content ELSE "gone")
    /\ UNCHANGED <<minutes, executing, knownAt, shown, decided>>

\* patch.decision is appended, or the append fails and the client is told so.
Decide ==
    /\ review.step = "decide"
    /\ \/ /\ Answer("decided")
          /\ decided' = decided \cup {review.key}
       \/ Answer("not_audited") /\ UNCHANGED decided
    /\ UNCHANGED <<minutes, executing, buffer, knownAt, shown>>

-----------------------------------------------------------------------------
MinutePasses ==
    /\ minutes < MaxMinutes /\ minutes' = minutes + 1
    /\ UNCHANGED <<executing, buffer, knownAt, shown, review, decided>>

\* The process stops: both maps, the streams and the executions are gone.
RestartReview ==
    /\ executing' = [x \in Executions |-> [Ready(executing[x].session) EXCEPT !.at = "ended"]]
    /\ buffer' = Empty /\ knownAt' = Empty /\ shown' = Empty
    /\ review' = [review EXCEPT !.step = "answered", !.answer = "none"]
    /\ UNCHANGED <<minutes, decided>>

PatchesNext ==
    \/ \E x \in Executions : HandleEvent(x) \/ Store(x) \/ Remember(x) \/ Publish(x) \/ FinishLoop(x)
    \/ \E kind \in {"fetch", "decide"}, key \in Keys : Ask(kind, key)
    \/ PatchKnown \/ Get \/ Decide \/ MinutePasses \/ RestartReview

PatchesSpec == PatchesInit /\ [][PatchesNext]_reviewVars

-----------------------------------------------------------------------------
(* Properties.                                                             *)

\* What a stream has shown stays open to review until the lifetime of its contents is
\* over: its identifier is known and its contents are in the buffer, although the two maps
\* are written one after the other, evicted by different readers, and shared by the
\* executions of a session.
ShownIsReviewable ==
    \A k \in DOMAIN shown :
        Young(shown[k], IF BufferTTL < LocalTTL THEN BufferTTL ELSE LocalTTL) =>
            /\ k \in DOMAIN buffer /\ buffer[k].content = "clean"
            /\ k \in DOMAIN knownAt /\ Young(knownAt[k], LocalTTL)
=============================================================================
