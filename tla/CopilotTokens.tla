---------------------------- MODULE CopilotTokens ----------------------------
(***************************************************************************)
(* The developers' GitHub Copilot enrollments: the token store, the device *)
(* login that fills it, the logout that empties it, and the model calls    *)
(* that load a record, refresh it when it is about to expire and exchange  *)
(* it for a short-lived bearer, which the model backend caches.  Nothing   *)
(* but SQLite and one mutex around the cache orders these: a refresh is a  *)
(* load, a call to GitHub, another load, an upsert and a third load.       *)
(*                                                                         *)
(* GitHub is the environment.  Each time it issues tokens it opens a new   *)
(* grant: an access token, recognised by its fingerprint, and a refresh    *)
(* token, which it may or may not replace at each use.                     *)
(***************************************************************************)
EXTENDS Naturals, Functions, FiniteSets

CONSTANTS
    Developers,    \* actor subjects
    ModelCalls,    \* model calls and listings of models
    Logins,        \* device-flow logins
    MaxGrants,     \* bound on the tokens GitHub issues
    MaxLogouts,    \* bound on the logouts
    MaxTokenFailures  \* bound on failing store operations and lost answers

Grants == 1..MaxGrants
NoGrant == 0
NoRow == [access |-> NoGrant, refresh |-> NoGrant]

VARIABLES
    records,    \* copilot_user_tokens: the record of each actor
    bearers,    \* CopilotUserBackend.sessionTokens, those not about to expire: key to grant
    calls, logins,
    issued,     \* how many grants GitHub has issued
    live,       \* grants whose refresh token GitHub still takes
    due,        \* grants whose access token expires within five minutes
    rotates,    \* whether GitHub replaces refresh tokens at each use
    replaced,   \* history: grants that a record held and no longer holds
    loggedOut,  \* history: actors told they are logged out, with no login since
    logouts, tokenFailures

githubVars == <<issued, live, due, rotates>>
tokenVars == <<records, bearers, calls, logins, githubVars, replaced, loggedOut, logouts, tokenFailures>>

IdleCall == [at |-> "idle", actor |-> CHOOSE a \in Developers : TRUE, rec |-> NoRow,
             token |-> NoGrant, next |-> NoRow, bearer |-> NoGrant,
             old |-> {}, afterLogout |-> FALSE]
IdleLogin == [at |-> "idle", actor |-> CHOOSE a \in Developers : TRUE, grant |-> NoGrant]

\* The store is empty, or kept the record of an actor from an earlier process.
TokensInit ==
    /\ rotates \in BOOLEAN
    /\ \E known \in SUBSET Developers :
          /\ Cardinality(known) <= 1
          /\ records = [a \in Developers |-> IF a \in known THEN [access |-> 1, refresh |-> 1] ELSE NoRow]
          /\ issued = Cardinality(known) /\ live = 1..issued
    /\ bearers = [k \in {} |-> NoGrant]
    /\ calls = [c \in ModelCalls |-> IdleCall]
    /\ logins = [l \in Logins |-> IdleLogin]
    /\ due = {} /\ replaced = {}
    /\ loggedOut = {} /\ logouts = 0 /\ tokenFailures = 0

-----------------------------------------------------------------------------
(* GitHub.                                                                 *)

Issue == issued < MaxGrants /\ issued' = issued + 1

Fails == tokenFailures < MaxTokenFailures /\ tokenFailures' = tokenFailures + 1

\* Time passes: an access token comes near its expiry, a cached bearer too.
Age(g) ==
    /\ g <= issued /\ g \notin due
    /\ due' = due \cup {g}
    /\ UNCHANGED <<records, bearers, calls, logins, issued, live, rotates, replaced,
                   loggedOut, logouts, tokenFailures>>

Expire(k) ==
    /\ bearers' = Restrict(bearers, DOMAIN bearers \ {k})
    /\ UNCHANGED <<records, calls, logins, githubVars, replaced, loggedOut, logouts, tokenFailures>>

-----------------------------------------------------------------------------
(* The store.  Save inserts the record or overwrites the one that is there *)
(* and lifts its revocation; Delete removes it.                            *)

Held(a) == IF records[a] = NoRow THEN {} ELSE {records[a].access}

Save(a, rec) ==
    /\ records' = [records EXCEPT ![a] = rec]
    /\ replaced' = (replaced \cup Held(a)) \ {rec.access}

\* Mutant: the refresh token that came with the answer is not taken over.
UpdatedAccessOnly(rec, token) == [rec EXCEPT !.access = token]

\* UpdateOAuthToken: the record just loaded, with the new tokens in it.  An answer without a
\* refresh token leaves the one that is there.
Updated(rec, token) ==
    [rec EXCEPT !.access = token, !.refresh = IF rotates THEN token ELSE @]

\* Store.Delete, called by the logout handler, which answers configured: false whatever
\* comes of it.
Logout(a) ==
    /\ logouts < MaxLogouts /\ logouts' = logouts + 1
    /\ \/ /\ records' = [records EXCEPT ![a] = NoRow]
          /\ replaced' = replaced \cup Held(a)
          /\ UNCHANGED tokenFailures
       \/ Fails /\ UNCHANGED <<records, replaced>>
    /\ loggedOut' = IF \E l \in Logins : logins[l].actor = a /\ logins[l].at \in {"polling", "granted"}
                    THEN loggedOut ELSE loggedOut \cup {a}
    /\ UNCHANGED <<bearers, calls, logins, githubVars>>

-----------------------------------------------------------------------------
(* The device login: a request that answers at once with the user's code,  *)
(* and a goroutine that polls GitHub, asks for the account and saves.      *)

LoginStart(l, a) ==
    /\ logins[l].at = "idle"
    /\ logins' = [logins EXCEPT ![l] = [IdleLogin EXCEPT !.at = "polling", !.actor = a]]
    /\ loggedOut' = loggedOut \ {a}
    /\ UNCHANGED <<records, bearers, calls, githubVars, replaced, logouts, tokenFailures>>

\* PollAccessToken: pending answers are polled again; the user confirms, or refuses, or the
\* code expires.
Poll(l) ==
    /\ logins[l].at = "polling"
    /\ \/ /\ Issue /\ live' = live \cup {issued + 1}
          /\ logins' = [logins EXCEPT ![l].at = "granted", ![l].grant = issued + 1]
       \/ /\ logins' = [logins EXCEPT ![l].at = "failed"]
          /\ UNCHANGED <<issued, live>>
    /\ UNCHANGED <<records, bearers, calls, due, rotates, replaced, loggedOut, logouts, tokenFailures>>

\* The goroutine asks for the account, saves the record and writes the outcome where
\* the status request reads it.
CompleteLogin(l) ==
    LET a == logins[l].actor  g == logins[l].grant IN
    /\ logins[l].at = "granted"
    /\ \/ /\ Save(a, [access |-> g, refresh |-> g])
          /\ logins' = [logins EXCEPT ![l].at = "done"]
          /\ UNCHANGED tokenFailures
       \/ /\ Fails
          /\ logins' = [logins EXCEPT ![l].at = "failed"]
          /\ UNCHANGED <<records, replaced>>
    /\ UNCHANGED <<bearers, calls, githubVars, loggedOut, logouts>>

-----------------------------------------------------------------------------
(* A call on behalf of an actor.                                           *)

CallGoes(c, step) == calls' = [calls EXCEPT ![c].at = step]

\* TokenForActor, and the models request of the Governance Shell.  A missing record refuses
\* the call.
LoadRecord(c, a) ==
    /\ calls[c].at = "idle"
    /\ calls' = [calls EXCEPT ![c] =
           [IdleCall EXCEPT !.actor = a, !.rec = records[a],
                            !.old = replaced, !.afterLogout = a \in loggedOut,
                            !.at = IF records[a] = NoRow THEN "refused" ELSE "loaded"]]
    /\ UNCHANGED <<records, bearers, logins, githubVars, replaced, loggedOut, logouts, tokenFailures>>

NeedsRefresh(rec) == rec.refresh # NoGrant /\ rec.access \in due

\* RefreshAccessToken.  A request that fails, as one with a replaced refresh token must, leaves
\* the call with the record it has.  An answer may be lost after GitHub has acted.
Refresh(c) ==
    LET rec == calls[c].rec IN
    /\ calls[c].at = "loaded" /\ NeedsRefresh(rec)
    /\ \/ /\ rec.refresh \in live
          /\ Issue
          /\ live' = IF rotates THEN (live \ {rec.refresh}) \cup {issued + 1} ELSE live
          /\ \/ /\ calls' = [calls EXCEPT ![c].token = issued + 1, ![c].at = "refreshed"]
                /\ UNCHANGED tokenFailures
             \/ Fails /\ CallGoes(c, "resolved")
       \/ /\ CallGoes(c, "resolved")
          /\ UNCHANGED <<issued, live, tokenFailures>>
    /\ UNCHANGED <<records, bearers, logins, due, rotates, replaced, loggedOut, logouts>>

Resolve(c) ==
    /\ calls[c].at = "loaded" /\ ~NeedsRefresh(calls[c].rec)
    /\ CallGoes(c, "resolved")
    /\ UNCHANGED <<records, bearers, logins, githubVars, replaced, loggedOut, logouts, tokenFailures>>

\* The three statements of UpdateOAuthToken: load, save, load.  An error of any of them leaves
\* the call with the record it began with.
Reload(c) ==
    LET a == calls[c].actor IN
    /\ calls[c].at = "refreshed"
    /\ \/ /\ records[a] # NoRow
          /\ calls' = [calls EXCEPT ![c].at = "saving", ![c].next = Updated(records[a], calls[c].token)]
          /\ UNCHANGED tokenFailures
       \/ /\ records[a] = NoRow
          /\ CallGoes(c, "resolved")
          /\ UNCHANGED tokenFailures
       \/ Fails /\ CallGoes(c, "resolved")
    /\ UNCHANGED <<records, bearers, logins, githubVars, replaced, loggedOut, logouts>>

SaveUpdated(c) ==
    /\ calls[c].at = "saving"
    /\ \/ /\ Save(calls[c].actor, calls[c].next)
          /\ CallGoes(c, "saved")
          /\ UNCHANGED tokenFailures
       \/ /\ Fails /\ CallGoes(c, "resolved")
          /\ UNCHANGED <<records, replaced>>
    /\ UNCHANGED <<bearers, logins, githubVars, loggedOut, logouts>>

LoadUpdated(c) ==
    LET a == calls[c].actor IN
    /\ calls[c].at = "saved"
    /\ calls' = [calls EXCEPT ![c].at = "resolved", ![c].rec = IF records[a] = NoRow THEN @ ELSE records[a]]
    /\ UNCHANGED <<records, bearers, logins, githubVars, replaced, loggedOut, logouts, tokenFailures>>

\* Mutant: one bearer for each actor.
CacheKeyOfActor(actor, rec) == <<actor, NoGrant>>

\* The key under which the bearer of a record is cached: actor and fingerprint.
CacheKey(actor, rec) == <<actor, rec.access>>

Sends(c, grant) == calls' = [calls EXCEPT ![c].at = "sent", ![c].bearer = grant]

\* A bearer that is cached and fresh is used as it is.
UseCached(c) ==
    LET key == CacheKey(calls[c].actor, calls[c].rec) IN
    /\ calls[c].at = "resolved" /\ key \in DOMAIN bearers
    /\ Sends(c, bearers[key])
    /\ UNCHANGED <<records, bearers, logins, githubVars, replaced, loggedOut, logouts, tokenFailures>>

\* Otherwise the access token is exchanged, and serves as the bearer itself when that fails.
\* The models request of the Governance Shell always exchanges and caches nothing.
Exchange(c) ==
    LET rec == calls[c].rec  key == CacheKey(calls[c].actor, rec) IN
    /\ calls[c].at = "resolved"
    /\ \/ Sends(c, rec.access)
       \/ key \notin DOMAIN bearers /\ CallGoes(c, "exchanged")
    /\ UNCHANGED <<records, bearers, logins, githubVars, replaced, loggedOut, logouts, tokenFailures>>

StoreBearer(c) ==
    LET rec == calls[c].rec IN
    /\ calls[c].at = "exchanged"
    /\ bearers' = [k \in DOMAIN bearers \cup {CacheKey(calls[c].actor, rec)} |->
                     IF k = CacheKey(calls[c].actor, rec) THEN rec.access ELSE bearers[k]]
    /\ Sends(c, rec.access)
    /\ UNCHANGED <<records, logins, githubVars, replaced, loggedOut, logouts, tokenFailures>>

\* The answer is with the caller, who may call again.
Done(c) ==
    /\ calls[c].at \in {"sent", "refused"}
    /\ calls' = [calls EXCEPT ![c] = IdleCall]
    /\ UNCHANGED <<records, bearers, logins, githubVars, replaced, loggedOut, logouts, tokenFailures>>

CallStep(c) ==
    \/ \E a \in Developers : LoadRecord(c, a)
    \/ Refresh(c) \/ Resolve(c) \/ Reload(c) \/ SaveUpdated(c) \/ LoadUpdated(c)
    \/ UseCached(c) \/ Exchange(c) \/ StoreBearer(c) \/ Done(c)

LoginStep(l) ==
    \/ \E a \in Developers : LoginStart(l, a)
    \/ Poll(l) \/ CompleteLogin(l)

TokensNext ==
    \/ \E c \in ModelCalls : CallStep(c)
    \/ \E l \in Logins : LoginStep(l)
    \/ \E a \in Developers : Logout(a)
    \/ \E g \in Grants : Age(g)
    \/ \E k \in DOMAIN bearers : Expire(k)

TokensSpec == TokensInit /\ [][TokensNext]_tokenVars

-----------------------------------------------------------------------------
(* Properties.                                                             *)

\* A call never sends a bearer of an enrollment that had been replaced or removed before the
\* call began, however old the cache is: bearerForRecord caches under the fingerprint of the
\* token it was exchanged for.
NoStaleBearer == \A c \in ModelCalls : calls[c].at = "sent" => calls[c].bearer \notin calls[c].old

\* Overlapping refreshes do not wreck an enrollment: with no store failure, and no refresh
\* on its way to the store, the refresh token in a record is one that GitHub still takes
\* (UpdateOAuthToken reads the record again and takes over the token it was given).
RefreshUsable ==
    \A a \in Developers :
        \/ records[a] = NoRow \/ tokenFailures > 0
        \/ \E c \in ModelCalls : calls[c].actor = a /\ calls[c].at \in {"refreshed", "saving"}
        \/ records[a].refresh \in live

\* Both: an enrollment is not used after it was replaced, and stays usable until then.
EnrollmentHolds == NoStaleBearer /\ RefreshUsable

\* What the API contract says of the logout: later calls fail until the actor enrolls again.
LogoutHolds == \A c \in ModelCalls : calls[c].at = "sent" => ~calls[c].afterLogout
=============================================================================
