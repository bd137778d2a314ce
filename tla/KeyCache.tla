------------------------------ MODULE KeyCache ------------------------------
(***************************************************************************)
(* The validation of OIDC identity tokens.  Every request that carries a   *)
(* token may find the issuer's signing keys missing, out of date or        *)
(* without the one it needs, and then fetches them: the first such request *)
(* leads, the others wait for its channel to be closed.  The issuer        *)
(* rotates its keys and may be out of reach.                               *)
(***************************************************************************)
EXTENDS Integers

CONSTANTS
    Bearers,       \* requests with a token
    Kids,          \* identifiers of signing keys
    Nobody,        \* no request: no refresh is running
    KeyTTL,        \* jwksTTL
    MinRefresh,    \* jwksMinRefresh
    MaxClock,      \* bound on the clock
    MaxRotations   \* bound on the issuer's rotations

VARIABLES
    clock,
    published,    \* the keys at the issuer
    rotations,
    jwks,         \* the cached keys
    jwksExp,      \* when they expire
    lastRefresh,  \* when they were fetched last
    leader,       \* refreshCh: the request whose refresh is running
    asks,         \* the requests
    lastTold      \* history: when the keys of a fetch that named this one were stored

cacheVars == <<jwks, jwksExp, lastRefresh>>
issuerVars == <<clock, published, rotations>>
keyVars == <<issuerVars, cacheVars, leader, asks, lastTold>>

LongAgo == -1 - MinRefresh

Idle(k) == [at |-> "idle", kid |-> k, began |-> 0, missed |-> FALSE, fetched |-> {},
            error |-> FALSE, misled |-> FALSE]

KeysInit ==
    /\ clock = 0 /\ rotations = 0
    /\ \E k \in Kids : published = {k} /\ asks = [r \in Bearers |-> Idle(k)]
    /\ jwks = {} /\ jwksExp = LongAgo /\ lastRefresh = LongAgo
    /\ leader = Nobody
    /\ lastTold = [k \in Kids |-> LongAgo]

AskIs(r, step) == asks[r].at = step
AskGoes(r, step) == asks' = [asks EXCEPT ![r].at = step]

-----------------------------------------------------------------------------
(* The issuer and the clock.                                               *)

\* Time passes.  From storing the keys to closing the channel takes no time to speak of.
Tick ==
    /\ \A r \in Bearers : asks[r].at \notin {"stamping", "closing"}
    /\ clock < MaxClock /\ clock' = clock + 1
    /\ UNCHANGED <<published, rotations, cacheVars, leader, asks, lastTold>>

\* A new key is published, or one is withdrawn.
Rotate(k) ==
    /\ rotations < MaxRotations /\ rotations' = rotations + 1
    /\ published' = IF k \in published THEN published \ {k} ELSE published \cup {k}
    /\ UNCHANGED <<clock, cacheVars, leader, asks, lastTold>>

-----------------------------------------------------------------------------
(* A request.                                                              *)

\* What a fetch leaves in the cache: the keys it brought, and no other.
Parsed(fetched) == fetched

\* Mutant: keys do not expire.
HasKeysForEver == jwks # {}

HasKeys == jwks # {} /\ clock < jwksExp

\* Validate looks whether the cache holds keys that have not expired.
Present(r, k) ==
    /\ AskIs(r, "idle")
    /\ asks' = [asks EXCEPT ![r] = [Idle(k) EXCEPT !.began = clock,
                                                  !.at = IF HasKeys THEN "lookup" ELSE "refresh"]]
    /\ UNCHANGED <<issuerVars, cacheVars, leader, lastTold>>

\* The key of the token; when it is missing the keys may be fetched, if the last successful
\* fetch was long enough ago.
Lookup(r) ==
    /\ AskIs(r, "lookup")
    /\ LET found == asks[r].kid \in jwks
           mayFetch == clock - lastRefresh > MinRefresh
       IN asks' = [asks EXCEPT ![r].missed = ~found,
                               ![r].at = IF found THEN "verify"
                                         ELSE IF mayFetch /\ ~asks[r].missed THEN "refresh"
                                         ELSE "rejected"]
    /\ UNCHANGED <<issuerVars, cacheVars, leader, lastTold>>

\* verifySignature: the algorithm of the token suits the key, and its signature is right.
Signed == BOOLEAN

\* The issuer, the audience, the expiry and the subject have to be there and right; the time
\* before which the token is not valid, its time of issue and its authorized party have to be
\* right if they are there.
Claims == [required : BOOLEAN, optional : {"absent", "right", "wrong"}]
ClaimsHold(claims) == claims.required /\ claims.optional # "wrong"

Verify(r) ==
    /\ AskIs(r, "verify")
    /\ \E signed \in Signed, claims \in Claims :
          AskGoes(r, IF signed /\ ClaimsHold(claims) THEN "accepted" ELSE "rejected")
    /\ UNCHANGED <<issuerVars, cacheVars, leader, lastTold>>

Return(r) ==
    /\ asks[r].at \in {"accepted", "rejected"}
    /\ asks' = [asks EXCEPT ![r] = Idle(asks[r].kid)]
    /\ UNCHANGED <<issuerVars, cacheVars, leader, lastTold>>

-----------------------------------------------------------------------------
(* refreshKeysSingleflight.                                                *)

Join(r) ==
    /\ AskIs(r, "refresh")
    /\ IF leader = Nobody
       THEN leader' = r /\ AskGoes(r, "fetching")
       ELSE AskGoes(r, "waiting") /\ UNCHANGED <<leader>>
    /\ UNCHANGED <<issuerVars, cacheVars, lastTold>>

\* Mutant: a failed fetch returns without closing the channel.
FetchOrReturn(r) ==
    /\ AskIs(r, "fetching")
    /\ \/ asks' = [asks EXCEPT ![r].fetched = published, ![r].at = "storing"]
       \/ asks' = [asks EXCEPT ![r].error = TRUE, ![r].at = "rejected"]
    /\ UNCHANGED <<issuerVars, cacheVars, leader, lastTold>>

\* The discovery document and the keys arrive, or one of the two requests fails.
Fetch(r) ==
    /\ AskIs(r, "fetching")
    /\ \/ asks' = [asks EXCEPT ![r].fetched = published, ![r].at = "storing"]
       \/ asks' = [asks EXCEPT ![r].error = TRUE, ![r].at = "closing"]
    /\ UNCHANGED <<issuerVars, cacheVars, leader, lastTold>>

StoreKeys(r) ==
    /\ AskIs(r, "storing")
    /\ jwks' = Parsed(asks[r].fetched) /\ jwksExp' = clock + KeyTTL
    /\ lastTold' = [k \in Kids |-> IF k \in asks[r].fetched THEN clock ELSE lastTold[k]]
    /\ asks' = [asks EXCEPT ![r].at = "stamping", ![r].fetched = {}]
    /\ UNCHANGED <<issuerVars, lastRefresh, leader>>

Stamp(r) ==
    /\ AskIs(r, "stamping")
    /\ lastRefresh' = clock
    /\ AskGoes(r, "closing")
    /\ UNCHANGED <<issuerVars, jwks, jwksExp, leader, lastTold>>

\* A refresh that failed rejects the request that led it.  Those that waited are not told of
\* the failure: they go on with the keys there are.
Close(r) ==
    /\ AskIs(r, "closing")
    /\ leader' = Nobody
    /\ asks' = [x \in Bearers |->
           IF x = r THEN [asks[x] EXCEPT !.at = IF asks[x].error THEN "rejected" ELSE "lookup"]
           ELSE IF AskIs(x, "waiting") THEN [asks[x] EXCEPT !.at = "lookup", !.misled = asks[r].error]
           ELSE asks[x]]
    /\ UNCHANGED <<issuerVars, cacheVars, lastTold>>

Request(r) ==
    \/ \E k \in Kids : Present(r, k)
    \/ Lookup(r) \/ Verify(r) \/ Return(r)
    \/ Join(r) \/ Fetch(r) \/ StoreKeys(r) \/ Stamp(r) \/ Close(r)

KeysNext ==
    \/ Tick
    \/ \E k \in Kids : Rotate(k)
    \/ \E r \in Bearers : Request(r)

KeysSpec == KeysInit /\ [][KeysNext]_keyVars

-----------------------------------------------------------------------------
(* Properties.                                                             *)

Refreshing(r) == asks[r].at \in {"fetching", "storing", "stamping", "closing"}

\* One refresh runs at a time, and whoever waits, waits for one that runs and will close the
\* channel: nobody is left behind by a failed fetch (oidc.go:363-386).
SingleFlight ==
    /\ \A r \in Bearers : Refreshing(r) <=> leader = r
    /\ (\E r \in Bearers : AskIs(r, "waiting")) => leader # Nobody

\* A key the issuer has withdrawn lapses: no token is accepted KeyTTL after the keys of the
\* last fetch that named its key were stored, unless the request waited for a refresh that
\* failed (oidc.go:97-131, 446-451).
WithdrawnKeysLapse ==
    \A r \in Bearers :
        AskIs(r, "accepted") /\ ~asks[r].misled => asks[r].began < lastTold[asks[r].kid] + KeyTTL
=============================================================================
