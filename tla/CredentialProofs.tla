--------------------------- MODULE CredentialProofs --------------------------
(* The two stores of credentials: the issuer's keys that all requests share  *)
(* and the developers' Copilot enrollments.                                  *)
EXTENDS KeyCache, CopilotTokens, FiniteSetTheorems, TLAPS

-----------------------------------------------------------------------------
(* The shared refresh of KeyCache, for any number of requests and keys, any  *)
(* rotations and any clock.  That a request names its refresh, and not only  *)
(* that one is running, is what makes the invariant inductive.               *)

Steps == {"idle", "lookup", "verify", "accepted", "rejected", "refresh", "waiting",
          "fetching", "storing", "stamping", "closing"}

Ask == [at : Steps, kid : Kids, began : Int, missed : BOOLEAN, fetched : SUBSET Kids,
        error : BOOLEAN, misled : BOOLEAN]

KeyTypes ==
    /\ clock \in Int /\ published \in SUBSET Kids
    /\ asks \in [Bearers -> Ask]
    /\ leader \in Bearers \cup {Nobody}

KeyInv == KeyTypes /\ SingleFlight

LEMMA InitKeyInv ==
  ASSUME Nobody \notin Bearers
  PROVE  KeysInit => KeyInv
  BY DEF KeysInit, Idle, KeyInv, KeyTypes, Ask, Steps, SingleFlight, Refreshing, AskIs

(* A step that leaves the leader alone and moves a request neither into nor    *)
(* out of a refresh, nor into the wait for one.                                *)
LEMMA MovesOutside ==
  ASSUME KeyInv, NEW r \in Bearers, NEW ask \in Ask,
         asks' = [asks EXCEPT ![r] = ask], leader' = leader,
         ask.at \in {"fetching", "storing", "stamping", "closing"} <=> Refreshing(r),
         ask.at = "waiting" => leader # Nobody,
         clock' \in Int, published' \in SUBSET Kids
  PROVE  KeyInv'
  BY DEF KeyInv, KeyTypes, SingleFlight, Refreshing, AskIs

(* Each step keeps the refresh single.  Only Join makes a leader, when there   *)
(* is none, and only Close ends one, and then nobody waits.                    *)
LEMMA NextKeyInv ==
  ASSUME Nobody \notin Bearers, KeyInv, [KeysNext]_keyVars
  PROVE  KeyInv'
<1>1. ASSUME Tick PROVE KeyInv'
  BY <1>1 DEF Tick, cacheVars, KeyInv, KeyTypes, SingleFlight, Refreshing, AskIs
<1>2. ASSUME NEW k \in Kids, Rotate(k) PROVE KeyInv'
  BY <1>2 DEF Rotate, cacheVars, KeyInv, KeyTypes, SingleFlight, Refreshing, AskIs
<1>3. ASSUME NEW r \in Bearers, Request(r) PROVE KeyInv'
  <2> USE DEF issuerVars, cacheVars
  <2>0. asks[r] \in Ask /\ clock \in Int /\ published \in SUBSET Kids
    BY DEF KeyInv, KeyTypes
  <2>1. ASSUME NEW k \in Kids, Present(r, k) PROVE KeyInv'
    <3> DEFINE ask == [Idle(k) EXCEPT !.began = clock,
                                      !.at = IF HasKeys THEN "lookup" ELSE "refresh"]
    <3>1. ask \in Ask /\ ask.at \in {"lookup", "refresh"}
      BY <2>0 DEF Idle, Ask, Steps
    <3>2. asks' = [asks EXCEPT ![r] = ask] /\ leader' = leader /\ ~ Refreshing(r)
      BY <2>1 DEF Present, AskIs, Refreshing
    <3> QED
      BY <3>1, <3>2, <2>0, <2>1, MovesOutside DEF Present
  <2>2. ASSUME Lookup(r) PROVE KeyInv'
    <3> DEFINE found == asks[r].kid \in jwks
               step == IF found THEN "verify"
                       ELSE IF clock - lastRefresh > MinRefresh /\ ~ asks[r].missed
                       THEN "refresh" ELSE "rejected"
               ask == [asks[r] EXCEPT !.missed = ~ found, !.at = step]
    <3>1. ask \in Ask /\ ask.at \in {"verify", "refresh", "rejected"}
      BY <2>0 DEF Ask, Steps
    <3>2. asks' = [asks EXCEPT ![r] = ask] /\ leader' = leader /\ ~ Refreshing(r)
      BY <2>2 DEF Lookup, AskIs, Refreshing
    <3> QED
      BY <3>1, <3>2, <2>0, <2>2, MovesOutside DEF Lookup
  <2>3. ASSUME Verify(r) PROVE KeyInv'
    <3>1. PICK step \in {"accepted", "rejected"} : AskGoes(r, step)
      BY <2>3 DEF Verify
    <3> DEFINE ask == [asks[r] EXCEPT !.at = step]
    <3>2. ask \in Ask /\ ask.at = step
      BY <2>0 DEF Ask, Steps
    <3>3. asks' = [asks EXCEPT ![r] = ask] /\ leader' = leader /\ ~ Refreshing(r)
      BY <3>1, <2>3 DEF Verify, AskGoes, AskIs, Refreshing
    <3> QED
      BY <3>2, <3>3, <2>0, <2>3, MovesOutside DEF Verify
  <2>4. ASSUME Return(r) PROVE KeyInv'
    <3>1. Idle(asks[r].kid) \in Ask /\ Idle(asks[r].kid).at = "idle"
      BY <2>0 DEF Ask, Steps, Idle
    <3>2. asks' = [asks EXCEPT ![r] = Idle(asks[r].kid)] /\ leader' = leader /\ ~ Refreshing(r)
      BY <2>4 DEF Return, Refreshing
    <3> QED
      BY <3>1, <3>2, <2>0, <2>4, MovesOutside DEF Return
  <2>5. ASSUME Join(r) PROVE KeyInv'
    <3>1. ~ Refreshing(r) /\ leader # r
      BY <2>5 DEF Join, AskIs, Refreshing, KeyInv, SingleFlight
    <3>2. CASE leader = Nobody
      <4>1. leader' = r /\ asks' = [asks EXCEPT ![r].at = "fetching"]
        BY <2>5, <3>2 DEF Join, AskGoes
      <4>2. KeyTypes'
        BY <4>1, <2>0, <2>5 DEF Join, KeyInv, KeyTypes, Ask, Steps
      <4> QED
        BY <4>1, <4>2, <3>2, <2>0 DEF KeyInv, KeyTypes, SingleFlight, Refreshing, AskIs, Ask
    <3>3. CASE leader # Nobody
      <4> DEFINE ask == [asks[r] EXCEPT !.at = "waiting"]
      <4>1. ask \in Ask /\ ask.at = "waiting"
        BY <2>0 DEF Ask, Steps
      <4>2. asks' = [asks EXCEPT ![r] = ask] /\ leader' = leader
        BY <2>5, <3>3 DEF Join, AskGoes
      <4> QED
        BY <4>1, <4>2, <3>1, <3>3, <2>0, <2>5, MovesOutside DEF Join
    <3> QED
      BY <3>2, <3>3
  <2>6. ASSUME Fetch(r) PROVE KeyInv'
    <3> DEFINE brought == [asks[r] EXCEPT !.fetched = published, !.at = "storing"]
               failed  == [asks[r] EXCEPT !.error = TRUE, !.at = "closing"]
    <3>1. /\ brought \in Ask /\ brought.at = "storing"
          /\ failed \in Ask /\ failed.at = "closing"
      BY <2>0 DEF Ask, Steps
    <3>2. PICK ask \in {brought, failed} : asks' = [asks EXCEPT ![r] = ask]
      BY <2>6 DEF Fetch
    <3>3. leader' = leader /\ Refreshing(r)
      BY <2>6 DEF Fetch, AskIs, Refreshing
    <3> QED
      BY <3>1, <3>2, <3>3, <2>0, <2>6, MovesOutside DEF Fetch
  <2>7. ASSUME StoreKeys(r) PROVE KeyInv'
    <3> DEFINE ask == [asks[r] EXCEPT !.at = "stamping", !.fetched = {}]
    <3>1. ask \in Ask /\ ask.at = "stamping"
      BY <2>0 DEF Ask, Steps
    <3>2. asks' = [asks EXCEPT ![r] = ask] /\ leader' = leader /\ Refreshing(r)
      BY <2>7 DEF StoreKeys, AskIs, Refreshing
    <3> QED
      BY <3>1, <3>2, <2>0, <2>7, MovesOutside DEF StoreKeys
  <2>8. ASSUME Stamp(r) PROVE KeyInv'
    <3> DEFINE ask == [asks[r] EXCEPT !.at = "closing"]
    <3>1. ask \in Ask /\ ask.at = "closing"
      BY <2>0 DEF Ask, Steps
    <3>2. asks' = [asks EXCEPT ![r] = ask] /\ leader' = leader /\ Refreshing(r)
      BY <2>8 DEF Stamp, AskGoes, AskIs, Refreshing
    <3> QED
      BY <3>1, <3>2, <2>0, <2>8, MovesOutside DEF Stamp
  <2>9. ASSUME Close(r) PROVE KeyInv'
    <3>1. leader = r /\ leader' = Nobody
      BY <2>9 DEF Close, AskIs, KeyInv, SingleFlight, Refreshing
    <3>2. KeyTypes'
      BY <2>0, <2>9 DEF Close, KeyInv, KeyTypes, Ask, Steps, AskIs
    <3>3. ASSUME NEW x \in Bearers PROVE ~ Refreshing(x)' /\ ~ AskIs(x, "waiting")'
      <4>1. asks[x] \in Ask
        BY DEF KeyInv, KeyTypes
      <4>2. CASE x = r
        BY <4>1, <4>2, <2>9 DEF Close, Refreshing, AskIs, Ask
      <4>3. CASE x # r
        <5>1. ~ Refreshing(x)
          BY <3>1, <4>3 DEF KeyInv, SingleFlight
        <5> QED
          BY <4>1, <4>3, <5>1, <2>9 DEF Close, Refreshing, AskIs, Ask
      <4> QED
        BY <4>2, <4>3
    <3> QED
      BY <3>1, <3>2, <3>3 DEF KeyInv, SingleFlight
  <2> QED
    BY <1>3, <2>1, <2>2, <2>3, <2>4, <2>5, <2>6, <2>7, <2>8, <2>9 DEF Request
<1>4. ASSUME UNCHANGED keyVars PROVE KeyInv'
  BY <1>4 DEF keyVars, issuerVars, KeyInv, KeyTypes, SingleFlight, Refreshing, AskIs
<1> QED
  BY <1>1, <1>2, <1>3, <1>4 DEF KeysNext

(* One refresh runs at a time, and whoever waits, waits for it, whatever       *)
(* fails (refreshKeysSingleflight).                                            *)
THEOREM AlwaysSingleFlight ==
  ASSUME Nobody \notin Bearers
  PROVE  KeysSpec => []SingleFlight
<1>1. KeyInv => SingleFlight
  BY DEF KeyInv
<1>2. KeysInit => KeyInv
  BY InitKeyInv
<1>3. KeyInv /\ [KeysNext]_keyVars => KeyInv'
  BY NextKeyInv
<1> QED
  BY <1>1, <1>2, <1>3, PTL DEF KeysSpec

-----------------------------------------------------------------------------
(* Keys that were withdrawn lapse.  The invariant follows a token's key back   *)
(* to the fetch that named it: the cached keys expire together, KeyTTL after   *)
(* the last fetch that named any of them; the request that led a fetch, and    *)
(* those that waited for one that worked, find keys that expire KeyTTL from    *)
(* now; and a request looks for its key only with a cache that had not         *)
(* expired when the request began.                                             *)
KeysKnown ==
    /\ jwks \in SUBSET Kids /\ jwksExp \in Int /\ lastTold \in [Kids -> Int]
    /\ 0 <= clock /\ jwksExp <= clock + KeyTTL
    /\ \A k \in Kids : lastTold[k] <= clock
    /\ \A k \in jwks : jwksExp = lastTold[k] + KeyTTL

Justified(ask) ==
    /\ ask.began <= clock
    /\ ask.at = "stamping" \/ (ask.at = "closing" /\ ~ ask.error) => jwksExp = clock + KeyTTL
    /\ ask.at = "lookup" /\ ~ ask.misled => ask.began < jwksExp
    /\ ask.at \in {"verify", "accepted"} /\ ~ ask.misled => ask.began < lastTold[ask.kid] + KeyTTL

LapseInv == KeyInv /\ KeysKnown /\ \A r \in Bearers : Justified(asks[r])

LEMMA InitLapseInv ==
  ASSUME Nobody \notin Bearers, KeyTTL \in Nat \ {0}, MinRefresh \in Nat
  PROVE  KeysInit => LapseInv
<1> SUFFICES ASSUME KeysInit PROVE LapseInv
  OBVIOUS
<1>1. KeyInv
  BY InitKeyInv
<1>2. KeysKnown
  BY DEF KeysInit, KeysKnown, LongAgo
<1>3. ASSUME NEW r \in Bearers PROVE Justified(asks[r])
  BY DEF KeysInit, Justified, Idle
<1> QED
  BY <1>1, <1>2, <1>3 DEF LapseInv

(* A step of a request that leaves the keys and the clock alone.               *)
LEMMA KeepsJustified ==
  ASSUME LapseInv, KeyInv', NEW r \in Bearers, NEW ask,
         asks' = [asks EXCEPT ![r] = ask], UNCHANGED <<clock, jwks, jwksExp, lastTold>>,
         Justified(ask)
  PROVE  LapseInv'
<1>1. KeysKnown'
  BY DEF LapseInv, KeysKnown
<1>2. ASSUME NEW x \in Bearers PROVE Justified(asks[x])'
  <2>1. asks'[x] = IF x = r THEN ask ELSE asks[x]
    BY DEF LapseInv, KeyInv, KeyTypes
  <2>2. Justified(asks'[x])
    BY <2>1 DEF LapseInv
  <2> QED
    BY <2>2 DEF Justified
<1> QED
  BY <1>1, <1>2 DEF LapseInv

LEMMA NextLapseInv ==
  ASSUME Nobody \notin Bearers, KeyTTL \in Nat \ {0}, MinRefresh \in Nat,
         LapseInv, [KeysNext]_keyVars
  PROVE  LapseInv'
<1>0. KeyInv' /\ KeyInv /\ KeysKnown /\ clock \in Int
  BY NextKeyInv DEF LapseInv, KeyInv, KeyTypes
<1>t. ASSUME NEW x \in Bearers PROVE asks[x] \in Ask /\ Justified(asks[x])
  BY DEF LapseInv, KeyInv, KeyTypes
<1>1. ASSUME Tick PROVE LapseInv'
  <2>1. clock' = clock + 1 /\ UNCHANGED <<jwks, jwksExp, lastTold, asks>>
    BY <1>1 DEF Tick, cacheVars
  <2>2. KeysKnown'
    BY <2>1, <1>0 DEF KeysKnown
  <2>3. ASSUME NEW x \in Bearers PROVE Justified(asks[x])'
    <3>1. asks[x].at \notin {"stamping", "closing"} /\ asks[x].began \in Int
      BY <1>1, <1>t DEF Tick, Ask
    <3> QED
      BY <3>1, <2>1, <1>0, <1>t DEF Justified
  <2> QED
    BY <1>0, <2>2, <2>3 DEF LapseInv
<1>2. ASSUME UNCHANGED <<clock, jwks, jwksExp, lastTold, asks>> PROVE LapseInv'
  BY <1>0, <1>2, <1>t DEF LapseInv, KeysKnown, Justified
<1>3. ASSUME NEW r \in Bearers, Request(r) PROVE LapseInv'
  <2> USE DEF issuerVars, cacheVars
  <2>0. asks[r] \in Ask /\ Justified(asks[r])
    BY <1>t
  <2>1. ASSUME NEW k \in Kids, Present(r, k) PROVE LapseInv'
    <3> DEFINE ask == [Idle(k) EXCEPT !.began = clock,
                                      !.at = IF HasKeys THEN "lookup" ELSE "refresh"]
    <3>1. Justified(ask)
      BY <1>0 DEF Idle, Justified, HasKeys
    <3> QED
      BY <3>1, <1>0, <2>1, KeepsJustified DEF Present
  <2>2. ASSUME Lookup(r) PROVE LapseInv'
    <3> DEFINE found == asks[r].kid \in jwks
               step == IF found THEN "verify"
                       ELSE IF clock - lastRefresh > MinRefresh /\ ~ asks[r].missed
                       THEN "refresh" ELSE "rejected"
               ask == [asks[r] EXCEPT !.missed = ~ found, !.at = step]
    <3>1. /\ ask.at = step /\ ask.began = asks[r].began
          /\ ask.misled = asks[r].misled /\ ask.kid = asks[r].kid
          /\ asks[r].at = "lookup"
      BY <2>0, <2>2 DEF Ask, Lookup, AskIs
    <3>2. found => jwksExp = lastTold[asks[r].kid] + KeyTTL
      BY <1>0 DEF KeysKnown
    <3>3. Justified(ask)
      BY <3>1, <3>2, <2>0 DEF Justified
    <3>4. asks' = [asks EXCEPT ![r] = ask] /\ UNCHANGED <<clock, jwks, jwksExp, lastTold>>
      BY <2>2 DEF Lookup
    <3> HIDE DEF ask
    <3> QED
      BY <3>3, <3>4, <1>0, KeepsJustified
  <2>3. ASSUME Verify(r) PROVE LapseInv'
    <3>1. PICK step \in {"accepted", "rejected"} : AskGoes(r, step)
      BY <2>3 DEF Verify
    <3> DEFINE ask == [asks[r] EXCEPT !.at = step]
    <3>2. Justified(ask)
      BY <2>0, <2>3 DEF Ask, Verify, AskIs, Justified
    <3>3. asks' = [asks EXCEPT ![r] = ask] /\ UNCHANGED <<clock, jwks, jwksExp, lastTold>>
      BY <2>3, <3>1 DEF Verify, AskGoes
    <3> HIDE DEF ask
    <3> QED
      BY <3>2, <3>3, <1>0, KeepsJustified
  <2>4. ASSUME Return(r) PROVE LapseInv'
    <3> DEFINE ask == Idle(asks[r].kid)
    <3>1. Justified(ask)
      BY <1>0 DEF Idle, Justified, KeysKnown
    <3> QED
      BY <3>1, <1>0, <2>4, KeepsJustified DEF Return
  <2>5. ASSUME Join(r) PROVE LapseInv'
    <3>1. PICK step \in {"fetching", "waiting"} : AskGoes(r, step)
      BY <2>5 DEF Join
    <3> DEFINE ask == [asks[r] EXCEPT !.at = step]
    <3>2. Justified(ask)
      BY <2>0 DEF Ask, Justified
    <3>3. asks' = [asks EXCEPT ![r] = ask] /\ UNCHANGED <<clock, jwks, jwksExp, lastTold>>
      BY <2>5, <3>1 DEF Join, AskGoes
    <3> HIDE DEF ask
    <3> QED
      BY <3>2, <3>3, <1>0, KeepsJustified
  <2>6. ASSUME Fetch(r) PROVE LapseInv'
    <3> DEFINE brought == [asks[r] EXCEPT !.fetched = published, !.at = "storing"]
               failed  == [asks[r] EXCEPT !.error = TRUE, !.at = "closing"]
    <3>1. Justified(brought) /\ Justified(failed)
      BY <2>0 DEF Ask, Justified
    <3>2. PICK ask \in {brought, failed} : asks' = [asks EXCEPT ![r] = ask]
      BY <2>6 DEF Fetch
    <3>3. UNCHANGED <<clock, jwks, jwksExp, lastTold>> /\ Justified(ask)
      BY <2>6, <3>1 DEF Fetch
    <3> HIDE DEF brought, failed
    <3> QED
      BY <3>2, <3>3, <1>0, KeepsJustified
  <2>7. ASSUME StoreKeys(r) PROVE LapseInv'
    <3> DEFINE fetched == asks[r].fetched
    <3>1. /\ fetched \in SUBSET Kids /\ clock' = clock
          /\ jwks' = fetched /\ jwksExp' = clock + KeyTTL
          /\ lastTold' = [k \in Kids |-> IF k \in fetched THEN clock ELSE lastTold[k]]
      BY <2>0, <2>7 DEF StoreKeys, Ask, Parsed
    <3> HIDE DEF fetched
    <3>2. KeysKnown'
      BY <3>1, <1>0 DEF KeysKnown
    <3>3. jwksExp <= jwksExp' /\ \A k \in Kids : lastTold[k] <= lastTold'[k]
      BY <3>1, <1>0 DEF KeysKnown
    <3>4. ASSUME NEW x \in Bearers PROVE Justified(asks[x])'
      <4>1. /\ asks'[x].began = asks[x].began /\ asks'[x].misled = asks[x].misled
            /\ asks'[x].kid = asks[x].kid /\ asks'[x].at \in {asks[x].at, "stamping"}
            /\ asks[x].began \in Int /\ asks[x].kid \in Kids
        BY <1>t, <2>7, <1>0 DEF StoreKeys, KeyInv, KeyTypes, Ask
      <4>2. /\ lastTold[asks[x].kid] \in Int /\ lastTold'[asks[x].kid] \in Int
            /\ jwksExp \in Int
        BY <4>1, <3>2, <1>0 DEF KeysKnown
      <4> QED
        BY <4>1, <4>2, <3>1, <3>3, <1>0, <1>t DEF Justified
    <3> QED
      BY <1>0, <3>2, <3>4 DEF LapseInv
  <2>8. ASSUME Stamp(r) PROVE LapseInv'
    <3> DEFINE ask == [asks[r] EXCEPT !.at = "closing"]
    <3>1. Justified(ask)
      BY <2>0, <2>8 DEF Ask, Stamp, AskIs, Justified
    <3>2. asks' = [asks EXCEPT ![r] = ask] /\ UNCHANGED <<clock, jwks, jwksExp, lastTold>>
      BY <2>8 DEF Stamp, AskGoes
    <3> HIDE DEF ask
    <3> QED
      BY <3>1, <3>2, <1>0, KeepsJustified
  <2>9. ASSUME Close(r) PROVE LapseInv'
    <3>1. UNCHANGED <<clock, jwks, jwksExp, lastTold>> /\ asks[r].at = "closing"
      BY <2>9 DEF Close, AskIs
    <3>2. KeysKnown'
      BY <3>1, <1>0 DEF KeysKnown
    <3>3. ASSUME NEW x \in Bearers PROVE Justified(asks[x])'
      <4>0. asks[x] \in Ask /\ asks[x].began \in Int /\ jwksExp \in Int
        BY <1>t, <1>0 DEF Ask, KeysKnown
      <4>1. CASE x = r
        <5>1. /\ asks'[x].began = asks[x].began /\ asks'[x].misled = asks[x].misled
              /\ asks'[x].at = IF asks[r].error THEN "rejected" ELSE "lookup"
          BY <4>0, <4>1, <2>9 DEF Close, Ask
        <5>2. ~ asks[r].error => jwksExp = clock + KeyTTL
          BY <3>1, <2>0 DEF Justified
        <5> QED
          BY <5>1, <5>2, <4>0, <1>t, <1>0, <3>1 DEF Justified
      <4>2. CASE x # r /\ AskIs(x, "waiting")
        <5>1. /\ asks'[x].began = asks[x].began /\ asks'[x].misled = asks[r].error
              /\ asks'[x].at = "lookup"
          BY <4>0, <4>2, <2>9 DEF Close, Ask
        <5>2. ~ asks[r].error => jwksExp = clock + KeyTTL
          BY <3>1, <2>0 DEF Justified
        <5> QED
          BY <5>1, <5>2, <4>0, <1>t, <1>0, <3>1 DEF Justified
      <4>3. CASE x # r /\ ~ AskIs(x, "waiting")
        BY <4>3, <2>9, <3>1, <1>t DEF Close, Justified
      <4> QED
        BY <4>1, <4>2, <4>3
    <3> QED
      BY <1>0, <3>2, <3>3 DEF LapseInv
  <2> QED
    BY <1>3, <2>1, <2>2, <2>3, <2>4, <2>5, <2>6, <2>7, <2>8, <2>9 DEF Request
<1>4. ASSUME NEW k \in Kids, Rotate(k) PROVE LapseInv'
  BY <1>2, <1>4 DEF Rotate, cacheVars
<1>5. ASSUME UNCHANGED keyVars PROVE LapseInv'
  BY <1>2, <1>5 DEF keyVars, issuerVars, cacheVars
<1> QED
  BY <1>1, <1>3, <1>4, <1>5 DEF KeysNext

(* A withdrawn key lapses: whatever fails and whoever waits, no token is       *)
(* accepted KeyTTL after the keys of the last fetch that named its key were    *)
(* stored, unless its request waited for a refresh that failed (Validate and   *)
(* the keys it caches for jwksTTL).                                            *)
THEOREM WithdrawnKeysAlwaysLapse ==
  ASSUME Nobody \notin Bearers, KeyTTL \in Nat \ {0}, MinRefresh \in Nat
  PROVE  KeysSpec => []WithdrawnKeysLapse
<1>1. LapseInv => WithdrawnKeysLapse
  BY DEF LapseInv, Justified, WithdrawnKeysLapse, AskIs
<1>2. KeysInit => LapseInv
  BY InitLapseInv
<1>3. LapseInv /\ [KeysNext]_keyVars => LapseInv'
  BY NextLapseInv
<1> QED
  BY <1>1, <1>2, <1>3, PTL DEF KeysSpec

-----------------------------------------------------------------------------
(* The enrollments, for any finite number of developers, any calls, logins and*)
(* logouts, and both ways of GitHub with refresh tokens.  A grant is in one  *)
(* place: on its way to the store, in one record, or replaced; the calls of an*)
(* actor alone may hold it.  Two refreshes at once cannot then take each other's*)
(* tokens, nor a cached bearer stand for another enrollment.                 *)

Row == [access : Nat, refresh : Nat]
Actor == Developers \cup {CHOOSE a \in Developers : TRUE}

CallSteps == {"idle", "refused", "loaded", "refreshed", "saving", "saved", "resolved", "exchanged", "sent"}
CallRecord ==
    [at : CallSteps, actor : Actor, rec : Row, token : Nat, next : Row, bearer : Nat, old : SUBSET Nat, afterLogout : BOOLEAN]

LoginRecord == [at : {"idle", "polling", "granted", "failed", "done"}, actor : Actor, grant : Nat]

TokenTypes ==
    /\ records \in [Developers -> Row]
    /\ calls \in [ModelCalls -> CallRecord]
    /\ \A c \in ModelCalls : calls[c].at # "idle" => calls[c].actor \in Developers
    /\ logins \in [Logins -> LoginRecord]
    /\ \A l \in Logins : logins[l].at # "idle" => logins[l].actor \in Developers
    /\ issued \in Nat /\ live \subseteq 1 .. issued /\ replaced \subseteq 1 .. issued
    /\ rotates \in BOOLEAN /\ tokenFailures \in Nat

\* Those who bring a grant that GitHub has issued to the store.
Carriers == {c \in ModelCalls : calls[c].at \in {"refreshed", "saving"}}
Bringers == {l \in Logins : logins[l].at = "granted"}

\* The grants that are in no record yet, and with no call that read one.
Unsaved ==
    {g \in 1 .. issued \ replaced : /\ \A a \in Developers : records[a].access # g
                                   /\ \A c \in ModelCalls : calls[c].rec.access # g}

OnTheWay ==
    /\ \A c \in Carriers : calls[c].token \in Unsaved /\ (rotates => calls[c].token \in live)
    /\ \A l \in Bringers : logins[l].grant \in Unsaved \cap live
    /\ \A c, d \in Carriers : calls[c].token = calls[d].token => c = d
    /\ \A l, m \in Bringers : logins[l].grant = logins[m].grant => l = m
    /\ \A c \in Carriers, l \in Bringers : calls[c].token # logins[l].grant

\* A record holds a grant of its own, issued and not replaced.
RecordsApart ==
    /\ \A a \in Developers : records[a].access \in 0 .. issued \ replaced
    /\ \A a, b \in Developers : records[a].access = records[b].access /\ a # b => records[a].access = NoGrant

\* A call has a grant of its actor's, that had not been replaced before it began.
CallsHold ==
    \A c \in ModelCalls :
       /\ calls[c].old \subseteq replaced
       /\ calls[c].rec.access \in 0 .. issued \ calls[c].old
       /\ calls[c].at = "sent" => calls[c].bearer = calls[c].rec.access
       /\ \A a \in Developers :
             records[a].access = calls[c].rec.access => records[a].access = NoGrant \/ a = calls[c].actor

\* A bearer is cached under the grant it was exchanged for.
CacheTells ==
    /\ bearers \in [DOMAIN bearers -> Nat]
    /\ \A a \in Actor, g \in Nat : <<a, g>> \in DOMAIN bearers => bearers[<<a, g>>] = g

\* What a refresh token is worth: it came with the access token, or is good for ever.
Working ==
    {row \in Row : row = NoRow \/ /\ row.access # NoGrant
                                  /\ IF rotates THEN row.refresh = row.access ELSE row.refresh \in live}

Refreshes ==
    /\ \A a \in Developers : records[a] \in Working
    /\ \A c \in ModelCalls : calls[c].rec \in Working
    /\ \A c \in ModelCalls : calls[c].at = "saving" => calls[c].next.access = calls[c].token /\ calls[c].next \in Working

TokensInv == TokenTypes /\ OnTheWay /\ RecordsApart /\ CallsHold /\ CacheTells /\ Refreshes /\ RefreshUsable

(* What a step may make of a record.                                         *)
LEMMA RowUpdated ==
  ASSUME NEW row \in Row, NEW n \in Nat, rotates \in BOOLEAN
  PROVE  /\ Updated(row, n) \in Row /\ Updated(row, n).access = n
         /\ Updated(row, n).refresh = IF rotates THEN n ELSE row.refresh
<1>1. PICK r \in Nat : r = IF rotates THEN n ELSE row.refresh
  BY DEF Row
<1>2. Updated(row, n) = [row EXCEPT !.access = n, !.refresh = r]
  BY <1>1 DEF Updated
<1> QED
  BY <1>1, <1>2 DEF Row

\* A step leaves a call that is one.
LEMMA CallUpdated ==
  ASSUME NEW e \in CallRecord, NEW step \in CallSteps, NEW n \in Nat, NEW row \in Row
  PROVE  /\ [e EXCEPT !.at = step] \in CallRecord
         /\ [e EXCEPT !.token = n, !.at = step] \in CallRecord
         /\ [e EXCEPT !.at = step, !.next = row] \in CallRecord
         /\ [e EXCEPT !.at = step, !.rec = row] \in CallRecord
         /\ [e EXCEPT !.at = step, !.bearer = n] \in CallRecord
         /\ \A a \in Developers, old \in SUBSET Nat, b \in BOOLEAN :
              [e EXCEPT !.actor = a, !.rec = row, !.old = old, !.afterLogout = b, !.at = step] \in CallRecord
<1> HIDE DEF CallSteps, Row
<1> QED
  BY DEF CallRecord, Actor

\* What a step leaves of a call, field by field.
LEMMA CallFields ==
  ASSUME NEW e \in CallRecord, NEW step, NEW n, NEW row, NEW a, NEW old, NEW b
  PROVE  /\ LET f == [e EXCEPT !.at = step] IN
              /\ f.at = step /\ f.actor = e.actor /\ f.rec = e.rec /\ f.token = e.token
              /\ f.next = e.next /\ f.bearer = e.bearer /\ f.old = e.old
         /\ LET f == [e EXCEPT !.token = n, !.at = step] IN
              /\ f.at = step /\ f.actor = e.actor /\ f.rec = e.rec /\ f.token = n
              /\ f.next = e.next /\ f.bearer = e.bearer /\ f.old = e.old
         /\ LET f == [e EXCEPT !.at = step, !.next = row] IN
              /\ f.at = step /\ f.actor = e.actor /\ f.rec = e.rec /\ f.token = e.token
              /\ f.next = row /\ f.bearer = e.bearer /\ f.old = e.old
         /\ LET f == [e EXCEPT !.at = step, !.rec = row] IN
              /\ f.at = step /\ f.actor = e.actor /\ f.rec = row /\ f.token = e.token
              /\ f.next = e.next /\ f.bearer = e.bearer /\ f.old = e.old
         /\ LET f == [e EXCEPT !.at = step, !.bearer = n] IN
              /\ f.at = step /\ f.actor = e.actor /\ f.rec = e.rec /\ f.token = e.token
              /\ f.next = e.next /\ f.bearer = n /\ f.old = e.old
         /\ LET f == [e EXCEPT !.actor = a, !.rec = row, !.old = old, !.afterLogout = b, !.at = step] IN
              /\ f.at = step /\ f.actor = a /\ f.rec = row /\ f.token = e.token
              /\ f.next = e.next /\ f.bearer = e.bearer /\ f.old = old
  BY DEF CallRecord

-----------------------------------------------------------------------------
(* The steps, by what they do to the records and to what is on its way.      *)

Becomes(c, e) == calls' = [calls EXCEPT ![c] = e]

\* One call moves, the others stay.
LEMMA BecomesOne ==
  ASSUME TokenTypes, NEW c \in ModelCalls, NEW e \in CallRecord, Becomes(c, e), e.at # "idle" => e.actor \in Developers
  PROVE  /\ calls' \in [ModelCalls -> CallRecord] /\ calls'[c] = e
         /\ \A d \in ModelCalls \ {c} : calls'[d] = calls[d]
         /\ \A d \in ModelCalls : calls'[d].at # "idle" => calls'[d].actor \in Developers
  BY DEF Becomes, TokenTypes

StoreRests == UNCHANGED <<records, logins, issued, live, rotates, replaced>>

LEMMA RestsOne ==
  ASSUME StoreRests
  PROVE  records' = records /\ logins' = logins /\ issued' = issued /\ live' = live /\ rotates' = rotates /\ replaced' = replaced
  BY DEF StoreRests

Fewer == tokenFailures' \in Nat /\ tokenFailures' >= tokenFailures

\* What a call that is not on its way to the store may turn into, and one that gives up: its
\* actor has no record any more, or an operation of the store failed.
TurnsInto(c, e) ==
    /\ e.at \notin {"refreshed", "saving"}
    /\ e.at # "idle" => e.actor \in Developers
    /\ c \in Carriers => records[calls[c].actor] = NoRow \/ tokenFailures' > 0

HoldsWell(e) ==
    /\ e.old \subseteq replaced
    /\ e.rec.access \in 0 .. issued \ e.old /\ e.rec.access \notin Unsaved
    /\ e.at = "sent" => e.bearer = e.rec.access
    /\ \A a \in Developers : records[a].access = e.rec.access => records[a].access = NoGrant \/ a = e.actor
    /\ e.rec \in Working

\* A call that holds well, and brings nothing to the store, keeps the invariant.
LEMMA CallTurns ==
  ASSUME TokensInv, NEW c \in ModelCalls, NEW e \in CallRecord, Becomes(c, e), TurnsInto(c, e), HoldsWell(e),
         StoreRests, Fewer, CacheTells'
  PROVE  TokensInv'
<1>0. records' = records /\ logins' = logins /\ issued' = issued /\ live' = live /\ rotates' = rotates /\ replaced' = replaced
  BY RestsOne
<1>1. /\ calls' \in [ModelCalls -> CallRecord] /\ calls'[c] = e
      /\ \A d \in ModelCalls \ {c} : calls'[d] = calls[d]
      /\ \A d \in ModelCalls : calls'[d].at # "idle" => calls'[d].actor \in Developers
  BY BecomesOne DEF TokensInv, TokenTypes, TurnsInto
<1>2. TokenTypes'
  BY <1>0, <1>1 DEF TokensInv, TokenTypes, Fewer
<1>4. Carriers' = Carriers \ {c} /\ \A d \in Carriers' : calls'[d] = calls[d]
  BY <1>1 DEF Carriers, TurnsInto
<1>5. Unsaved \subseteq Unsaved'
  BY <1>0, <1>1 DEF Unsaved, HoldsWell
<1>6. Bringers' = Bringers /\ Working' = Working
  BY <1>0 DEF Bringers, Working
<1>7. OnTheWay'
  BY <1>0, <1>4, <1>5, <1>6 DEF TokensInv, OnTheWay
<1>8. RecordsApart'
  BY <1>0 DEF TokensInv, RecordsApart
<1>9. CallsHold'
  BY <1>0, <1>1 DEF TokensInv, CallsHold, HoldsWell
<1>11. Refreshes'
  BY <1>0, <1>1, <1>6 DEF TokensInv, Refreshes, HoldsWell, TurnsInto
<1>12. RefreshUsable'
  BY <1>0, <1>1 DEF TokensInv, RefreshUsable, Carriers, TokenTypes, TurnsInto, Fewer
<1> QED
  BY <1>2, <1>7, <1>8, <1>9, <1>11, <1>12 DEF TokensInv

\* A refresh that GitHub has answered takes the record over that is in the store.
TakesOver(c, e) ==
    /\ calls[c].at = "refreshed" /\ e.at = "saving"
    /\ e.actor = calls[c].actor /\ e.rec = calls[c].rec /\ e.token = calls[c].token /\ e.old = calls[c].old
    /\ e.next.access = e.token /\ e.next \in Working

LEMMA CallSaves ==
  ASSUME TokensInv, NEW c \in ModelCalls, NEW e \in CallRecord, Becomes(c, e), TakesOver(c, e),
         StoreRests, Fewer, CacheTells'
  PROVE  TokensInv'
<1>0. records' = records /\ logins' = logins /\ issued' = issued /\ live' = live /\ rotates' = rotates /\ replaced' = replaced
  BY RestsOne
<1>1. e.at # "idle" => e.actor \in Developers
  BY DEF TokensInv, TokenTypes, TakesOver
<1>3. /\ calls' \in [ModelCalls -> CallRecord] /\ calls'[c] = e
      /\ \A d \in ModelCalls \ {c} : calls'[d] = calls[d]
      /\ \A d \in ModelCalls : calls'[d].at # "idle" => calls'[d].actor \in Developers
  BY <1>1, BecomesOne DEF TokensInv
<1>4. TokenTypes'
  BY <1>0, <1>3 DEF TokensInv, TokenTypes, Fewer
<1>5. Carriers' = Carriers /\ \A d \in Carriers : calls'[d].token = calls[d].token
  BY <1>3 DEF Carriers, TakesOver
<1>6. Unsaved' = Unsaved /\ Bringers' = Bringers /\ Working' = Working
  <2>1. Unsaved' = Unsaved
    BY <1>0, <1>3 DEF Unsaved, TakesOver
  <2> QED
    BY <1>0, <2>1 DEF Bringers, Working
<1>7. OnTheWay'
  BY <1>0, <1>5, <1>6 DEF TokensInv, OnTheWay
<1>8. RecordsApart'
  BY <1>0 DEF TokensInv, RecordsApart
<1>9. CallsHold'
  BY <1>0, <1>3 DEF TokensInv, CallsHold, TakesOver
<1>11. Refreshes'
  BY <1>0, <1>3, <1>6 DEF TokensInv, Refreshes, TakesOver
<1>12. RefreshUsable'
  BY <1>0, <1>3 DEF TokensInv, RefreshUsable, Fewer, TokenTypes, TakesOver
<1> QED
  BY <1>4, <1>7, <1>8, <1>9, <1>11, <1>12 DEF TokensInv

\* A record is written: the grant it gets is in no other record and with no call.
LEMMA RowSaved ==
  ASSUME TokensInv, NEW a \in Developers, NEW row \in Row, Save(a, row),
         row \in Working, row.access \in Unsaved, issued' = issued, live' = live, rotates' = rotates
  PROVE  /\ records' \in [Developers -> Row] /\ records'[a] = row
         /\ \A b \in Developers \ {a} : records'[b] = records[b]
         /\ replaced \subseteq replaced' /\ replaced' \subseteq 1 .. issued'
         /\ Unsaved \ {row.access} \subseteq {g \in 1 .. issued \ replaced' : \A b \in Developers : records'[b].access # g}
         /\ RecordsApart' /\ \A b \in Developers : records'[b] \in Working'
<1>1. /\ records' \in [Developers -> Row] /\ records'[a] = row
      /\ \A b \in Developers \ {a} : records'[b] = records[b]
  BY DEF Save, TokensInv, TokenTypes
<1>2. replaced' = (replaced \cup Held(a)) \ {row.access}
  BY DEF Save
<1>3. Held(a) = IF records[a] = NoRow THEN {} ELSE {records[a].access}
  BY DEF Held
<1>4. row.access \in 1 .. issued /\ row.access \notin replaced
  BY DEF Unsaved
<1>5. \A b \in Developers : records[b].access # row.access
  BY DEF Unsaved
<1>6. issued \in Nat /\ replaced \subseteq 1 .. issued
  BY DEF TokensInv, TokenTypes
<1>7. \A b \in Developers : records[b] # NoRow => records[b].access # NoGrant
  BY DEF TokensInv, Refreshes, Working
<1>8. \A b \in Developers : records[b].access \in 0 .. issued \ replaced
  BY DEF TokensInv, RecordsApart
<1>9. \A b, d \in Developers : records[b].access = records[d].access /\ b # d => records[b].access = NoGrant
  BY DEF TokensInv, RecordsApart
<1>10. Held(a) \subseteq 1 .. issued
  BY <1>3, <1>6, <1>7, <1>8 DEF NoGrant
<1>11. replaced \subseteq replaced' /\ replaced' \subseteq 1 .. issued'
  BY <1>2, <1>4, <1>6, <1>10
<1>12. \A g \in Unsaved : g \in 1 .. issued \ replaced /\ \A b \in Developers : records[b].access # g
  BY DEF Unsaved
<1>13. Unsaved \ {row.access} \subseteq {g \in 1 .. issued \ replaced' : \A b \in Developers : records'[b].access # g}
  BY <1>1, <1>2, <1>3, <1>12
<1>14. \A b \in Developers : records'[b].access \in 0 .. issued' \ replaced'
  <2>1. \A b \in Developers \ {a} : records[b].access \notin Held(a)
    BY <1>3, <1>7, <1>9
  <2>2. row.access \in 0 .. issued' \ replaced'
    BY <1>2, <1>4, <1>6
  <2>3. \A b \in Developers \ {a} : records[b].access \in 0 .. issued' \ replaced'
    BY <1>2, <1>8, <2>1
  <2> QED
    BY <1>1, <2>2, <2>3
<1>15. RecordsApart'
  BY <1>1, <1>5, <1>9, <1>14 DEF RecordsApart
<1>16. Working' = Working
  BY DEF Working
<1>17. \A b \in Developers : records'[b] \in Working'
  BY <1>1, <1>16 DEF TokensInv, Refreshes
<1> QED
  BY <1>1, <1>11, <1>13, <1>15, <1>17

GrantsRest == UNCHANGED <<issued, live, rotates>>

LEMMA GrantsRestOne ==
  ASSUME GrantsRest
  PROVE  issued' = issued /\ live' = live /\ rotates' = rotates
  BY DEF GrantsRest

\* What the other records, the calls and those on their way keep when a record is written.
Hands(c, e) ==
    /\ calls[c].at = "saving" /\ e.at = "saved"
    /\ e.actor = calls[c].actor /\ e.rec = calls[c].rec /\ e.old = calls[c].old

\* A refresh overwrites the record with the grant it brought.
LEMMA UpdateSaves ==
  ASSUME TokensInv, NEW c \in ModelCalls, NEW e \in CallRecord, Becomes(c, e), Hands(c, e),
         Save(calls[c].actor, calls[c].next), GrantsRest, logins' = logins, Fewer, CacheTells'
  PROVE  TokensInv'
<1>0. issued' = issued /\ live' = live /\ rotates' = rotates
  BY GrantsRestOne
<1>1. /\ calls' \in [ModelCalls -> CallRecord] /\ calls'[c] = e
      /\ \A d \in ModelCalls \ {c} : calls'[d] = calls[d]
      /\ \A d \in ModelCalls : calls'[d].at # "idle" => calls'[d].actor \in Developers
  <2>1. e.at # "idle" => e.actor \in Developers
    BY DEF TokensInv, TokenTypes, Hands
  <2> QED
    BY <2>1, BecomesOne DEF TokensInv
<1>2. PICK a \in Developers : a = calls[c].actor
  BY DEF TokensInv, TokenTypes, Hands
<1>3. PICK row \in Row : row = calls[c].next
  BY DEF TokensInv, TokenTypes, CallRecord
<1>4. c \in Carriers
  BY DEF Carriers, Hands
<1>5. row.access = calls[c].token /\ row \in Working /\ row.access \in Unsaved /\ (rotates => row.access \in live)
  BY <1>3, <1>4 DEF TokensInv, OnTheWay, Refreshes, Hands
<1>6. Save(a, row)
  BY <1>2, <1>3
<1>7. /\ records' \in [Developers -> Row] /\ records'[a] = row
      /\ \A b \in Developers \ {a} : records'[b] = records[b]
      /\ replaced \subseteq replaced' /\ replaced' \subseteq 1 .. issued'
      /\ Unsaved \ {row.access} \subseteq {g \in 1 .. issued \ replaced' : \A b \in Developers : records'[b].access # g}
      /\ RecordsApart' /\ \A b \in Developers : records'[b] \in Working'
  BY <1>0, <1>5, <1>6, RowSaved
<1>8. TokenTypes'
  BY <1>0, <1>1, <1>7 DEF TokensInv, TokenTypes, Fewer
<1>9. Carriers' = Carriers \ {c} /\ \A d \in Carriers' : calls'[d] = calls[d]
  BY <1>1 DEF Carriers, Hands
<1>10. Bringers' = Bringers /\ Working' = Working
  BY <1>0 DEF Bringers, Working
<1>11. Unsaved \ {row.access} \subseteq Unsaved'
  <2>1. \A g \in Unsaved, d \in ModelCalls : calls'[d].rec.access # g
    BY <1>1 DEF Unsaved, Hands
  <2> QED
    BY <1>0, <1>7, <2>1 DEF Unsaved
<1>12. OnTheWay'
  <2>1. \A d \in Carriers' : calls[d].token # row.access
    BY <1>4, <1>5, <1>9 DEF TokensInv, OnTheWay
  <2>2. \A l \in Bringers : logins[l].grant # row.access
    BY <1>4, <1>5 DEF TokensInv, OnTheWay
  <2> QED
    BY <1>0, <1>9, <1>10, <1>11, <2>1, <2>2 DEF TokensInv, OnTheWay
<1>13. CallsHold'
  <2>1. \A d \in ModelCalls : calls[d].rec.access # row.access
    BY <1>5 DEF Unsaved
  <2>4. \A d \in ModelCalls : /\ calls'[d].old = calls[d].old /\ calls'[d].rec = calls[d].rec
                              /\ calls'[d].at = "sent" => calls'[d] = calls[d]
    BY <1>1 DEF Hands
  <2>2. \A d \in ModelCalls : /\ calls'[d].old \subseteq replaced'
                              /\ calls'[d].rec.access \in 0 .. issued' \ calls'[d].old
                              /\ calls'[d].at = "sent" => calls'[d].bearer = calls'[d].rec.access
    BY <1>0, <1>7, <2>4 DEF TokensInv, CallsHold
  <2>3. \A d \in ModelCalls, b \in Developers :
           records'[b].access = calls'[d].rec.access => records'[b].access = NoGrant \/ b = calls'[d].actor
    BY <1>1, <1>7, <2>1 DEF TokensInv, CallsHold, Hands
  <2> QED
    BY <2>2, <2>3 DEF CallsHold
<1>14. Refreshes'
  BY <1>1, <1>7, <1>10 DEF TokensInv, Refreshes, Hands
<1>15. RefreshUsable'
  <2>1. row.refresh \in live
    BY <1>5 DEF Working, Unsaved, NoRow, NoGrant
  <2> QED
    BY <1>0, <1>1, <1>2, <1>7, <2>1 DEF TokensInv, RefreshUsable, Fewer, TokenTypes, Hands
<1> QED
  BY <1>8, <1>7, <1>12, <1>13, <1>14, <1>15 DEF TokensInv

-----------------------------------------------------------------------------
(* The logins.                                                               *)

LoginBecomes(l, f) == logins' = [logins EXCEPT ![l] = f]

LEMMA LoginBecomesOne ==
  ASSUME TokenTypes, NEW l \in Logins, NEW f \in LoginRecord, LoginBecomes(l, f), f.at # "idle" => f.actor \in Developers
  PROVE  /\ logins' \in [Logins -> LoginRecord] /\ logins'[l] = f
         /\ \A m \in Logins \ {l} : logins'[m] = logins[m]
         /\ \A m \in Logins : logins'[m].at # "idle" => logins'[m].actor \in Developers
  BY DEF LoginBecomes, TokenTypes

\* A login overwrites the record, or makes one, with the grant it brought.
LEMMA LoginSaves ==
  ASSUME TokensInv, NEW l \in Logins, NEW f \in LoginRecord, LoginBecomes(l, f), f.at = "done", f.actor = logins[l].actor,
         logins[l].at = "granted", NEW row \in Row, row.access = logins[l].grant, row.refresh = logins[l].grant,
         Save(logins[l].actor, row), GrantsRest, calls' = calls, Fewer, CacheTells'
  PROVE  TokensInv'
<1>0. issued' = issued /\ live' = live /\ rotates' = rotates
  BY GrantsRestOne
<1>2. PICK a \in Developers : a = logins[l].actor
  BY DEF TokensInv, TokenTypes
<1>1. /\ logins' \in [Logins -> LoginRecord] /\ logins'[l] = f
      /\ \A m \in Logins \ {l} : logins'[m] = logins[m]
      /\ \A m \in Logins : logins'[m].at # "idle" => logins'[m].actor \in Developers
  BY <1>2, LoginBecomesOne DEF TokensInv
<1>4. l \in Bringers
  BY DEF Bringers
<1>5. row.access \in Unsaved /\ row.access \in live /\ row.refresh \in live
  BY <1>4 DEF TokensInv, OnTheWay
<1>3. row \in Working
  BY <1>5 DEF Working, Unsaved, NoGrant
<1>6. Save(a, row)
  BY <1>2
<1>7. /\ records' \in [Developers -> Row] /\ records'[a] = row
      /\ \A b \in Developers \ {a} : records'[b] = records[b]
      /\ replaced \subseteq replaced' /\ replaced' \subseteq 1 .. issued'
      /\ Unsaved \ {row.access} \subseteq {g \in 1 .. issued \ replaced' : \A b \in Developers : records'[b].access # g}
      /\ RecordsApart' /\ \A b \in Developers : records'[b] \in Working'
  BY <1>0, <1>3, <1>5, <1>6, RowSaved
<1>8. TokenTypes'
  BY <1>0, <1>1, <1>7 DEF TokensInv, TokenTypes, Fewer
<1>9. Bringers' = Bringers \ {l} /\ \A m \in Bringers' : logins'[m] = logins[m]
  BY <1>1 DEF Bringers
<1>10. Carriers' = Carriers /\ Working' = Working
  BY <1>0 DEF Carriers, Working
<1>11. Unsaved \ {row.access} \subseteq Unsaved'
  BY <1>0, <1>7 DEF Unsaved
<1>12. OnTheWay'
  <2>1. \A d \in Carriers : calls[d].token # row.access
    BY <1>4 DEF TokensInv, OnTheWay
  <2>2. \A m \in Bringers' : logins[m].grant # row.access
    BY <1>4, <1>9 DEF TokensInv, OnTheWay
  <2> QED
    BY <1>0, <1>9, <1>10, <1>11, <2>1, <2>2 DEF TokensInv, OnTheWay
<1>13. CallsHold'
  <2>1. \A d \in ModelCalls : calls[d].rec.access # row.access
    BY <1>5 DEF Unsaved
  <2>2. \A d \in ModelCalls : /\ calls'[d].old \subseteq replaced'
                              /\ calls'[d].rec.access \in 0 .. issued' \ calls'[d].old
                              /\ calls'[d].at = "sent" => calls'[d].bearer = calls'[d].rec.access
    BY <1>0, <1>7 DEF TokensInv, CallsHold
  <2>3. \A d \in ModelCalls, b \in Developers :
           records'[b].access = calls'[d].rec.access => records'[b].access = NoGrant \/ b = calls'[d].actor
    BY <1>7, <2>1 DEF TokensInv, CallsHold
  <2> QED
    BY <2>2, <2>3 DEF CallsHold
<1>14. Refreshes'
  BY <1>7, <1>10 DEF TokensInv, Refreshes
<1>15. RefreshUsable'
  BY <1>0, <1>2, <1>5, <1>7 DEF TokensInv, RefreshUsable, Fewer, TokenTypes
<1> QED
  BY <1>8, <1>7, <1>12, <1>13, <1>14, <1>15 DEF TokensInv

-----------------------------------------------------------------------------
(* GitHub issues a grant: to a call that refreshes, or to a login.           *)

\* The grant is new: it is in no record and with no call.
LEMMA OneMore ==
  ASSUME TokensInv, issued' = issued + 1, UNCHANGED <<records, replaced>>,
         \A d \in ModelCalls : calls'[d].rec = calls[d].rec
  PROVE  /\ Unsaved \cup {issued + 1} \subseteq Unsaved' /\ issued + 1 \notin Unsaved
         /\ issued' \in Nat /\ 1 .. issued' = 1 .. issued \cup {issued + 1} /\ 0 .. issued \subseteq 0 .. issued'
         /\ RecordsApart'
<1>1. issued \in Nat /\ replaced \subseteq 1 .. issued
  BY DEF TokensInv, TokenTypes
<1>2. issued' \in Nat /\ 1 .. issued' = 1 .. issued \cup {issued + 1} /\ 0 .. issued \subseteq 0 .. issued'
  BY <1>1
<1>3. issued + 1 \notin 0 .. issued /\ issued + 1 \notin replaced
  BY <1>1
<1>4. \A b \in Developers : records[b].access \in 0 .. issued
  BY DEF TokensInv, RecordsApart
<1>5. \A d \in ModelCalls : calls[d].rec.access \in 0 .. issued
  BY DEF TokensInv, CallsHold
<1>6. Unsaved \cup {issued + 1} \subseteq Unsaved' /\ issued + 1 \notin Unsaved
  BY <1>2, <1>3, <1>4, <1>5 DEF Unsaved
<1>7. RecordsApart'
  BY <1>2 DEF TokensInv, RecordsApart
<1> QED
  BY <1>2, <1>6, <1>7

Asks(c, e) ==
    /\ calls[c].at = "loaded" /\ calls[c].rec.refresh # NoGrant
    /\ e.actor = calls[c].actor /\ e.rec = calls[c].rec /\ e.old = calls[c].old
    /\ \/ e.at = "refreshed" /\ e.token = issued + 1
       \/ e.at = "resolved" /\ tokenFailures' > 0

IssuedFor(c) ==
    /\ issued' = issued + 1
    /\ live' = IF rotates THEN (live \ {calls[c].rec.refresh}) \cup {issued + 1} ELSE live

AllElseRests == UNCHANGED <<records, logins, rotates, replaced>>

LEMMA AllElseRestsOne ==
  ASSUME AllElseRests
  PROVE  records' = records /\ logins' = logins /\ rotates' = rotates /\ replaced' = replaced
  BY DEF AllElseRests

\* Whether or not the answer arrives, the token that was used belongs to the record of that actor alone.
LEMMA RefreshIssues ==
  ASSUME TokensInv, NEW c \in ModelCalls, NEW e \in CallRecord, Becomes(c, e), Asks(c, e), IssuedFor(c),
         AllElseRests, Fewer, CacheTells'
  PROVE  TokensInv'
<1>0. records' = records /\ logins' = logins /\ rotates' = rotates /\ replaced' = replaced
  BY AllElseRestsOne
<1>1. /\ calls' \in [ModelCalls -> CallRecord] /\ calls'[c] = e
      /\ \A d \in ModelCalls \ {c} : calls'[d] = calls[d]
      /\ \A d \in ModelCalls : calls'[d].at # "idle" => calls'[d].actor \in Developers
  <2>1. e.at # "idle" => e.actor \in Developers
    BY DEF TokensInv, TokenTypes, Asks
  <2> QED
    BY <2>1, BecomesOne DEF TokensInv
<1>2. \A d \in ModelCalls : /\ calls'[d].old = calls[d].old /\ calls'[d].rec = calls[d].rec /\ calls'[d].actor = calls[d].actor
                            /\ calls'[d].at \in {"sent", "saving"} => calls'[d] = calls[d]
  BY <1>1 DEF Asks
<1>3. /\ Unsaved \cup {issued + 1} \subseteq Unsaved' /\ issued + 1 \notin Unsaved
      /\ issued' \in Nat /\ 1 .. issued' = 1 .. issued \cup {issued + 1} /\ 0 .. issued \subseteq 0 .. issued'
      /\ RecordsApart'
  BY <1>0, <1>2, OneMore DEF IssuedFor
<1>4. live' \subseteq live \cup {issued + 1} /\ (rotates => issued + 1 \in live') /\ (~rotates => live' = live)
  BY DEF IssuedFor
<1>5. TokenTypes'
  BY <1>0, <1>1, <1>3, <1>4 DEF TokensInv, TokenTypes, Fewer
<1>6. rotates => /\ calls[c].rec.refresh = calls[c].rec.access
                 /\ live \ {calls[c].rec.access} \subseteq live'
  BY DEF TokensInv, Refreshes, Working, Asks, IssuedFor, NoRow
<1>7. calls[c].rec.access \notin Unsaved
  BY DEF Unsaved
<1>8. \A g \in Unsaved \cap live : g \in live'
  BY <1>4, <1>6, <1>7
<1>9. Carriers' \subseteq Carriers \cup {c} /\ c \notin Carriers /\ Bringers' = Bringers
      /\ (c \in Carriers' => e.token = issued + 1)
  BY <1>0, <1>1 DEF Carriers, Bringers, Asks
<1>10. OnTheWay'
  <2> PICK n \in Nat : n = issued + 1
    BY DEF TokensInv, TokenTypes
  <2>6. Unsaved \subseteq Unsaved' /\ n \in Unsaved' /\ n \notin Unsaved /\ (rotates => n \in live')
    BY <1>3, <1>4
  <2>0. \A d \in Carriers' : /\ d = c => calls'[d].token = n
                             /\ d # c => d \in Carriers /\ calls'[d].token = calls[d].token
    <3>1. Carriers \subseteq ModelCalls
      BY DEF Carriers
    <3> QED
      BY <1>1, <1>9, <3>1
  <2>5. /\ \A d \in Carriers : calls[d].token \in Unsaved /\ (rotates => calls[d].token \in live)
        /\ \A d, h \in Carriers : calls[d].token = calls[h].token => d = h
        /\ \A l \in Bringers : logins[l].grant \in Unsaved \cap live
        /\ \A d \in Carriers, l \in Bringers : calls[d].token # logins[l].grant
        /\ \A l, m \in Bringers : logins[l].grant = logins[m].grant => l = m
    BY DEF TokensInv, OnTheWay
  <2>1. \A d \in Carriers' : calls'[d].token \in Unsaved' /\ (rotates => calls'[d].token \in live')
    BY <2>6, <1>8, <2>0, <2>5
  <2>2. \A l \in Bringers : logins[l].grant \in Unsaved' \cap live' /\ logins[l].grant # n
    BY <2>6, <1>8, <2>5
  <2>3. \A d, h \in Carriers' : calls'[d].token = calls'[h].token => d = h
    BY <2>6, <2>0, <2>5
  <2>4. \A d \in Carriers', l \in Bringers : calls'[d].token # logins[l].grant
    BY <2>0, <2>2, <2>5
  <2> QED
    BY <1>0, <1>9, <2>1, <2>2, <2>3, <2>4, <2>5 DEF OnTheWay
<1>11. CallsHold'
  BY <1>0, <1>2, <1>3 DEF TokensInv, CallsHold
<1>12. Working' = Working
  BY <1>0, <1>4 DEF Working
<1>13. Refreshes'
  BY <1>0, <1>2, <1>12 DEF TokensInv, Refreshes
<1>14. RefreshUsable'
  <2> SUFFICES ASSUME NEW a \in Developers, records[a] # NoRow, ~(tokenFailures' > 0)
               PROVE  \/ \E d \in ModelCalls : calls'[d].actor = a /\ calls'[d].at \in {"refreshed", "saving"}
                      \/ records[a].refresh \in live'
    BY <1>0 DEF RefreshUsable
  <2>1. calls'[c].at = "refreshed" /\ calls'[c].actor = calls[c].actor
    BY <1>1 DEF Asks
  <2>2. CASE \E d \in ModelCalls : calls[d].actor = a /\ calls[d].at \in {"refreshed", "saving"}
    BY <1>1, <2>2 DEF Asks
  <2>3. CASE records[a].refresh \in live
    <3>1. CASE a = calls[c].actor
      BY <2>1, <3>1
    <3>2. CASE a # calls[c].actor
      <4>1. records[a].access # NoGrant /\ (rotates => records[a].refresh = records[a].access)
        BY DEF TokensInv, Refreshes, Working
      <4>2. records[a].access # calls[c].rec.access
        BY <3>2, <4>1 DEF TokensInv, CallsHold
      <4> QED
        BY <1>4, <1>6, <2>3, <4>1, <4>2
    <3> QED
      BY <3>1, <3>2
  <2>4. ~(tokenFailures > 0)
    BY DEF Fewer, TokensInv, TokenTypes
  <2> QED
    BY <2>2, <2>3, <2>4 DEF TokensInv, RefreshUsable
<1> QED
  BY <1>5, <1>3, <1>10, <1>11, <1>13, <1>14 DEF TokensInv

\* A login that polls: it is granted its own, or fails.
IsGranted(l, f) ==
    /\ logins[l].at = "polling"
    /\ f.at = "granted" /\ f.actor = logins[l].actor /\ f.grant = issued + 1
    /\ issued' = issued + 1 /\ live' = live \cup {issued + 1}

LEMMA LoginIssues ==
  ASSUME TokensInv, NEW l \in Logins, NEW f \in LoginRecord, LoginBecomes(l, f), IsGranted(l, f),
         UNCHANGED <<records, calls, rotates, replaced>>, Fewer, CacheTells'
  PROVE  TokensInv'
<1>1. /\ logins' \in [Logins -> LoginRecord] /\ logins'[l] = f
      /\ \A m \in Logins \ {l} : logins'[m] = logins[m]
      /\ \A m \in Logins : logins'[m].at # "idle" => logins'[m].actor \in Developers
  <2>1. f.actor \in Developers
    BY DEF TokensInv, TokenTypes, IsGranted
  <2> QED
    BY <2>1, LoginBecomesOne DEF TokensInv
<1>3. /\ Unsaved \cup {issued + 1} \subseteq Unsaved' /\ issued + 1 \notin Unsaved
      /\ issued' \in Nat /\ 1 .. issued' = 1 .. issued \cup {issued + 1} /\ 0 .. issued \subseteq 0 .. issued'
      /\ RecordsApart'
  BY OneMore DEF IsGranted
<1>5. TokenTypes'
  BY <1>1, <1>3 DEF TokensInv, TokenTypes, Fewer, IsGranted
<1>9. Carriers' = Carriers /\ Bringers' = Bringers \cup {l} /\ l \notin Bringers
  BY <1>1 DEF Carriers, Bringers, IsGranted
<1>10. OnTheWay'
  <2> PICK n \in Nat : n = issued + 1
    BY DEF TokensInv, TokenTypes
  <2>6. Unsaved \subseteq Unsaved' /\ n \in Unsaved' /\ n \notin Unsaved
    BY <1>3
  <2>0. /\ \A m \in Bringers' : /\ m = l => logins'[m].grant = n
                                /\ m # l => m \in Bringers /\ logins'[m].grant = logins[m].grant
        /\ live \subseteq live' /\ n \in live'
    <3>1. Bringers \subseteq Logins /\ f.grant = n /\ live' = live \cup {n}
      BY DEF Bringers, IsGranted
    <3> QED
      BY <1>1, <1>9, <3>1
  <2>5. /\ \A d \in Carriers : calls[d].token \in Unsaved /\ (rotates => calls[d].token \in live)
        /\ \A d, h \in Carriers : calls[d].token = calls[h].token => d = h
        /\ \A m \in Bringers : logins[m].grant \in Unsaved \cap live
        /\ \A d \in Carriers, m \in Bringers : calls[d].token # logins[m].grant
        /\ \A h, m \in Bringers : logins[h].grant = logins[m].grant => h = m
    BY DEF TokensInv, OnTheWay
  <2>1. \A d \in Carriers : calls[d].token \in Unsaved' /\ (rotates => calls[d].token \in live') /\ calls[d].token # n
    BY <2>6, <2>0, <2>5
  <2>2. \A m \in Bringers' : logins'[m].grant \in Unsaved' \cap live'
    BY <2>6, <2>0, <2>5
  <2>3. \A m, h \in Bringers' : logins'[m].grant = logins'[h].grant => m = h
    BY <2>6, <2>0, <2>5
  <2>4. \A d \in Carriers, m \in Bringers' : calls[d].token # logins'[m].grant
    BY <2>0, <2>1, <2>5
  <2> QED
    BY <1>9, <2>1, <2>2, <2>3, <2>4, <2>5 DEF OnTheWay
<1>11. CallsHold'
  BY <1>3 DEF TokensInv, CallsHold
<1>12. Working \subseteq Working'
  BY DEF Working, IsGranted
<1>13. Refreshes'
  BY <1>12 DEF TokensInv, Refreshes
<1>14. RefreshUsable'
  BY DEF TokensInv, RefreshUsable, Fewer, TokenTypes, IsGranted
<1> QED
  BY <1>5, <1>3, <1>10, <1>11, <1>13, <1>14 DEF TokensInv

-----------------------------------------------------------------------------
(* The other steps that change something.                                    *)

\* A removed record is replaced, and its actor holds nothing.
LEMMA LogoutClears ==
  ASSUME TokensInv, NEW a \in Developers, records' = [records EXCEPT ![a] = NoRow],
         replaced' = replaced \cup Held(a), GrantsRest, UNCHANGED <<calls, logins>>, Fewer, CacheTells'
  PROVE  TokensInv'
<1>0. issued' = issued /\ live' = live /\ rotates' = rotates
  BY GrantsRestOne
<1>1. /\ records' \in [Developers -> Row] /\ records'[a] = NoRow /\ NoRow \in Row /\ NoRow.access = NoGrant
      /\ \A b \in Developers \ {a} : records'[b] = records[b]
  BY DEF TokensInv, TokenTypes, Row, NoRow, NoGrant
<1>2. Held(a) = IF records[a] = NoRow THEN {} ELSE {records[a].access}
  BY DEF Held
<1>3. \A b \in Developers : records[b] # NoRow => records[b].access # NoGrant
  BY DEF TokensInv, Refreshes, Working
<1>4. /\ \A b \in Developers : records[b].access \in 0 .. issued \ replaced
      /\ \A b, d \in Developers : records[b].access = records[d].access /\ b # d => records[b].access = NoGrant
  BY DEF TokensInv, RecordsApart
<1>5. issued \in Nat /\ replaced \subseteq 1 .. issued
  BY DEF TokensInv, TokenTypes
<1>15. Held(a) \subseteq 1 .. issued
  BY <1>2, <1>3, <1>4, <1>5 DEF NoGrant
<1>6. replaced \subseteq replaced' /\ replaced' \subseteq 1 .. issued
  BY <1>5, <1>15
<1>7. TokenTypes'
  BY <1>0, <1>1, <1>6 DEF TokensInv, TokenTypes, Fewer
<1>8. Unsaved \subseteq Unsaved'
  <2>1. \A g \in Unsaved : g \in 1 .. issued' \ replaced' /\ \A b \in Developers : records'[b].access # g
    BY <1>0, <1>1, <1>2 DEF Unsaved, NoGrant
  <2>2. \A g \in Unsaved : \A d \in ModelCalls : calls'[d].rec.access # g
    BY DEF Unsaved
  <2> QED
    BY <2>1, <2>2 DEF Unsaved
<1>9. Carriers' = Carriers /\ Bringers' = Bringers /\ Working' = Working
  BY <1>0 DEF Carriers, Bringers, Working
<1>10. OnTheWay'
  BY <1>0, <1>8, <1>9 DEF TokensInv, OnTheWay
<1>11. RecordsApart'
  <2>1. \A b \in Developers : records'[b].access \in 0 .. issued' \ replaced'
    BY <1>0, <1>1, <1>2, <1>3, <1>4, <1>5, <1>6 DEF NoGrant
  <2> QED
    BY <1>1, <1>4, <2>1 DEF RecordsApart
<1>12. CallsHold'
  BY <1>0, <1>1, <1>6 DEF TokensInv, CallsHold
<1>13. Refreshes'
  <2>1. NoRow \in Working
    BY <1>1 DEF Working
  <2> QED
    BY <1>1, <1>9, <2>1 DEF TokensInv, Refreshes
<1>14. RefreshUsable'
  BY <1>0, <1>1 DEF TokensInv, RefreshUsable, Fewer, TokenTypes
<1> QED
  BY <1>7, <1>10, <1>11, <1>12, <1>13, <1>14 DEF TokensInv

\* A login starts or fails: it brings nothing.
LEMMA LoginIdles ==
  ASSUME TokensInv, NEW l \in Logins, NEW f \in LoginRecord, LoginBecomes(l, f),
         f.at # "granted", f.actor \in Developers,
         UNCHANGED <<records, calls, issued, live, rotates, replaced>>, Fewer, CacheTells'
  PROVE  TokensInv'
<1>1. /\ logins' \in [Logins -> LoginRecord] /\ logins'[l] = f
      /\ \A m \in Logins \ {l} : logins'[m] = logins[m]
      /\ \A m \in Logins : logins'[m].at # "idle" => logins'[m].actor \in Developers
  BY LoginBecomesOne DEF TokensInv
<1>2. TokenTypes'
  BY <1>1 DEF TokensInv, TokenTypes, Fewer
<1>3. Bringers' = Bringers \ {l} /\ \A m \in Bringers' : logins'[m] = logins[m]
  BY <1>1 DEF Bringers
<1>4. Carriers' = Carriers /\ Working' = Working /\ Unsaved' = Unsaved
  BY DEF Carriers, Working, Unsaved
<1>5. OnTheWay'
  BY <1>3, <1>4 DEF TokensInv, OnTheWay
<1>6. RecordsApart' /\ CallsHold'
  BY DEF TokensInv, RecordsApart, CallsHold
<1>7. Refreshes'
  BY <1>4 DEF TokensInv, Refreshes
<1>8. RefreshUsable'
  BY DEF TokensInv, RefreshUsable, Fewer, TokenTypes
<1> QED
  BY <1>2, <1>5, <1>6, <1>7, <1>8 DEF TokensInv

\* Steps outside the store and the calls.
LEMMA NothingHeld ==
  ASSUME TokensInv, UNCHANGED <<records, calls, logins, issued, live, rotates, replaced>>, Fewer, CacheTells'
  PROVE  TokensInv'
<1>1. TokenTypes'
  BY DEF TokensInv, TokenTypes, Fewer
<1>2. Carriers' = Carriers /\ Working' = Working /\ Unsaved' = Unsaved /\ Bringers' = Bringers
  BY DEF Carriers, Working, Unsaved, Bringers
<1>3. OnTheWay' /\ RecordsApart' /\ CallsHold' /\ Refreshes'
  BY <1>2 DEF TokensInv, OnTheWay, RecordsApart, CallsHold, Refreshes
<1>4. RefreshUsable'
  BY DEF TokensInv, RefreshUsable, Fewer, TokenTypes
<1> QED
  BY <1>1, <1>3, <1>4 DEF TokensInv

-----------------------------------------------------------------------------
(* What a call holds after a step.                                           *)

LEMMA SameHeld ==
  ASSUME TokensInv, NEW c \in ModelCalls, NEW e, e.rec = calls[c].rec, e.old = calls[c].old, e.actor = calls[c].actor,
         e.at = "sent" => e.bearer = e.rec.access
  PROVE  HoldsWell(e)
<1>1. calls[c].rec.access \notin Unsaved
  BY DEF Unsaved
<1> QED
  BY <1>1 DEF TokensInv, CallsHold, Refreshes, HoldsWell

LEMMA RecordHeld ==
  ASSUME TokensInv, NEW a \in Developers, NEW e, e.rec = records[a], e.old \subseteq replaced, e.actor = a, e.at # "sent"
  PROVE  HoldsWell(e)
<1>1. records[a].access \notin Unsaved
  BY DEF Unsaved
<1>2. records[a].access \in 0 .. issued \ e.old
  BY DEF TokensInv, RecordsApart
<1>3. \A b \in Developers : records[b].access = records[a].access => records[b].access = NoGrant \/ b = a
  BY DEF TokensInv, RecordsApart
<1> QED
  BY <1>1, <1>2, <1>3 DEF TokensInv, Refreshes, HoldsWell

LEMMA NothingOfNote ==
  ASSUME TokensInv
  PROVE  /\ IdleCall \in CallRecord /\ HoldsWell(IdleCall) /\ IdleCall.at = "idle"
         /\ \A l \in Logins, a \in Developers : [IdleLogin EXCEPT !.at = "polling", !.actor = a] \in LoginRecord
<1>1. NoRow \in Row /\ NoRow.access = NoGrant /\ NoGrant \in Nat /\ NoGrant = 0
  BY DEF NoRow, Row, NoGrant
<1>2. PICK actor \in Actor : actor = (CHOOSE a \in Developers : TRUE)
  BY DEF Actor
<1>3. IdleCall = [at |-> "idle", actor |-> actor, rec |-> NoRow, token |-> NoGrant, next |-> NoRow,
                  bearer |-> NoGrant, old |-> {}, afterLogout |-> FALSE]
  BY <1>2 DEF IdleCall
<1>4. IdleLogin = [at |-> "idle", actor |-> actor, grant |-> NoGrant]
  BY <1>2 DEF IdleLogin
<1>5. IdleCall \in CallRecord
  BY <1>1, <1>3 DEF CallRecord, CallSteps
<1>6. HoldsWell(IdleCall) /\ IdleCall.at = "idle"
  <2>1. issued \in Nat
    BY DEF TokensInv, TokenTypes
  <2>2. NoRow.access \notin Unsaved /\ NoRow.access \in 0 .. issued
    BY <1>1, <2>1 DEF Unsaved
  <2>3. IdleCall.rec = NoRow /\ IdleCall.old = {} /\ IdleCall.at = "idle"
    BY <1>3
  <2>4. NoRow \in Working
    BY <1>1 DEF Working
  <2> QED
    BY <1>1, <2>2, <2>3, <2>4 DEF HoldsWell
<1>7. \A l \in Logins, a \in Developers : [IdleLogin EXCEPT !.at = "polling", !.actor = a] \in LoginRecord
  BY <1>1, <1>4 DEF LoginRecord, Actor
<1> QED
  BY <1>5, <1>6, <1>7

LEMMA CacheRests ==
  ASSUME TokensInv, bearers' = bearers
  PROVE  CacheTells'
  BY DEF TokensInv, CacheTells

LEMMA SameFailures ==
  ASSUME TokensInv, tokenFailures' = tokenFailures \/ Fails
  PROVE  Fewer /\ (Fails => tokenFailures' > 0)
  BY DEF TokensInv, TokenTypes, Fewer, Fails

-----------------------------------------------------------------------------
(* Each step of a call.                                                      *)

\* A step that only moves a call on.
LEMMA GoesOn ==
  ASSUME TokensInv, NEW c \in ModelCalls, NEW step \in {"resolved", "exchanged"}, CallGoes(c, step),
         calls[c].at # "idle", c \in Carriers => records[calls[c].actor] = NoRow \/ tokenFailures' > 0,
         StoreRests, Fewer, bearers' = bearers
  PROVE  TokensInv'
<1>1. calls[c] \in CallRecord /\ calls[c].actor \in Developers
  BY DEF TokensInv, TokenTypes
<1>2. PICK e \in CallRecord : e = [calls[c] EXCEPT !.at = step]
  <2>1. step \in CallSteps /\ NoGrant \in Nat /\ NoRow \in Row
    BY DEF CallSteps, NoGrant, NoRow, Row
  <2> QED
    BY <1>1, <2>1, CallUpdated
<1>3. e.at = step /\ e.rec = calls[c].rec /\ e.old = calls[c].old /\ e.actor = calls[c].actor
  BY <1>1, <1>2, CallFields
<1>4. Becomes(c, e)
  BY <1>2 DEF CallGoes, Becomes
<1>5. TurnsInto(c, e)
  BY <1>1, <1>3 DEF TurnsInto
<1>6. HoldsWell(e)
  BY <1>3, SameHeld
<1> QED
  BY <1>4, <1>5, <1>6, CallTurns, CacheRests

LEMMA SendsOwn ==
  ASSUME TokensInv, NEW c \in ModelCalls, NEW grant, grant = calls[c].rec.access, Sends(c, grant),
         calls[c].at \in {"resolved", "exchanged"}, StoreRests, Fewer, CacheTells'
  PROVE  TokensInv'
<1>1. calls[c] \in CallRecord /\ calls[c].actor \in Developers /\ grant \in Nat
  BY DEF TokensInv, TokenTypes, CallRecord, Row
<1>2. PICK e \in CallRecord : e = [calls[c] EXCEPT !.at = "sent", !.bearer = grant]
  <2>1. "sent" \in CallSteps /\ NoRow \in Row
    BY DEF CallSteps, NoGrant, NoRow, Row
  <2> QED
    BY <1>1, <2>1, CallUpdated
<1>3. /\ e.at = "sent" /\ e.rec = calls[c].rec /\ e.old = calls[c].old /\ e.actor = calls[c].actor
      /\ e.bearer = grant
  BY <1>1, <1>2, CallFields
<1>4. Becomes(c, e)
  BY <1>2 DEF Sends, Becomes
<1>5. TurnsInto(c, e)
  BY <1>1, <1>3 DEF TurnsInto, Carriers
<1>6. HoldsWell(e)
  BY <1>3, SameHeld
<1> QED
  BY <1>4, <1>5, <1>6, CallTurns

LEMMA LoadSteps ==
  ASSUME TokensInv, NEW c \in ModelCalls, NEW a \in Developers, LoadRecord(c, a)
  PROVE  TokensInv'
<1>1. IdleCall \in CallRecord /\ records[a] \in Row /\ replaced \in SUBSET Nat /\ NoGrant \in Nat
  <2>1. IdleCall \in CallRecord
    BY NothingOfNote
  <2>2. records[a] \in Row /\ issued \in Nat /\ replaced \subseteq 1 .. issued /\ NoGrant \in Nat
    BY DEF TokensInv, TokenTypes, NoGrant
  <2> QED
    BY <2>1, <2>2
<1>2. PICK b \in BOOLEAN : b = (a \in loggedOut)
  <2>1. CASE a \in loggedOut
    BY <2>1, Zenon
  <2>2. CASE a \notin loggedOut
    <3>1. FALSE = (a \in loggedOut) /\ FALSE \in BOOLEAN
      BY <2>2
    <3> QED
      BY <3>1, Zenon
  <2> QED
    BY <2>1, <2>2
<1>3. PICK step \in {"refused", "loaded"} : step = IF records[a] = NoRow THEN "refused" ELSE "loaded"
  OBVIOUS
<1>4. PICK e \in CallRecord :
         e = [IdleCall EXCEPT !.actor = a, !.rec = records[a], !.old = replaced, !.afterLogout = b, !.at = step]
  <2>1. step \in CallSteps
    BY DEF CallSteps
  <2> QED
    BY <1>1, <2>1, CallUpdated
<1>5. e.at = step /\ e.rec = records[a] /\ e.old = replaced /\ e.actor = a
  BY <1>1, <1>4, CallFields
<1>6. Becomes(c, e) /\ StoreRests /\ tokenFailures' = tokenFailures /\ bearers' = bearers /\ c \notin Carriers
  BY <1>2, <1>3, <1>4 DEF LoadRecord, Becomes, StoreRests, githubVars, Carriers
<1>7. HoldsWell(e)
  BY <1>5, RecordHeld
<1>8. TurnsInto(c, e)
  BY <1>5, <1>6 DEF TurnsInto
<1> QED
  BY <1>6, <1>7, <1>8, CallTurns, CacheRests, SameFailures

LEMMA RefreshSteps ==
  ASSUME TokensInv, NEW c \in ModelCalls, Refresh(c)
  PROVE  TokensInv'
<1>1. calls[c] \in CallRecord /\ NoRow \in Row /\ issued + 1 \in Nat
  BY DEF TokensInv, TokenTypes, NoRow, NoGrant, Row
<1>2. calls[c].at = "loaded" /\ NeedsRefresh(calls[c].rec) /\ c \notin Carriers /\ bearers' = bearers
  BY DEF Refresh, Carriers
<1>3. CASE IssuedFor(c) /\ UNCHANGED tokenFailures
           /\ calls' = [calls EXCEPT ![c].token = issued + 1, ![c].at = "refreshed"]
  <2>1. PICK e \in CallRecord : e = [calls[c] EXCEPT !.token = issued + 1, !.at = "refreshed"]
    <3>1. "refreshed" \in CallSteps
      BY DEF CallSteps
    <3> QED
      BY <1>1, <3>1, CallUpdated
  <2>2. e.at = "refreshed" /\ e.rec = calls[c].rec /\ e.old = calls[c].old /\ e.actor = calls[c].actor /\ e.token = issued + 1
    BY <1>1, <2>1, CallFields
  <2>3. Becomes(c, e) /\ AllElseRests
    BY <1>3, <2>1 DEF Becomes, AllElseRests, Refresh
  <2>4. Asks(c, e)
    BY <1>2, <2>2 DEF Asks, NeedsRefresh
  <2> QED
    BY <1>2, <1>3, <2>3, <2>4, RefreshIssues, CacheRests, SameFailures
<1>4. CASE IssuedFor(c) /\ Fails /\ CallGoes(c, "resolved")
  <2>1. PICK e \in CallRecord : e = [calls[c] EXCEPT !.at = "resolved"]
    <3>1. "resolved" \in CallSteps
      BY DEF CallSteps
    <3> QED
      BY <1>1, <3>1, CallUpdated
  <2>2. e.at = "resolved" /\ e.rec = calls[c].rec /\ e.old = calls[c].old /\ e.actor = calls[c].actor
    BY <1>1, <2>1, CallFields
  <2>3. Becomes(c, e) /\ AllElseRests
    BY <1>4, <2>1 DEF Becomes, AllElseRests, Refresh, CallGoes
  <2>4. Asks(c, e)
    BY <1>2, <1>4, <2>2, SameFailures DEF Asks, NeedsRefresh
  <2> QED
    BY <1>2, <1>4, <2>3, <2>4, RefreshIssues, CacheRests, SameFailures
<1>5. CASE CallGoes(c, "resolved") /\ UNCHANGED <<issued, live, tokenFailures>>
  <2>1. StoreRests
    BY <1>5 DEF StoreRests, Refresh
  <2> QED
    BY <1>2, <1>5, <2>1, GoesOn, SameFailures
<1> QED
  BY <1>3, <1>4, <1>5 DEF Refresh, Issue, IssuedFor

LEMMA ResolveSteps ==
  ASSUME TokensInv, NEW c \in ModelCalls, Resolve(c)
  PROVE  TokensInv'
<1>1. StoreRests /\ c \notin Carriers
  BY DEF Resolve, StoreRests, Carriers, githubVars
<1> QED
  BY <1>1, GoesOn, SameFailures DEF Resolve

LEMMA ReloadSteps ==
  ASSUME TokensInv, NEW c \in ModelCalls, Reload(c)
  PROVE  TokensInv'
<1>1. /\ calls[c] \in CallRecord /\ calls[c].at = "refreshed" /\ StoreRests /\ bearers' = bearers /\ calls[c].actor \in Developers
  BY DEF TokensInv, TokenTypes, Reload, StoreRests, githubVars
<1>2. CASE /\ records[calls[c].actor] # NoRow /\ UNCHANGED tokenFailures
           /\ calls' = [calls EXCEPT ![c].at = "saving", ![c].next = Updated(records[calls[c].actor], calls[c].token)]
  <2>1. records[calls[c].actor] \in Row /\ records[calls[c].actor] \in Working /\ rotates \in BOOLEAN
    BY <1>1 DEF TokensInv, TokenTypes, Refreshes
  <2>2. calls[c].token \in 1 .. issued /\ calls[c].token \in Nat
    BY <1>1 DEF TokensInv, TokenTypes, OnTheWay, Unsaved, Carriers
  <2>3. PICK row \in Row : row = Updated(records[calls[c].actor], calls[c].token)
    BY <2>1, <2>2, RowUpdated
  <2>4. row.access = calls[c].token /\ row.refresh = IF rotates THEN calls[c].token ELSE records[calls[c].actor].refresh
    BY <2>1, <2>2, <2>3, RowUpdated
  <2>5. row \in Working
    BY <1>2, <2>1, <2>2, <2>4 DEF Working, NoGrant
  <2>6. PICK e \in CallRecord : e = [calls[c] EXCEPT !.at = "saving", !.next = row]
    <3>1. "saving" \in CallSteps
      BY DEF CallSteps
    <3> QED
      BY <1>1, <2>2, <3>1, CallUpdated
  <2>7. /\ e.at = "saving" /\ e.rec = calls[c].rec /\ e.old = calls[c].old /\ e.actor = calls[c].actor
        /\ e.token = calls[c].token /\ e.next = row
    BY <1>1, <2>6, CallFields
  <2>8. Becomes(c, e)
    BY <1>2, <2>3, <2>6 DEF Becomes
  <2>9. TakesOver(c, e)
    BY <1>1, <2>4, <2>5, <2>7 DEF TakesOver
  <2> QED
    BY <1>1, <1>2, <2>8, <2>9, CallSaves, CacheRests, SameFailures
<1>3. CASE records[calls[c].actor] = NoRow /\ CallGoes(c, "resolved") /\ UNCHANGED tokenFailures
  BY <1>1, <1>3, GoesOn, SameFailures
<1>4. CASE Fails /\ CallGoes(c, "resolved")
  BY <1>1, <1>4, GoesOn, SameFailures
<1> QED
  BY <1>2, <1>3, <1>4 DEF Reload

LEMMA SaveUpdatedSteps ==
  ASSUME TokensInv, NEW c \in ModelCalls, SaveUpdated(c)
  PROVE  TokensInv'
<1>1. calls[c] \in CallRecord /\ calls[c].at = "saving" /\ bearers' = bearers /\ logins' = logins /\ GrantsRest
  BY DEF TokensInv, TokenTypes, SaveUpdated, GrantsRest, githubVars
<1>2. CASE Save(calls[c].actor, calls[c].next) /\ CallGoes(c, "saved") /\ UNCHANGED tokenFailures
  <2>1. PICK e \in CallRecord : e = [calls[c] EXCEPT !.at = "saved"]
    <3>1. "saved" \in CallSteps /\ NoRow \in Row /\ NoGrant \in Nat
      BY DEF CallSteps, NoRow, NoGrant, Row
    <3> QED
      BY <1>1, <3>1, CallUpdated
  <2>2. e.at = "saved" /\ e.rec = calls[c].rec /\ e.old = calls[c].old /\ e.actor = calls[c].actor
    BY <1>1, <2>1, CallFields
  <2>3. Becomes(c, e) /\ Hands(c, e)
    BY <1>1, <1>2, <2>1, <2>2 DEF Becomes, CallGoes, Hands
  <2> QED
    BY <1>1, <1>2, <2>3, UpdateSaves, CacheRests, SameFailures
<1>3. CASE Fails /\ CallGoes(c, "resolved") /\ UNCHANGED <<records, replaced>>
  <2>1. StoreRests
    BY <1>1, <1>3 DEF StoreRests, GrantsRest
  <2> QED
    BY <1>1, <1>3, <2>1, GoesOn, SameFailures
<1> QED
  BY <1>2, <1>3 DEF SaveUpdated

LEMMA LoadUpdatedSteps ==
  ASSUME TokensInv, NEW c \in ModelCalls, LoadUpdated(c)
  PROVE  TokensInv'
<1>1. /\ calls[c] \in CallRecord /\ calls[c].at = "saved" /\ bearers' = bearers /\ StoreRests
      /\ calls[c].actor \in Developers /\ calls[c].rec \in Row /\ records[calls[c].actor] \in Row
  BY DEF TokensInv, TokenTypes, LoadUpdated, StoreRests, githubVars, CallRecord
<1>2. PICK row \in Row : row = IF records[calls[c].actor] = NoRow THEN calls[c].rec ELSE records[calls[c].actor]
  BY <1>1
<1>3. PICK e \in CallRecord : e = [calls[c] EXCEPT !.at = "resolved", !.rec = row]
  <2>1. "resolved" \in CallSteps /\ NoGrant \in Nat
    BY DEF CallSteps, NoGrant
  <2> QED
    BY <1>1, <2>1, CallUpdated
<1>4. e.at = "resolved" /\ e.rec = row /\ e.old = calls[c].old /\ e.actor = calls[c].actor
  BY <1>1, <1>3, CallFields
<1>5. Becomes(c, e)
  BY <1>2, <1>3 DEF LoadUpdated, Becomes
<1>6. TurnsInto(c, e)
  BY <1>1, <1>4 DEF TurnsInto, Carriers
<1>7. calls[c].old \subseteq replaced
  BY DEF TokensInv, CallsHold
<1>8. HoldsWell(e)
  <2>1. CASE row = calls[c].rec
    BY <1>4, <2>1, SameHeld
  <2>2. CASE row = records[calls[c].actor]
    BY <1>1, <1>4, <1>7, <2>2, RecordHeld
  <2> QED
    BY <1>2, <2>1, <2>2
<1> QED
  BY <1>1, <1>5, <1>6, <1>8, CallTurns, CacheRests, SameFailures DEF LoadUpdated

LEMMA UseCachedSteps ==
  ASSUME TokensInv, NEW c \in ModelCalls, UseCached(c)
  PROVE  TokensInv'
<1>1. /\ calls[c] \in CallRecord /\ calls[c].at = "resolved" /\ bearers' = bearers /\ StoreRests
      /\ calls[c].actor \in Actor /\ calls[c].rec.access \in Nat
  BY DEF TokensInv, TokenTypes, UseCached, StoreRests, githubVars, CallRecord, Row
<1>2. <<calls[c].actor, calls[c].rec.access>> \in DOMAIN bearers
      /\ Sends(c, bearers[<<calls[c].actor, calls[c].rec.access>>])
  BY DEF UseCached, CacheKey
<1>3. bearers[<<calls[c].actor, calls[c].rec.access>>] = calls[c].rec.access
  BY <1>1, <1>2 DEF TokensInv, CacheTells
<1> QED
  BY <1>1, <1>2, <1>3, SendsOwn, CacheRests, SameFailures DEF UseCached

LEMMA ExchangeSteps ==
  ASSUME TokensInv, NEW c \in ModelCalls, Exchange(c)
  PROVE  TokensInv'
<1>1. calls[c].at = "resolved" /\ bearers' = bearers /\ StoreRests /\ c \notin Carriers /\ tokenFailures' = tokenFailures
  BY DEF Exchange, StoreRests, githubVars, Carriers
<1>2. CASE Sends(c, calls[c].rec.access)
  BY <1>1, <1>2, SendsOwn, CacheRests, SameFailures
<1>3. CASE CallGoes(c, "exchanged")
  BY <1>1, <1>3, GoesOn, SameFailures
<1> QED
  BY <1>2, <1>3 DEF Exchange

LEMMA StoreBearerSteps ==
  ASSUME TokensInv, NEW c \in ModelCalls, StoreBearer(c)
  PROVE  TokensInv'
<1>1. calls[c].at = "exchanged" /\ StoreRests /\ tokenFailures' = tokenFailures /\ Sends(c, calls[c].rec.access)
  BY DEF StoreBearer, StoreRests, githubVars
<1>2. calls[c].rec.access \in Nat
  BY DEF TokensInv, TokenTypes, CallRecord, Row
<1>3. PICK key : key = <<calls[c].actor, calls[c].rec.access>>
  OBVIOUS
<1>4. bearers' = [k \in DOMAIN bearers \cup {key} |-> IF k = key THEN calls[c].rec.access ELSE bearers[k]]
  BY <1>3 DEF StoreBearer, CacheKey
<1>5. bearers \in [DOMAIN bearers -> Nat]
      /\ \A a \in Actor, g \in Nat : <<a, g>> \in DOMAIN bearers => bearers[<<a, g>>] = g
  BY DEF TokensInv, CacheTells
<1>6. bearers' \in [DOMAIN bearers' -> Nat]
  BY <1>2, <1>4, <1>5
<1>7. \A a \in Actor, g \in Nat : <<a, g>> \in DOMAIN bearers' => bearers'[<<a, g>>] = g
  BY <1>3, <1>4, <1>5
<1>8. CacheTells'
  BY <1>6, <1>7 DEF CacheTells
<1> QED
  BY <1>1, <1>8, SendsOwn, SameFailures

LEMMA DoneSteps ==
  ASSUME TokensInv, NEW c \in ModelCalls, Done(c)
  PROVE  TokensInv'
<1>1. IdleCall \in CallRecord /\ HoldsWell(IdleCall) /\ IdleCall.at = "idle"
  BY NothingOfNote
<1>2. Becomes(c, IdleCall) /\ StoreRests /\ bearers' = bearers /\ tokenFailures' = tokenFailures /\ c \notin Carriers
  BY DEF Done, Becomes, StoreRests, githubVars, Carriers
<1>3. TurnsInto(c, IdleCall)
  BY <1>1, <1>2 DEF TurnsInto
<1> QED
  BY <1>1, <1>2, <1>3, CallTurns, CacheRests, SameFailures

-----------------------------------------------------------------------------
(* Each step of a login, and the others.                                     *)

LEMMA LoginUpdated ==
  ASSUME NEW f \in LoginRecord, NEW step \in {"idle", "polling", "granted", "failed", "done"}, NEW n \in Nat
  PROVE  [f EXCEPT !.at = step] \in LoginRecord /\ [f EXCEPT !.at = step, !.grant = n] \in LoginRecord
  BY DEF LoginRecord

LEMMA LoginStartSteps ==
  ASSUME TokensInv, NEW l \in Logins, NEW a \in Developers, LoginStart(l, a)
  PROVE  TokensInv'
<1>1. PICK f \in LoginRecord : f = [IdleLogin EXCEPT !.at = "polling", !.actor = a]
  BY NothingOfNote
<1>2. f.at = "polling" /\ f.actor = a
  BY <1>1 DEF IdleLogin
<1>3. LoginBecomes(l, f) /\ bearers' = bearers /\ tokenFailures' = tokenFailures
      /\ UNCHANGED <<records, calls, issued, live, rotates, replaced>>
  BY <1>1 DEF LoginStart, LoginBecomes, githubVars
<1> QED
  BY <1>2, <1>3, LoginIdles, CacheRests, SameFailures

LEMMA PollSteps ==
  ASSUME TokensInv, NEW l \in Logins, Poll(l)
  PROVE  TokensInv'
<1>1. /\ logins[l] \in LoginRecord /\ logins[l].at = "polling" /\ logins[l].actor \in Developers
      /\ issued + 1 \in Nat /\ bearers' = bearers /\ tokenFailures' = tokenFailures
      /\ UNCHANGED <<records, calls, rotates, replaced>>
  BY DEF TokensInv, TokenTypes, Poll
<1>2. CASE /\ issued' = issued + 1 /\ live' = live \cup {issued + 1}
           /\ logins' = [logins EXCEPT ![l].at = "granted", ![l].grant = issued + 1]
  <2>4. PICK n \in Nat : n = issued + 1
    BY <1>1
  <2>5. PICK step \in {"idle", "polling", "granted", "failed", "done"} : step = "granted"
    OBVIOUS
  <2>1. PICK f \in LoginRecord : f = [logins[l] EXCEPT !.at = step, !.grant = n]
    BY <1>1, LoginUpdated
  <2>6. f.at = step /\ f.actor = logins[l].actor /\ f.grant = n
    BY <1>1, <2>1 DEF LoginRecord
  <2>2. f.at = "granted" /\ f.actor = logins[l].actor /\ f.grant = issued + 1
    BY <2>4, <2>5, <2>6
  <2>3. LoginBecomes(l, f) /\ IsGranted(l, f)
    BY <1>1, <1>2, <2>1, <2>2, <2>4, <2>5 DEF LoginBecomes, IsGranted
  <2> QED
    BY <1>1, <2>3, LoginIssues, CacheRests, SameFailures
<1>3. CASE logins' = [logins EXCEPT ![l].at = "failed"] /\ UNCHANGED <<issued, live>>
  <2>1. PICK f \in LoginRecord : f = [logins[l] EXCEPT !.at = "failed"]
    BY <1>1, LoginUpdated
  <2>2. f.at = "failed" /\ f.actor \in Developers
    BY <1>1, <2>1 DEF LoginRecord
  <2>3. LoginBecomes(l, f)
    BY <1>3, <2>1 DEF LoginBecomes
  <2> QED
    BY <1>1, <1>3, <2>2, <2>3, LoginIdles, CacheRests, SameFailures
<1> QED
  BY <1>2, <1>3 DEF Poll, Issue

LEMMA CompleteLoginSteps ==
  ASSUME TokensInv, NEW l \in Logins, CompleteLogin(l)
  PROVE  TokensInv'
<1>1. /\ logins[l] \in LoginRecord /\ logins[l].at = "granted" /\ logins[l].actor \in Developers
      /\ logins[l].grant \in Nat /\ bearers' = bearers /\ GrantsRest /\ calls' = calls
  BY DEF TokensInv, TokenTypes, CompleteLogin, LoginRecord, GrantsRest, githubVars
<1>2. CASE /\ Save(logins[l].actor, [access |-> logins[l].grant, refresh |-> logins[l].grant])
           /\ logins' = [logins EXCEPT ![l].at = "done"] /\ UNCHANGED tokenFailures
  <2>1. PICK f \in LoginRecord : f = [logins[l] EXCEPT !.at = "done"]
    BY <1>1, LoginUpdated
  <2>2. f.at = "done" /\ f.actor = logins[l].actor
    BY <1>1, <2>1 DEF LoginRecord
  <2>3. PICK row \in Row : row = [access |-> logins[l].grant, refresh |-> logins[l].grant]
    BY <1>1 DEF Row
  <2>4. row.access = logins[l].grant /\ row.refresh = logins[l].grant
    BY <2>3
  <2>5. LoginBecomes(l, f) /\ Save(logins[l].actor, row)
    BY <1>2, <2>1, <2>3 DEF LoginBecomes
  <2> QED
    BY <1>1, <1>2, <2>2, <2>4, <2>5, LoginSaves, CacheRests, SameFailures
<1>3. CASE Fails /\ logins' = [logins EXCEPT ![l].at = "failed"] /\ UNCHANGED <<records, replaced>>
  <2>1. PICK f \in LoginRecord : f = [logins[l] EXCEPT !.at = "failed"]
    BY <1>1, LoginUpdated
  <2>2. f.at = "failed" /\ f.actor \in Developers
    BY <1>1, <2>1 DEF LoginRecord
  <2>3. LoginBecomes(l, f) /\ UNCHANGED <<records, calls, issued, live, rotates, replaced>>
    BY <1>1, <1>3, <2>1 DEF LoginBecomes, GrantsRest
  <2> QED
    BY <1>1, <1>3, <2>2, <2>3, LoginIdles, CacheRests, SameFailures
<1> QED
  BY <1>2, <1>3 DEF CompleteLogin

LEMMA LogoutSteps ==
  ASSUME TokensInv, NEW a \in Developers, Logout(a)
  PROVE  TokensInv'
<1>1. bearers' = bearers /\ GrantsRest /\ UNCHANGED <<calls, logins>>
  BY DEF Logout, GrantsRest, githubVars
<1>2. CASE records' = [records EXCEPT ![a] = NoRow] /\ replaced' = replaced \cup Held(a) /\ UNCHANGED tokenFailures
  BY <1>1, <1>2, LogoutClears, CacheRests, SameFailures
<1>3. CASE Fails /\ UNCHANGED <<records, replaced>>
  <2>1. UNCHANGED <<records, calls, logins, issued, live, rotates, replaced>>
    BY <1>1, <1>3 DEF GrantsRest
  <2> QED
    BY <1>1, <1>3, <2>1, NothingHeld, CacheRests, SameFailures
<1> QED
  BY <1>2, <1>3 DEF Logout

LEMMA AgeSteps ==
  ASSUME TokensInv, NEW g \in Grants, Age(g)
  PROVE  TokensInv'
<1>1. bearers' = bearers /\ tokenFailures' = tokenFailures
      /\ UNCHANGED <<records, calls, logins, issued, live, rotates, replaced>>
  BY DEF Age
<1> QED
  BY <1>1, NothingHeld, CacheRests, SameFailures

LEMMA ExpireSteps ==
  ASSUME TokensInv, NEW k \in DOMAIN bearers, Expire(k)
  PROVE  TokensInv'
<1>1. tokenFailures' = tokenFailures /\ UNCHANGED <<records, calls, logins, issued, live, rotates, replaced>>
  BY DEF Expire, githubVars
<1>2. bearers' = [x \in DOMAIN bearers \ {k} |-> bearers[x]]
  BY DEF Expire, Restrict
<1>3. CacheTells'
  BY <1>2 DEF TokensInv, CacheTells
<1> QED
  BY <1>1, <1>3, NothingHeld, SameFailures

-----------------------------------------------------------------------------

LEMMA TokensInvInit ==
  ASSUME IsFiniteSet(Developers), TokensInit
  PROVE  TokensInv
<1>1. PICK known \in SUBSET Developers :
         /\ Cardinality(known) <= 1
         /\ records = [a \in Developers |-> IF a \in known THEN [access |-> 1, refresh |-> 1] ELSE NoRow]
         /\ issued = Cardinality(known) /\ live = 1..issued
  BY DEF TokensInit
<1>2. IsFiniteSet(known) /\ Cardinality(known) \in Nat
  BY FS_Subset, FS_CardinalityType
<1>3. /\ issued \in {0, 1} /\ (issued = 0 => known = {}) /\ \A a, b \in known : a = b
      /\ known # {} => issued = 1
  <2>1. CASE Cardinality(known) = 0
    BY <1>1, <1>2, <2>1, FS_EmptySet
  <2>2. CASE Cardinality(known) = 1
    BY <1>1, <1>2, <2>2, FS_Singleton
  <2> QED
    BY <1>1, <1>2, <2>1, <2>2
<1>4. /\ bearers = [k \in {} |-> NoGrant] /\ calls = [c \in ModelCalls |-> IdleCall] /\ logins = [l \in Logins |-> IdleLogin]
      /\ replaced = {} /\ tokenFailures = 0 /\ rotates \in BOOLEAN
  BY DEF TokensInit
<1>5. PICK actor \in Actor : actor = (CHOOSE a \in Developers : TRUE)
  BY DEF Actor
<1>6. NoRow \in Row /\ NoRow = [access |-> 0, refresh |-> 0] /\ NoGrant = 0
  BY DEF NoRow, Row, NoGrant
<1>7. /\ IdleCall \in CallRecord /\ IdleCall.at = "idle" /\ IdleCall.rec = NoRow /\ IdleCall.old = {}
      /\ IdleLogin \in LoginRecord /\ IdleLogin.at = "idle"
  BY <1>5, <1>6 DEF IdleCall, IdleLogin, CallRecord, CallSteps, LoginRecord
<1>8. /\ records \in [Developers -> Row]
      /\ \A a \in Developers : records[a] = IF a \in known THEN [access |-> 1, refresh |-> 1] ELSE NoRow
  BY <1>1, <1>6 DEF Row
<1>9. TokenTypes
  BY <1>1, <1>3, <1>4, <1>7, <1>8 DEF TokenTypes
<1>10. OnTheWay
  <2>1. Carriers = {} /\ Bringers = {}
    BY <1>4, <1>7 DEF Carriers, Bringers
  <2> QED
    BY <2>1 DEF OnTheWay
<1>11. \A a \in Developers : records[a].access = IF a \in known THEN 1 ELSE 0
  BY <1>6, <1>8
<1>12. RecordsApart
  BY <1>3, <1>4, <1>6, <1>11 DEF RecordsApart
<1>13. CallsHold
  BY <1>3, <1>4, <1>6, <1>7 DEF CallsHold
<1>14. CacheTells
  BY <1>4, <1>6 DEF CacheTells
<1>15. Refreshes
  <2>1. NoRow \in Working
    BY <1>6 DEF Working
  <2>2. \A a \in known : [access |-> 1, refresh |-> 1] \in Working
    BY <1>1, <1>3, <1>6 DEF Working, Row
  <2> QED
    BY <1>4, <1>7, <1>8, <2>1, <2>2 DEF Refreshes
<1>16. RefreshUsable
  BY <1>1, <1>3, <1>8 DEF RefreshUsable
<1> QED
  BY <1>9, <1>10, <1>12, <1>13, <1>14, <1>15, <1>16 DEF TokensInv

LEMMA TokensInvStep == TokensInv /\ [TokensNext]_tokenVars => TokensInv'
<1> SUFFICES ASSUME TokensInv, [TokensNext]_tokenVars PROVE TokensInv'
  OBVIOUS
<1>1. ASSUME NEW c \in ModelCalls, CallStep(c) PROVE TokensInv'
  BY <1>1, LoadSteps, RefreshSteps, ResolveSteps, ReloadSteps, SaveUpdatedSteps, LoadUpdatedSteps,
     UseCachedSteps, ExchangeSteps, StoreBearerSteps, DoneSteps DEF CallStep
<1>2. ASSUME NEW l \in Logins, LoginStep(l) PROVE TokensInv'
  BY <1>2, LoginStartSteps, PollSteps, CompleteLoginSteps DEF LoginStep
<1>3. CASE UNCHANGED tokenVars
  BY <1>3, NothingHeld, CacheRests, SameFailures DEF tokenVars, githubVars
<1> QED
  BY <1>1, <1>2, <1>3, LogoutSteps, AgeSteps, ExpireSteps DEF TokensNext

LEMMA TokensInvHolds == TokensInv => EnrollmentHolds
<1> SUFFICES ASSUME TokensInv PROVE EnrollmentHolds
  OBVIOUS
<1>1. NoStaleBearer
  BY DEF TokensInv, CallsHold, NoStaleBearer
<1> QED
  BY <1>1 DEF TokensInv, EnrollmentHolds

THEOREM EnrollmentAlwaysHolds ==
  ASSUME IsFiniteSet(Developers)
  PROVE  TokensSpec => []EnrollmentHolds
<1>1. TokensInit => TokensInv
  BY TokensInvInit
<1> QED
  BY <1>1, TokensInvStep, TokensInvHolds, PTL DEF TokensSpec
=============================================================================
