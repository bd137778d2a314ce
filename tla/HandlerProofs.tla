---------------------------- MODULE HandlerProofs ----------------------------
(* Four parts of the control plane that serve requests from a state of their *)
(* own: the compositions, the patches under review, the registry and the     *)
(* ledger of costs.                                                          *)
EXTENDS Compositions, PatchReview, Registry, Ledger, WellFoundedInduction,
        FiniteSetTheorems, TLAPS

-----------------------------------------------------------------------------
(* Compositions for any sessions, users, outputs and bodies.  The order of   *)
(* the stages is inductive by itself: each request touches one stage, the    *)
(* current one, and keeps the input that it was handed.                      *)

Kept == [stages : Seq(Stage), current : Nat]

StoreTypes ==
    /\ compositions \in [Sessions -> {None} \cup Kept]
    /\ posted \in [Sessions -> Seq(Stage)]

Ordered(c, stages) ==
    /\ Len(c.stages) \in 1 .. MaxDepth /\ Len(c.stages) = Len(stages)
    /\ c.current \in 1 .. MaxDepth /\ c.current <= Len(c.stages) + 1
    /\ InTurn(c, stages)
    /\ HandedOn(c)

StoreInv ==
    /\ StoreTypes
    /\ \A s \in Sessions : compositions[s] # None => Ordered(compositions[s], posted[s])

LEMMA InvInOrder == StoreInv => StagesInOrder
  BY DEF StoreInv, Ordered, StagesInOrder

LEMMA InitStoreInv == CompositionsInit => StoreInv
<1> SUFFICES ASSUME CompositionsInit PROVE StoreInv
  OBVIOUS
<1>1. <<>> \in Seq(Stage)
  OBVIOUS
<1> QED
  BY <1>1 DEF CompositionsInit, StoreInv, StoreTypes

(* One session's composition is replaced by one whose stages are in order.    *)
LEMMA Replaced ==
  ASSUME StoreInv, NEW s \in Sessions, NEW c \in Kept, NEW stages \in Seq(Stage),
         compositions' = [compositions EXCEPT ![s] = c],
         posted' = [posted EXCEPT ![s] = stages],
         Ordered(c, stages)
  PROVE  StoreInv'
  BY DEF StoreInv, StoreTypes

(* A stage that keeps its input may take the current one's place.             *)
LEMMA CurrentChanged ==
  ASSUME NEW c \in Kept, NEW stages \in Seq(Stage), Ordered(c, stages), ~ Over(c),
         NEW stage \in Stage, stage.input = c.stages[c.current].input,
         NEW d, d = [c EXCEPT !.stages = [c.stages EXCEPT ![c.current] = stage]]
  PROVE  d \in Kept /\ Ordered(d, stages)
<1>1. c.stages \in Seq(Stage) /\ c.current \in 1 .. Len(c.stages)
  BY DEF Kept, Over, Ordered, MaxDepth
<1>2. /\ d.current = c.current
      /\ d.stages = [c.stages EXCEPT ![c.current] = stage]
      /\ d.stages \in Seq(Stage) /\ Len(d.stages) = Len(c.stages)
  BY <1>1 DEF Kept
<1>3. d \in Kept
  BY <1>1, <1>2 DEF Kept
<1>4. /\ \A i \in 1 .. Len(c.stages) : i # c.current => d.stages[i] = c.stages[i]
      /\ d.stages[c.current].input = c.stages[c.current].input
  BY <1>1, <1>2
<1>5. InTurn(d, stages)
  BY <1>1, <1>2, <1>4 DEF Ordered, InTurn
<1>6. HandedOn(d)
  <2> SUFFICES ASSUME NEW i \in 1 .. c.current - 1, i + 1 \in DOMAIN d.stages
               PROVE  d.stages[i + 1].input = d.stages[i].output
    BY <1>2 DEF HandedOn
  <2>1. i \in 1 .. Len(c.stages) /\ i + 1 \in 1 .. Len(c.stages) /\ i # c.current
    BY <1>1
  <2>2. c.stages[i + 1].input = c.stages[i].output
    BY <1>1, <2>1 DEF Ordered, HandedOn
  <2>3. d.stages[i] = c.stages[i] /\ d.stages[i + 1].input = c.stages[i + 1].input
    BY <1>4, <2>1
  <2> QED
    BY <2>2, <2>3
<1> QED
  BY <1>2, <1>3, <1>5, <1>6 DEF Ordered

(* Composition.Advance leaves the order of the stages intact.                 *)
LEMMA AdvancedInOrder ==
  ASSUME NEW c \in Kept, NEW stages \in Seq(Stage), Ordered(c, stages),
         CanProceed(c) = "advanced"
  PROVE  Advanced(c) \in Kept /\ Ordered(Advanced(c), stages)
<1> DEFINE d == Advanced(c)
<1>1. /\ c.stages \in Seq(Stage) /\ c.current \in 1 .. Len(c.stages)
      /\ c.stages[c.current].completed /\ c.stages[c.current].approved
      /\ c.current + 1 <= MaxDepth
  BY DEF CanProceed, Over, Kept, Ordered, MaxDepth
<1>2. /\ d.current = c.current + 1
      /\ d.stages \in Seq(Stage) /\ Len(d.stages) = Len(c.stages)
      /\ \A i \in 1 .. Len(c.stages) : i # c.current + 1 => d.stages[i] = c.stages[i]
  <2>1. d.current = c.current + 1
    BY DEF Advanced
  <2>2. CASE c.current + 1 \in DOMAIN c.stages
    <3> DEFINE stage == [c.stages[c.current + 1] EXCEPT !.input = c.stages[c.current].output]
    <3>1. c.stages[c.current] \in Stage /\ c.stages[c.current + 1] \in Stage
      BY <1>1, <2>2
    <3>2. stage \in Stage
      BY <3>1 DEF Stage
    <3>3. d.stages = [c.stages EXCEPT ![c.current + 1] = stage]
      BY <2>2 DEF Advanced
    <3> HIDE DEF stage, d
    <3> QED
      BY <1>1, <2>1, <2>2, <3>2, <3>3
  <2>3. CASE c.current + 1 \notin DOMAIN c.stages
    BY <1>1, <2>1, <2>3 DEF Advanced
  <2> QED
    BY <2>2, <2>3
<1>3. c.current + 1 \in 1 .. Len(c.stages) =>
         d.stages[c.current + 1].input = c.stages[c.current].output
  <2> SUFFICES ASSUME c.current + 1 \in 1 .. Len(c.stages)
               PROVE  d.stages[c.current + 1].input = c.stages[c.current].output
    OBVIOUS
  <2>1. c.stages[c.current + 1] \in Stage
    BY <1>1
  <2>2. d.stages[c.current + 1]
          = [c.stages[c.current + 1] EXCEPT !.input = c.stages[c.current].output]
    BY <1>1 DEF Advanced
  <2> QED
    BY <2>1, <2>2 DEF Stage
<1>4. d \in Kept
  BY <1>1, <1>2 DEF Kept, Advanced
<1> HIDE DEF d
<1>5. InTurn(d, stages)
  <2>1. ASSUME NEW i \in 1 .. d.current - 1 PROVE d.stages[i].completed /\ d.stages[i].approved
    <3>1. i \in 1 .. Len(c.stages) /\ i # c.current + 1 /\ i <= c.current
      BY <1>1, <1>2
    <3>2. c.stages[i].completed /\ c.stages[i].approved
      BY <1>1, <3>1 DEF Ordered, InTurn
    <3> QED
      BY <1>2, <3>1, <3>2
  <2>2. ASSUME NEW i \in DOMAIN d.stages, i > d.current PROVE d.stages[i] = stages[i]
    <3>1. i \in 1 .. Len(c.stages) /\ i > c.current /\ i # c.current + 1
      BY <1>1, <1>2, <2>2
    <3> QED
      BY <1>1, <1>2, <3>1 DEF Ordered, InTurn
  <2> QED
    BY <2>1, <2>2 DEF InTurn
<1>6. HandedOn(d)
  <2> SUFFICES ASSUME NEW i \in 1 .. c.current, i + 1 \in 1 .. Len(c.stages)
               PROVE  d.stages[i + 1].input = d.stages[i].output
    BY <1>1, <1>2 DEF HandedOn
  <2>1. i \in 1 .. Len(c.stages) /\ d.stages[i] = c.stages[i]
    BY <1>1, <1>2
  <2>2. CASE i = c.current
    BY <1>3, <2>1, <2>2
  <2>3. CASE i # c.current
    <3>1. i \in 1 .. c.current - 1 /\ i + 1 # c.current + 1
      BY <1>1, <2>3
    <3>2. c.stages[i + 1].input = c.stages[i].output
      BY <1>1, <3>1 DEF Ordered, HandedOn
    <3> QED
      BY <1>2, <2>1, <3>1, <3>2
  <2> QED
    BY <2>2, <2>3
<1> QED
  <2>1. Ordered(d, stages)
    BY <1>1, <1>2, <1>5, <1>6 DEF Ordered, MaxDepth
  <2> QED
    BY <1>4, <2>1 DEF d

LEMMA NextStoreInv ==
  ASSUME Bodies \subseteq Seq(Stage), StoreInv, [CompositionsNext]_compositionVars
  PROVE  StoreInv'
<1>0. StoreInv /\ UNCHANGED <<compositions, posted>> => StoreInv'
  BY DEF StoreInv, StoreTypes
<1>1. ASSUME NEW u \in Users, NEW s \in Sessions, Found(u, s)
      PROVE  /\ compositions[s] \in Kept /\ posted[s] \in Seq(Stage)
             /\ Ordered(compositions[s], posted[s])
  BY <1>1 DEF Found, StoreInv, StoreTypes
<1>2. ASSUME NEW u \in Users, NEW s \in Sessions, NEW stage, NEW code,
             Found(u, s), Update(u, s, stage, code),
             ~ Over(compositions[s]) => stage \in Stage /\ stage.input = Current(s).input
      PROVE  StoreInv'
  <2>1. CASE Over(compositions[s])
    BY <1>0, <1>2, <2>1 DEF Update
  <2>2. CASE ~ Over(compositions[s])
    <3> DEFINE c == compositions[s]
               d == [c EXCEPT !.stages = [c.stages EXCEPT ![c.current] = stage]]
    <3>1. d \in Kept /\ Ordered(d, posted[s])
      BY <1>1, <1>2, <2>2, CurrentChanged DEF Current
    <3>2. compositions' = [compositions EXCEPT ![s] = d] /\ posted' = posted
      BY <1>1, <1>2, <2>2 DEF Update, StoreInv, StoreTypes, Kept
    <3>3. posted' = [posted EXCEPT ![s] = posted[s]]
      BY <3>2 DEF StoreInv, StoreTypes
    <3> HIDE DEF d
    <3> QED
      BY <1>1, <1>2, <3>1, <3>2, <3>3, Replaced
  <2> QED
    BY <2>1, <2>2
<1>3. ASSUME NEW u \in Users, NEW s \in Sessions, Refuse(u, s) PROVE StoreInv'
  BY <1>0, <1>3 DEF Refuse
<1>4. ASSUME NEW u \in Users, NEW s \in Sessions, NEW stages \in Bodies, Create(u, s, stages)
      PROVE  StoreInv'
  <2> DEFINE c == [stages |-> stages, current |-> 1]
  <2>1. c \in Kept /\ stages \in Seq(Stage) /\ Len(stages) \in 1 .. MaxDepth
    BY <1>4 DEF Create, Valid, Kept
  <2>2. Ordered(c, stages)
    BY <2>1 DEF Ordered, InTurn, HandedOn, MaxDepth
  <2> QED
    BY <1>4, <2>1, <2>2, Replaced DEF Create
<1>5. ASSUME NEW u \in Users, NEW stages \in Bodies, Reject(u, stages) PROVE StoreInv'
  BY <1>0, <1>5 DEF Reject
<1>6. ASSUME NEW u \in Users, NEW s \in Sessions, ~ Over(compositions[s]), Found(u, s)
      PROVE  Current(s) \in Stage
  BY <1>1, <1>6 DEF Current, Over, Kept, Ordered, MaxDepth
<1>7. ASSUME NEW u \in Users, NEW s \in Sessions, ApproveStage(u, s) PROVE StoreInv'
  <2> DEFINE stage == [Current(s) EXCEPT !.approved = TRUE]
  <2>1. Found(u, s) /\ Update(u, s, stage, "approved")
    BY <1>7 DEF ApproveStage
  <2>2. ~ Over(compositions[s]) => stage \in Stage /\ stage.input = Current(s).input
    BY <1>6, <2>1 DEF Stage
  <2> HIDE DEF stage
  <2> QED
    BY <1>2, <2>1, <2>2
<1>8. ASSUME NEW u \in Users, NEW s \in Sessions, NEW output \in Outputs,
             CompleteStage(u, s, output)
      PROVE  StoreInv'
  <2> DEFINE stage == [Current(s) EXCEPT !.output = output, !.completed = TRUE]
  <2>1. Found(u, s) /\ Update(u, s, stage, "completed")
    BY <1>8 DEF CompleteStage
  <2>2. ~ Over(compositions[s]) => stage \in Stage /\ stage.input = Current(s).input
    BY <1>6, <2>1 DEF Stage
  <2> HIDE DEF stage
  <2> QED
    BY <1>2, <2>1, <2>2
<1>9. ASSUME NEW u \in Users, NEW s \in Sessions, Advance(u, s) PROVE StoreInv'
  <2>1. Found(u, s) /\ posted' = posted
    BY <1>9 DEF Advance
  <2>2. CASE CanProceed(compositions[s]) = "advanced"
    <3>1. compositions' = [compositions EXCEPT ![s] = Advanced(compositions[s])]
      BY <1>9, <2>2 DEF Advance
    <3>2. posted' = [posted EXCEPT ![s] = posted[s]]
      BY <2>1 DEF StoreInv, StoreTypes
    <3>3. Advanced(compositions[s]) \in Kept /\ Ordered(Advanced(compositions[s]), posted[s])
      BY <1>1, <2>1, <2>2, AdvancedInOrder
    <3> QED
      BY <1>1, <2>1, <3>1, <3>2, <3>3, Replaced
  <2>3. CASE CanProceed(compositions[s]) # "advanced"
    BY <1>0, <1>9, <2>1, <2>3 DEF Advance
  <2> QED
    BY <2>2, <2>3
<1>10. ASSUME NEW u \in Users, NEW s \in Sessions, GetComposition(u, s) PROVE StoreInv'
  BY <1>0, <1>10 DEF GetComposition
<1>11. CASE LoseStore
  <2>1. <<>> \in Seq(Stage)
    OBVIOUS
  <2> QED
    BY <1>11, <2>1 DEF LoseStore, StoreInv, StoreTypes
<1>12. CASE UNCHANGED compositionVars
  BY <1>0, <1>12 DEF compositionVars
<1> QED
  BY <1>3, <1>4, <1>5, <1>7, <1>8, <1>9, <1>10, <1>11, <1>12 DEF CompositionsNext

(* Whatever stages are posted and however requests repeat or cross, a stage is *)
(* worked on in its turn, from the output of the one before it, and no          *)
(* composition goes past its depth (composition.go:61-119).                    *)
THEOREM AlwaysInOrder ==
  ASSUME Bodies \subseteq Seq(Stage)
  PROVE  CompositionsSpec => []StagesInOrder
<1>1. StoreInv /\ [CompositionsNext]_compositionVars => StoreInv'
  BY NextStoreInv
<1> QED
  BY <1>1, InvInOrder, InitStoreInv, PTL DEF CompositionsSpec

-----------------------------------------------------------------------------
(* Patch review, for any executions, patches and lifetimes.  What a stream has*)
(* shown was stored and made known before, by the execution that shows it: the*)
(* invariant follows each patch from the one map to the other.               *)

ReviewSteps == {"next", "stored", "remembered", "denied", "rejected", "ended"}
ExecutionRecord ==
    [session : PatchSessions, at : ReviewSteps,
     id : PatchIds \cup {CHOOSE p \in PatchIds : TRUE}, run : Nat, events : Nat, time : Nat]

ReviewTypes ==
    /\ minutes \in Nat
    /\ executing \in [Executions -> ExecutionRecord]
    /\ buffer \in [DOMAIN buffer -> [content : {"clean"}, at : 0 .. minutes]]
    /\ knownAt \in [DOMAIN knownAt -> 0 .. minutes]
    /\ shown \in [DOMAIN shown -> 0 .. minutes]
    /\ \A x \in Executions : executing[x].time <= minutes

\* Contents that were stored at this time, or later ones, are in the buffer for their lifetime.
Buffered(k, time) == Young(time, BufferTTL) => k \in DOMAIN buffer /\ time <= buffer[k].at

Known(k, time) == Young(time, LocalTTL) => k \in DOMAIN knownAt /\ time <= knownAt[k]

ReviewInv ==
    /\ ReviewTypes
    /\ \A x \in Executions :
          /\ executing[x].at \in {"stored", "remembered"} => Buffered(Key(x), executing[x].time)
          /\ executing[x].at = "remembered" => Known(Key(x), executing[x].time)
    /\ \A k \in DOMAIN shown : Buffered(k, shown[k]) /\ Known(k, shown[k])

LEMMA InitReviewInv == PatchesInit => ReviewInv
<1> SUFFICES ASSUME PatchesInit PROVE ReviewInv
  OBVIOUS
<1>1. PICK home \in [Executions -> PatchSessions] : executing = [x \in Executions |-> Ready(home[x])]
  BY DEF PatchesInit
<1>2. \A x \in Executions : /\ Ready(home[x]) \in ExecutionRecord
                             /\ Ready(home[x]).time = 0 /\ Ready(home[x]).at = "next"
  BY DEF Ready, ExecutionRecord, ReviewSteps
<1>3. minutes = 0 /\ buffer = Empty /\ knownAt = Empty /\ shown = Empty
  BY DEF PatchesInit
<1>4. /\ buffer \in [DOMAIN buffer -> [content : {"clean"}, at : 0 .. minutes]]
      /\ knownAt \in [DOMAIN knownAt -> 0 .. minutes] /\ shown \in [DOMAIN shown -> 0 .. minutes]
      /\ DOMAIN shown = {}
  BY <1>3 DEF Empty
<1> QED
  BY <1>1, <1>2, <1>3, <1>4 DEF ReviewInv, ReviewTypes

(* What a step of the executors or of the reviewer does to the two maps: what *)
(* was there stays as new as it was, until its lifetime is over.              *)
Keeps ==
    /\ \A k \in DOMAIN buffer : Young(buffer[k].at, BufferTTL) =>
          k \in DOMAIN buffer' /\ buffer[k].at <= buffer'[k].at
    /\ \A k \in DOMAIN knownAt : Young(knownAt[k], LocalTTL) =>
          k \in DOMAIN knownAt' /\ knownAt[k] <= knownAt'[k]

LEMMA StaysBuffered ==
  ASSUME BufferTTL \in Nat, ReviewTypes, ReviewTypes', Keeps, minutes <= minutes',
         NEW k, NEW t \in 0 .. minutes, Buffered(k, t)
  PROVE  Buffered(k, t)'
<1> SUFFICES ASSUME Young(t, BufferTTL)' PROVE k \in DOMAIN buffer' /\ t <= buffer'[k].at
  BY DEF Buffered
<1>1. Young(t, BufferTTL)
  BY DEF Young, ReviewTypes
<1>2. k \in DOMAIN buffer /\ t <= buffer[k].at /\ buffer[k].at \in 0 .. minutes
  BY <1>1 DEF Buffered, ReviewTypes
<1>3. Young(buffer[k].at, BufferTTL)
  BY <1>1, <1>2 DEF Young, ReviewTypes
<1>4. k \in DOMAIN buffer' /\ buffer[k].at <= buffer'[k].at
  BY <1>2, <1>3 DEF Keeps
<1>5. buffer'[k].at \in Nat
  BY <1>4 DEF ReviewTypes
<1> QED
  BY <1>2, <1>4, <1>5

LEMMA StaysKnown ==
  ASSUME LocalTTL \in Nat, ReviewTypes, ReviewTypes', Keeps, minutes <= minutes',
         NEW k, NEW t \in 0 .. minutes, Known(k, t)
  PROVE  Known(k, t)'
<1> SUFFICES ASSUME Young(t, LocalTTL)' PROVE k \in DOMAIN knownAt' /\ t <= knownAt'[k]
  BY DEF Known
<1>1. Young(t, LocalTTL)
  BY DEF Young, ReviewTypes
<1>2. k \in DOMAIN knownAt /\ t <= knownAt[k] /\ knownAt[k] \in 0 .. minutes
  BY <1>1 DEF Known, ReviewTypes
<1>3. Young(knownAt[k], LocalTTL)
  BY <1>1, <1>2 DEF Young, ReviewTypes
<1>4. k \in DOMAIN knownAt' /\ knownAt[k] <= knownAt'[k]
  BY <1>2, <1>3 DEF Keeps
<1>5. knownAt'[k] \in Nat
  BY <1>4 DEF ReviewTypes
<1> QED
  BY <1>2, <1>4, <1>5

LEMMA RecordStays ==
  ASSUME NEW e \in ExecutionRecord, NEW step \in ReviewSteps, NEW run \in Nat, NEW n \in Nat
  PROVE  /\ [e EXCEPT !.events = n, !.run = run, !.at = step] \in ExecutionRecord
         /\ \A id \in PatchIds, time \in Nat :
              [e EXCEPT !.events = n, !.id = id, !.run = 0, !.time = time, !.at = step] \in ExecutionRecord
<1> DEFINE Ids == PatchIds \cup {CHOOSE p \in PatchIds : TRUE}
<1>1. e \in [session : PatchSessions, at : ReviewSteps, id : Ids, run : Nat, events : Nat, time : Nat] /\ PatchIds \subseteq Ids
  BY DEF ExecutionRecord
<1> HIDE DEF Ids, ReviewSteps
<1>2. [e EXCEPT !.events = n, !.run = run, !.at = step] \in [session : PatchSessions, at : ReviewSteps, id : Ids, run : Nat, events : Nat, time : Nat]
  BY <1>1
<1>3. \A id \in Ids, time \in Nat : [e EXCEPT !.events = n, !.id = id, !.run = 0, !.time = time, !.at = step] \in [session : PatchSessions, at : ReviewSteps, id : Ids, run : Nat, events : Nat, time : Nat]
  BY <1>1
<1> QED
  BY <1>1, <1>2, <1>3 DEF ExecutionRecord, Ids

LEMMA RecordTimes ==
  ASSUME NEW e \in ExecutionRecord, NEW id, NEW step, NEW run, NEW n, NEW time
  PROVE  /\ [e EXCEPT !.events = n, !.run = run, !.at = step].time = e.time
         /\ [e EXCEPT !.events = n, !.id = id, !.run = 0, !.time = time, !.at = step].time = time
         /\ e.events + 1 \in Nat
  BY DEF ExecutionRecord

LEMMA NextReviewTypes ==
  ASSUME ReviewTypes, [PatchesNext]_reviewVars
  PROVE  ReviewTypes'
<1> USE DEF ReviewTypes, ExecutionRecord, ReviewSteps
<1>1. ASSUME NEW x \in Executions, HandleEvent(x) PROVE ReviewTypes'
  <2>1. PICK type \in {"stream", "tool_call", "tool_request", "acp_permission", "done"} :
          executing' = [executing EXCEPT
              ![x].events = @ + 1,
              ![x].run = Observe(@, type),
              ![x].at = IF LoopExceeded(executing[x].run, type) THEN "denied" ELSE "next"]
    BY <1>1 DEF HandleEvent
  <2>2. executing[x] \in ExecutionRecord /\ Observe(executing[x].run, type) \in Nat
    BY DEF Observe
  <2> DEFINE run == Observe(executing[x].run, type)
             step == IF LoopExceeded(executing[x].run, type) THEN "denied" ELSE "next"
             n == executing[x].events + 1
             new == [executing[x] EXCEPT !.events = n, !.run = run, !.at = step]
  <2>3. new \in ExecutionRecord /\ new.time = executing[x].time
    <3>1. run \in Nat /\ step \in ReviewSteps
      BY <2>2
    <3> HIDE DEF run, step, n, ExecutionRecord, ReviewTypes, ReviewSteps
    <3>2. n \in Nat
      BY <2>2, RecordTimes DEF n
    <3>3. new \in ExecutionRecord
      BY <2>2, <3>1, <3>2, RecordStays
    <3> QED
      BY <2>2, <3>3, RecordTimes
  <2>4. executing' = [executing EXCEPT ![x] = new]
    BY <2>1
  <2> HIDE DEF new, run, step, n, ExecutionRecord
  <2>5. executing' \in [Executions -> ExecutionRecord] /\ \A y \in Executions : executing'[y].time <= minutes
    BY <2>3, <2>4
  <2> QED
    BY <1>1, <2>5 DEF HandleEvent
<1>2. ASSUME NEW x \in Executions, Store(x) PROVE ReviewTypes'
  <2>1. PICK p \in PatchIds, c \in Contents :
          /\ executing' = [executing EXCEPT ![x].events = @ + 1, ![x].id = p, ![x].run = 0, ![x].time = minutes,
                               ![x].at = IF c = "clean" THEN "stored" ELSE "rejected"]
          /\ IF c = "clean"
             THEN buffer' = Put(buffer, <<executing[x].session, p>>, [content |-> c, at |-> minutes])
             ELSE UNCHANGED buffer
    BY <1>2 DEF Store
  <2>2. executing' \in [Executions -> ExecutionRecord] /\ \A y \in Executions : executing'[y].time <= minutes
    <3> DEFINE step == IF c = "clean" THEN "stored" ELSE "rejected"
               n == executing[x].events + 1
               new == [executing[x] EXCEPT !.events = n, !.id = p, !.run = 0, !.time = minutes, !.at = step]
    <3>1. executing[x] \in ExecutionRecord /\ minutes \in Nat
      OBVIOUS
    <3>2. new \in ExecutionRecord /\ new.time = minutes
      <4>1. step \in ReviewSteps
        OBVIOUS
      <4> HIDE DEF step, n, ExecutionRecord, ReviewTypes, ReviewSteps
      <4>2. n \in Nat
        BY <3>1, RecordTimes DEF n
      <4>3. new \in ExecutionRecord
        BY <3>1, <4>1, <4>2, RecordStays
      <4> QED
        BY <3>1, <4>3, RecordTimes
    <3>3. executing' = [executing EXCEPT ![x] = new]
      BY <2>1
    <3> HIDE DEF new, step, n, ExecutionRecord
    <3> QED
      BY <3>2, <3>3
  <2>3. buffer' \in [DOMAIN buffer' -> [content : {"clean"}, at : 0 .. minutes]]
    <3>1. CASE c # "clean"
      BY <2>1, <3>1
    <3>2. CASE c = "clean"
      <4>1. buffer' = Put(buffer, <<executing[x].session, p>>, [content |-> "clean", at |-> minutes])
        BY <2>1, <3>2
      <4>2. [content |-> "clean", at |-> minutes] \in [content : {"clean"}, at : 0 .. minutes]
        OBVIOUS
      <4> QED
        BY <4>1, <4>2 DEF Put
    <3> QED
      BY <3>1, <3>2
  <2> QED
    BY <1>2, <2>2, <2>3 DEF Store
<1>3. ASSUME NEW x \in Executions, Remember(x) PROVE ReviewTypes'
  <2>1. knownAt' \in [DOMAIN knownAt' -> 0 .. minutes]
    BY <1>3 DEF Put, Remember
  <2> QED
    BY <1>3, <2>1 DEF Remember, LoopGoes
<1>4. ASSUME NEW x \in Executions, Publish(x) PROVE ReviewTypes'
  <2>1. executing[x].time \in 0 .. minutes
    OBVIOUS
  <2>2. shown' \in [DOMAIN shown' -> 0 .. minutes]
    BY <1>4, <2>1 DEF Put, Publish
  <2> QED
    BY <1>4, <2>2 DEF Publish, LoopGoes
<1>5. ASSUME NEW x \in Executions, FinishLoop(x) PROVE ReviewTypes'
  <2>1. Ready(executing[x].session) \in ExecutionRecord
    BY DEF Ready
  <2> DEFINE new == [Ready(executing[x].session) EXCEPT !.at = "ended"]
  <2>2. new \in ExecutionRecord /\ new.time = 0
    BY <2>1 DEF Ready
  <2>3. executing' = [executing EXCEPT ![x] = new]
    BY <1>5 DEF FinishLoop
  <2> HIDE DEF new, ExecutionRecord
  <2>4. executing' \in [Executions -> ExecutionRecord] /\ \A y \in Executions : executing'[y].time <= minutes
    BY <2>2, <2>3
  <2>5. UNCHANGED <<minutes, buffer, knownAt, shown>>
    BY <1>5 DEF FinishLoop
  <2> QED
    BY <2>4, <2>5
<1>6. ASSUME NEW kind, NEW key, Ask(kind, key) PROVE ReviewTypes'
  BY <1>6 DEF Ask
<1>7. CASE PatchKnown
  BY <1>7 DEF PatchKnown, KnownAfterEviction, Restrict
<1>8. CASE Get
  BY <1>8 DEF Get, BufferAfterEviction, Restrict
<1>9. CASE Decide
  BY <1>9 DEF Decide
<1>10. CASE MinutePasses
  BY <1>10 DEF MinutePasses
<1>11. CASE RestartReview
  <2>1. \A x \in Executions : /\ [Ready(executing[x].session) EXCEPT !.at = "ended"] \in ExecutionRecord
                               /\ [Ready(executing[x].session) EXCEPT !.at = "ended"].time = 0
    BY DEF Ready
  <2> HIDE DEF ExecutionRecord
  <2>2. executing' \in [Executions -> ExecutionRecord] /\ \A y \in Executions : executing'[y].time <= minutes
    <3>1. executing' = [x \in Executions |-> [Ready(executing[x].session) EXCEPT !.at = "ended"]]
      BY <1>11 DEF RestartReview
    <3>2. minutes \in Nat
      OBVIOUS
    <3> HIDE DEF ReviewTypes
    <3>3. \A x \in Executions : executing'[x] \in ExecutionRecord /\ executing'[x].time = 0
      BY <2>1, <3>1
    <3> QED
      BY <3>1, <3>2, <3>3
  <2>3. minutes' = minutes /\ buffer' = Empty /\ knownAt' = Empty /\ shown' = Empty
    BY <1>11 DEF RestartReview
  <2> HIDE DEF ReviewTypes
  <2>4. /\ buffer' \in [DOMAIN buffer' -> [content : {"clean"}, at : 0 .. minutes]]
        /\ knownAt' \in [DOMAIN knownAt' -> 0 .. minutes] /\ shown' \in [DOMAIN shown' -> 0 .. minutes]
    BY <2>3 DEF Empty
  <2> QED
    BY <2>2, <2>3, <2>4 DEF ReviewTypes
<1>12. CASE UNCHANGED reviewVars
  BY <1>12 DEF reviewVars
<1> QED
  BY <1>1, <1>2, <1>3, <1>4, <1>5, <1>6, <1>7, <1>8, <1>9, <1>10, <1>11, <1>12 DEF PatchesNext

LEMMA NextKeeps ==
  ASSUME ReviewTypes, [PatchesNext]_reviewVars, ~RestartReview
  PROVE  Keeps /\ minutes <= minutes'
<1> USE DEF ReviewTypes, Keeps
<1>1. ASSUME NEW x \in Executions, Store(x) PROVE Keeps /\ minutes <= minutes'
  <2>1. PICK p \in PatchIds, c \in Contents :
          IF c = "clean"
          THEN buffer' = Put(buffer, <<executing[x].session, p>>, [content |-> c, at |-> minutes])
          ELSE UNCHANGED buffer
    BY <1>1 DEF Store
  <2>2. UNCHANGED <<minutes, knownAt>>
    BY <1>1 DEF Store
  <2>3. CASE c # "clean"
    BY <2>1, <2>2, <2>3
  <2>4. CASE c = "clean"
    <3> DEFINE key == <<executing[x].session, p>>
               new == [content |-> c, at |-> minutes]
    <3>1. buffer' = Put(buffer, key, new)
      BY <2>1, <2>4
    <3>2. new.at = minutes
      OBVIOUS
    <3> HIDE DEF key, new
    <3>3. /\ DOMAIN buffer' = DOMAIN buffer \cup {key} /\ buffer'[key] = new
          /\ \A i \in DOMAIN buffer \ {key} : buffer'[i] = buffer[i]
      BY <3>1 DEF Put
    <3> QED
      BY <2>2, <3>2, <3>3
  <2> QED
    BY <2>3, <2>4
<1>2. ASSUME NEW x \in Executions, Remember(x) PROVE Keeps /\ minutes <= minutes'
  <2> DEFINE key == Key(x)
  <2>1. knownAt' = Put(knownAt, key, minutes) /\ UNCHANGED <<minutes, buffer>>
    BY <1>2 DEF Remember
  <2> HIDE DEF key
  <2>2. /\ DOMAIN knownAt' = DOMAIN knownAt \cup {key} /\ knownAt'[key] = minutes
        /\ \A i \in DOMAIN knownAt \ {key} : knownAt'[i] = knownAt[i]
    BY <2>1 DEF Put
  <2> QED
    BY <2>1, <2>2
<1>3. CASE PatchKnown
  BY <1>3 DEF PatchKnown, KnownAfterEviction, Restrict
<1>4. CASE Get
  BY <1>4 DEF Get, BufferAfterEviction, Restrict
<1>5. ASSUME UNCHANGED <<buffer, knownAt>>, minutes' \in {minutes, minutes + 1}
      PROVE  Keeps /\ minutes <= minutes'
  BY <1>5
<1> QED
  BY <1>1, <1>2, <1>3, <1>4, <1>5
     DEF PatchesNext, HandleEvent, Publish, FinishLoop, Ask, Decide, MinutePasses, reviewVars

LEMMA NextReviewInv ==
  ASSUME BufferTTL \in Nat, LocalTTL \in Nat, ReviewInv, [PatchesNext]_reviewVars
  PROVE  ReviewInv'
<1>1. ReviewTypes /\ ReviewTypes'
  BY NextReviewTypes DEF ReviewInv
<1>2. CASE RestartReview
  <2>1. \A x \in Executions : executing'[x].at = "ended"
    BY <1>1, <1>2 DEF RestartReview, Ready, ReviewTypes, ExecutionRecord
  <2> QED
    BY <1>1, <1>2, <2>1 DEF RestartReview, ReviewInv, Empty
<1>3. CASE ~RestartReview
  <2>1. Keeps /\ minutes <= minutes'
    BY <1>1, <1>3, NextKeeps
  <2>2. \A k : \A t \in 0 .. minutes :
          /\ Buffered(k, t) => (minutes' <= t + BufferTTL => k \in DOMAIN buffer' /\ t <= buffer'[k].at)
          /\ Known(k, t) => (minutes' <= t + LocalTTL => k \in DOMAIN knownAt' /\ t <= knownAt'[k])
    BY <1>1, <2>1, StaysBuffered, StaysKnown DEF Buffered, Known, Young
  <2>3. ASSUME NEW y \in Executions, executing'[y] = executing[y]
        PROVE  /\ executing'[y].at \in {"stored", "remembered"} => Buffered(Key(y), executing[y].time)'
               /\ executing'[y].at = "remembered" => Known(Key(y), executing[y].time)'
    <3>1. Key(y)' = Key(y) /\ executing[y].time \in 0 .. minutes
      BY <1>1, <2>3 DEF Key, ReviewTypes, ExecutionRecord
    <3>2. executing'[y].at \in {"stored", "remembered"} => Buffered(Key(y), executing[y].time)
      BY <2>3 DEF ReviewInv
    <3>3. executing'[y].at = "remembered" => Known(Key(y), executing[y].time)
      BY <2>3 DEF ReviewInv
    <3> QED
      BY <2>3, <2>2, <3>1, <3>2, <3>3 DEF Buffered, Known, Young
  <2>4. ASSUME UNCHANGED shown PROVE \A k \in DOMAIN shown' : Buffered(k, shown[k])' /\ Known(k, shown[k])'
    <3>1. \A k \in DOMAIN shown : shown[k] \in 0 .. minutes /\ Buffered(k, shown[k]) /\ Known(k, shown[k])
      BY <1>1 DEF ReviewInv, ReviewTypes
    <3>2. ASSUME NEW k \in DOMAIN shown' PROVE Buffered(k, shown[k])' /\ Known(k, shown[k])'
      <4>1. shown'[k] = shown[k] /\ k \in DOMAIN shown
        BY <2>4, <3>2
      <4> QED
        BY <2>2, <3>1, <4>1 DEF Buffered, Known, Young
    <3> QED
      BY <3>2
  <2>5. ASSUME UNCHANGED <<executing, shown>> PROVE ReviewInv'
    <3>1. \A y \in Executions :
            /\ executing'[y].at \in {"stored", "remembered"} => Buffered(Key(y), executing[y].time)'
            /\ executing'[y].at = "remembered" => Known(Key(y), executing[y].time)'
      BY <2>3, <2>5
    <3> QED
      BY <1>1, <2>4, <2>5, <3>1 DEF ReviewInv
  <2>6. ASSUME NEW x \in Executions, \A y \in Executions \ {x} : executing'[y] = executing[y],
               executing'[x].at \in {"stored", "remembered"} => Buffered(Key(x), executing[x].time)',
               executing'[x].at = "remembered" => Known(Key(x), executing[x].time)'
        PROVE  \A y \in Executions :
            /\ executing'[y].at \in {"stored", "remembered"} => Buffered(Key(y), executing[y].time)'
            /\ executing'[y].at = "remembered" => Known(Key(y), executing[y].time)'
    BY <2>3, <2>6
  <2>7. ASSUME NEW x \in Executions, Store(x) PROVE ReviewInv'
    <3>1. \A y \in Executions \ {x} : executing'[y] = executing[y]
      BY <1>1, <2>7 DEF Store, ReviewTypes
    <3>2. PICK p \in PatchIds, c \in Contents :
            /\ executing' = [executing EXCEPT ![x].events = @ + 1, ![x].id = p, ![x].run = 0, ![x].time = minutes,
                               ![x].at = IF c = "clean" THEN "stored" ELSE "rejected"]
            /\ IF c = "clean"
               THEN buffer' = Put(buffer, <<executing[x].session, p>>, [content |-> c, at |-> minutes])
               ELSE UNCHANGED buffer
      BY <2>7 DEF Store
    <3>3. /\ executing'[x].at = (IF c = "clean" THEN "stored" ELSE "rejected")
          /\ executing'[x].time = minutes /\ executing'[x].id = p
          /\ executing'[x].session = executing[x].session
      BY <1>1, <3>2 DEF ReviewTypes, ExecutionRecord
    <3>4. ASSUME c = "clean" PROVE Buffered(Key(x), executing[x].time)'
      <4>1. Key(x)' = <<executing[x].session, p>>
        BY <3>3 DEF Key
      <4>2. Key(x)' \in DOMAIN buffer' /\ buffer'[Key(x)'] = [content |-> c, at |-> minutes]
        BY <3>2, <3>4, <4>1 DEF Put
      <4>3. minutes \in Nat
        BY <1>1 DEF ReviewTypes
      <4> QED
        BY <3>3, <4>2, <4>3 DEF Buffered
    <3>5. executing'[x].at # "remembered" /\ (executing'[x].at = "stored" => c = "clean")
      BY <3>3
    <3>6. UNCHANGED shown
      BY <2>7 DEF Store
    <3> QED
      BY <1>1, <2>4, <2>6, <3>1, <3>4, <3>5, <3>6 DEF ReviewInv
  <2>8. ASSUME NEW x \in Executions, Remember(x) PROVE ReviewInv'
    <3>1. /\ \A y \in Executions \ {x} : executing'[y] = executing[y]
          /\ executing[x].at = "stored" /\ executing'[x] = [executing[x] EXCEPT !.at = "remembered"]
          /\ knownAt' = Put(knownAt, Key(x), minutes) /\ UNCHANGED <<minutes, buffer, shown>>
      BY <1>1, <2>8 DEF Remember, LoopAt, LoopGoes, ReviewTypes
    <3>2. Key(x)' = Key(x) /\ executing'[x].time = executing[x].time
      BY <1>1, <3>1 DEF Key, ReviewTypes, ExecutionRecord
    <3>3. Buffered(Key(x), executing[x].time)'
      <4>1. Buffered(Key(x), executing[x].time)
        BY <3>1 DEF ReviewInv
      <4> QED
        BY <3>1, <3>2, <4>1 DEF Buffered, Young
    <3>4. Known(Key(x), executing[x].time)'
      <4>1. Key(x) \in DOMAIN knownAt' /\ knownAt'[Key(x)] = minutes
        BY <3>1 DEF Put
      <4>2. executing[x].time <= minutes
        BY <1>1 DEF ReviewTypes
      <4> QED
        BY <3>2, <4>1, <4>2 DEF Known
    <3> QED
      BY <1>1, <2>4, <2>6, <3>1, <3>3, <3>4 DEF ReviewInv
  <2>9. ASSUME NEW x \in Executions, Publish(x) PROVE ReviewInv'
    <3>1. /\ \A y \in Executions \ {x} : executing'[y] = executing[y]
          /\ executing[x].at = "remembered" /\ executing'[x] = [executing[x] EXCEPT !.at = "next"]
          /\ shown' = Put(shown, Key(x), executing[x].time) /\ UNCHANGED <<minutes, buffer, knownAt>>
      BY <1>1, <2>9 DEF Publish, LoopAt, LoopGoes, ReviewTypes
    <3>2. executing'[x].at = "next"
      BY <1>1, <3>1 DEF ReviewTypes, ExecutionRecord
    <3>3. Buffered(Key(x), executing[x].time) /\ Known(Key(x), executing[x].time)
      BY <3>1 DEF ReviewInv
    <3>4. ASSUME NEW k \in DOMAIN shown' PROVE Buffered(k, shown[k])' /\ Known(k, shown[k])'
      <4>1. CASE k = Key(x)
        <5>1. shown'[k] = executing[x].time
          BY <3>1, <4>1 DEF Put
        <5> QED
          BY <3>1, <3>3, <4>1, <5>1 DEF Buffered, Known, Young
      <4>2. CASE k # Key(x)
        <5>1. k \in DOMAIN shown /\ shown'[k] = shown[k]
          BY <3>1, <3>4, <4>2 DEF Put
        <5>2. Buffered(k, shown[k]) /\ Known(k, shown[k])
          BY <5>1 DEF ReviewInv
        <5> QED
          BY <3>1, <5>1, <5>2 DEF Buffered, Known, Young
      <4> QED
        BY <4>1, <4>2
    <3>5. \A y \in Executions :
            /\ executing'[y].at \in {"stored", "remembered"} => Buffered(Key(y), executing[y].time)'
            /\ executing'[y].at = "remembered" => Known(Key(y), executing[y].time)'
      BY <2>6, <3>1, <3>2
    <3> QED
      BY <1>1, <3>4, <3>5 DEF ReviewInv
  <2>10. ASSUME NEW x \in Executions, HandleEvent(x) \/ FinishLoop(x) PROVE ReviewInv'
    <3>1. \A y \in Executions \ {x} : executing'[y] = executing[y]
      BY <1>1, <2>10 DEF HandleEvent, FinishLoop, ReviewTypes
    <3>2. executing'[x].at \in {"next", "denied", "ended"} /\ UNCHANGED shown
      BY <1>1, <2>10 DEF HandleEvent, FinishLoop, Ready, ReviewTypes, ExecutionRecord
    <3>3. \A y \in Executions :
            /\ executing'[y].at \in {"stored", "remembered"} => Buffered(Key(y), executing[y].time)'
            /\ executing'[y].at = "remembered" => Known(Key(y), executing[y].time)'
      BY <2>6, <3>1, <3>2
    <3> QED
      BY <1>1, <2>4, <3>2, <3>3 DEF ReviewInv
  <2> QED
    BY <1>3, <2>5, <2>7, <2>8, <2>9, <2>10
       DEF PatchesNext, Ask, PatchKnown, Get, Decide, MinutePasses, reviewVars
<1> QED
  BY <1>2, <1>3

(* However executions of a session overlap, whatever identifiers they give,   *)
(* and whoever reads first after a lifetime is over, a patch that a stream has *)
(* shown can be fetched and decided for as long as its contents are to be kept *)
(* (PatchBuffer and SessionService.patchKnown).                                *)
THEOREM ShownAlwaysReviewable ==
  ASSUME BufferTTL \in Nat, LocalTTL \in Nat
  PROVE  PatchesSpec => []ShownIsReviewable
<1>1. ReviewInv => ShownIsReviewable
  <2> SUFFICES ASSUME ReviewInv, NEW k \in DOMAIN shown,
                      Young(shown[k], IF BufferTTL < LocalTTL THEN BufferTTL ELSE LocalTTL)
               PROVE  /\ k \in DOMAIN buffer /\ buffer[k].content = "clean"
                      /\ k \in DOMAIN knownAt /\ Young(knownAt[k], LocalTTL)
    BY DEF ShownIsReviewable
  <2>1. shown[k] \in Nat /\ minutes \in Nat
    BY DEF ReviewInv, ReviewTypes
  <2>2. Young(shown[k], BufferTTL) /\ Young(shown[k], LocalTTL)
    BY <2>1 DEF Young
  <2>3. k \in DOMAIN buffer /\ k \in DOMAIN knownAt /\ shown[k] <= knownAt[k]
    BY <2>2 DEF ReviewInv, Buffered, Known
  <2>4. buffer[k].content = "clean" /\ knownAt[k] \in Nat
    BY <2>3 DEF ReviewInv, ReviewTypes
  <2> QED
    BY <2>1, <2>2, <2>3, <2>4 DEF Young
<1>2. PatchesInit => ReviewInv
  BY InitReviewInv
<1>3. ReviewInv /\ [PatchesNext]_reviewVars => ReviewInv'
  BY NextReviewInv
<1> QED
  BY <1>1, <1>2, <1>3, PTL DEF PatchesSpec

-----------------------------------------------------------------------------

(* The registry for any requests, actors, sessions and identifiers.  What has *)
(* been acknowledged no longer changes, so what the table, a list on its way  *)
(* and a list that was answered say of it is stated once, of a set of records *)
(* and the requests, and carried from one to the other.                       *)

ServingSteps == {"idle", "owner", "put", "echo", "read", "filter", "done", "failed"}

\* What a request may be, and where it may be with which answer.
Shaped(q) ==
    /\ q \in [at : ServingSteps, op : {"create", "get", "list"}, table : Tables, who : {q.who},
              id : {q.id}, sess : {q.sess}, known : SUBSET Handlers, whole : BOOLEAN,
              read : {q.read}, answer : {"none", "created", "ok"}]
    /\ q.answer # "none" => q.at = "done"
    /\ q.answer = "created" => q.op = "create"
    /\ q.at \in {"owner", "put", "echo"} => q.op = "create"
    /\ q.at = "echo" \/ q.op = "get" => q.table \notin Appends

\* Nothing an actor is answered is another's.
Reading(q) == q.answer = "ok" /\ q.table \notin OpenTables => \A r \in q.read : Owned(r.sess, q.who)

\* Request h has been acknowledged for a table.
Acked(sv, h, table) ==
    /\ h \in Handlers /\ sv[h].at = "done"
    /\ sv[h].op = "create" /\ sv[h].answer = "created" /\ sv[h].table = table

\* r is the record that request h posted.
Posted(sv, r, h) ==
    /\ r.by = h /\ r.table = sv[h].table
    /\ r.id = sv[h].id /\ r.sess = sv[h].sess

\* Each of these records is the only one of a request that was acknowledged.
Traced(S, sv) ==
    /\ \A r \in S : Acked(sv, r.by, r.table) /\ Posted(sv, r, r.by)
    /\ \A r, q \in S : r.by = q.by => r = q

Covers(S, H) == \A h \in H : \E r \in S : r.by = h

AckedFor(sv, table) == {h \in Handlers : Acked(sv, h, table)}

\* The store has not lost anything.
Whole(k, o) == k \/ o = 0

Shown(q, sv) ==
    \A h \in q.known : Owned(sv[h].sess, q.who) =>
        \E r \in q.read : Posted(sv, r, h) /\ {p \in q.read : p.by = h} = {r}

\* A list on its way and a list that was answered.
Listing(q, sv, k, o) ==
    q.op = "list" =>
        /\ q.known \subseteq AckedFor(sv, q.table)
        /\ q.at = "filter" =>
              Traced(q.read, sv) /\ (Whole(k, o) => Covers(q.read, q.known))
        /\ q.answer = "ok" /\ q.whole /\ q.table \in Appends /\ Whole(k, o) => Shown(q, sv)

\* A use case or a workflow that was registered is not the default.
Registered(q, nm) ==
    q.table \in OpenTables /\ (q.at = "echo" \/ q.answer = "created") =>
        \E r \in nm : r.table = q.table /\ r.id = q.id /\ r.by # "seed"

\* The table of appended records.
Stored(S, sv, k, o) ==
    /\ Traced(S, sv)
    /\ Whole(k, o) => \A table \in Appends : Covers(S, AckedFor(sv, table))

RegistryInv ==
    /\ outages \in Nat
    /\ DOMAIN serving = Handlers
    /\ \A h \in Handlers : Shaped(serving[h]) /\ Reading(serving[h])
    /\ Stored(appended, serving, kept, outages)
    /\ \A h \in Handlers : Listing(serving[h], serving, kept, outages)
    /\ Whole(kept, outages) => \A h \in Handlers : Registered(serving[h], named)

-----------------------------------------------------------------------------
\* What was acknowledged stays.
Frozen(sv, later) == \A h \in Handlers : sv[h].at = "done" => later[h] = sv[h]

LEMMA AckedStays ==
  ASSUME NEW sv, NEW later, Frozen(sv, later), NEW h, NEW table, Acked(sv, h, table)
  PROVE  Acked(later, h, table) /\ later[h] = sv[h]
  BY DEF Frozen, Acked

LEMMA TracedStays ==
  ASSUME NEW sv, NEW later, Frozen(sv, later), NEW S, Traced(S, sv)
  PROVE  Traced(S, later)
<1>1. \A r \in S : Acked(later, r.by, r.table) /\ later[r.by] = sv[r.by]
  BY AckedStays DEF Traced
<1> QED
  BY <1>1 DEF Traced, Posted

LEMMA ListingStays ==
  ASSUME NEW sv, NEW later, Frozen(sv, later), NEW q, NEW k, NEW o, NEW k2, NEW o2,
         Whole(k2, o2) => Whole(k, o), Listing(q, sv, k, o)
  PROVE  Listing(q, later, k2, o2)
<1> SUFFICES ASSUME q.op = "list" PROVE Listing(q, later, k2, o2)
  BY DEF Listing
<1>1. q.known \subseteq AckedFor(sv, q.table)
  BY DEF Listing
<1>2. \A h \in q.known : Acked(later, h, q.table) /\ later[h] = sv[h]
  BY <1>1, AckedStays DEF AckedFor
<1>3. q.known \subseteq AckedFor(later, q.table)
  BY <1>1, <1>2 DEF AckedFor
<1>4. q.at = "filter" => Traced(q.read, later) /\ (Whole(k2, o2) => Covers(q.read, q.known))
  BY TracedStays DEF Listing
<1>5. ASSUME q.answer = "ok", q.whole, q.table \in Appends, Whole(k2, o2) PROVE Shown(q, later)
  <2>1. Shown(q, sv)
    BY <1>5 DEF Listing
  <2> QED
    BY <2>1, <1>2 DEF Shown, Posted
<1> QED
  BY <1>3, <1>4, <1>5 DEF Listing

\* One request moves on; nothing that is kept is lost.
LEMMA RequestMoves ==
  ASSUME RegistryInv, NEW h \in Handlers, serving[h].at # "done", NEW q,
         serving' = [serving EXCEPT ![h] = q], kept' = kept,
         outages' \in Nat, outages <= outages',
         Shaped(q), Reading(q), Listing(q, serving', kept', outages'),
         Stored(appended', serving', kept', outages'),
         Whole(kept, outages)' =>
            Registered(q, named') /\ \A g \in Handlers : Registered(serving[g], named')
  PROVE  RegistryInv'
<1>1. DOMAIN serving = Handlers /\ outages \in Nat
  BY DEF RegistryInv
<1>2. serving'[h] = q /\ \A g \in Handlers : g # h => serving'[g] = serving[g]
  BY <1>1
<1>3. Frozen(serving, serving')
  BY <1>2 DEF Frozen
<1>4. Whole(kept', outages') => Whole(kept, outages)
  BY <1>1 DEF Whole
<1>5. \A g \in Handlers : Listing(serving'[g], serving', kept', outages')
  <2> SUFFICES ASSUME NEW g \in Handlers, g # h
               PROVE  Listing(serving'[g], serving', kept', outages')
    BY <1>2
  <2>1. serving'[g] = serving[g] /\ Listing(serving[g], serving, kept, outages)
    BY <1>2 DEF RegistryInv
  <2> QED
    BY <2>1, <1>3, <1>4, ListingStays
<1>6. \A g \in Handlers : Shaped(serving'[g]) /\ Reading(serving'[g])
  BY <1>2 DEF RegistryInv
<1>7. Whole(kept, outages)' => \A g \in Handlers : Registered(serving'[g], named')
  BY <1>2
<1>8. DOMAIN serving' = Handlers
  BY <1>1
<1> QED
  BY <1>5, <1>6, <1>7, <1>8 DEF RegistryInv

\* A step that is not the acknowledgement of an appended record leaves the table alone.
LEMMA StoredStays ==
  ASSUME RegistryInv, NEW h \in Handlers, serving[h].at # "done", NEW q,
         serving' = [serving EXCEPT ![h] = q], kept' = kept,
         outages' \in Nat, outages <= outages', appended' = appended,
         q.answer = "created" => q.table \notin Appends
  PROVE  Stored(appended', serving', kept', outages')
<1>1. DOMAIN serving = Handlers /\ outages \in Nat /\ Stored(appended, serving, kept, outages)
  BY DEF RegistryInv
<1>2. serving'[h] = q /\ \A g \in Handlers : g # h => serving'[g] = serving[g]
  BY <1>1
<1>3. Frozen(serving, serving')
  BY <1>2 DEF Frozen
<1>4. Traced(appended', serving')
  BY <1>1, <1>3, TracedStays DEF Stored
<1>5. Whole(kept', outages') => Whole(kept, outages)
  BY <1>1 DEF Whole
<1>6. ASSUME NEW table \in Appends PROVE AckedFor(serving', table) \subseteq AckedFor(serving, table)
  BY <1>2 DEF AckedFor, Acked
<1>7. ASSUME NEW table \in Appends, Whole(kept', outages')
      PROVE  Covers(appended', AckedFor(serving', table))
  <2>1. Covers(appended, AckedFor(serving, table))
    BY <1>1, <1>5, <1>7 DEF Stored
  <2> QED
    BY <2>1, <1>6 DEF Covers
<1> QED
  BY <1>4, <1>7 DEF Stored

\* A request that neither acknowledges an appended record nor touches the named ones.
LEMMA OnlyRequestMoves ==
  ASSUME RegistryInv, NEW h \in Handlers, serving[h].at # "done", NEW q,
         serving' = [serving EXCEPT ![h] = q], kept' = kept,
         outages' \in Nat, outages <= outages', appended' = appended, named' = named,
         Shaped(q), Reading(q), Listing(q, serving', kept', outages'),
         q.answer = "created" => q.table \notin Appends /\ serving[h].at = "echo",
         q.at # "echo",
         (q.table = serving[h].table /\ q.id = serving[h].id) \/ q.answer # "created"
  PROVE  RegistryInv'
<1>1. Stored(appended', serving', kept', outages')
  BY StoredStays
<1>2. Whole(kept', outages') => Whole(kept, outages)
  BY DEF Whole, RegistryInv
<1>3. Whole(kept', outages') => \A g \in Handlers : Registered(serving[g], named')
  BY <1>2 DEF RegistryInv
<1>4. Whole(kept', outages') => Registered(q, named')
  BY <1>3 DEF Registered
<1> QED
  BY <1>1, <1>3, <1>4, RequestMoves
LEMMA OutagesGrow ==
  ASSUME RegistryInv, Outage \/ outages' = outages
  PROVE  outages' \in Nat /\ outages <= outages'
  BY DEF RegistryInv, Outage

LEMMA NewIsShaped ==
  /\ Shaped(NewRequest) /\ NewRequest.op = "list" /\ NewRequest.known = {}
  /\ NewRequest.answer = "none" /\ NewRequest.at = "idle"
  BY DEF NewRequest, Shaped, ServingSteps, Tables, Appends

Failed == [NewRequest EXCEPT !.at = "failed"]

LEMMA FailedIsSound ==
  /\ Shaped(Failed) /\ Reading(Failed) /\ Failed.answer = "none" /\ Failed.at = "failed"
  /\ \A sv, k, o : Listing(Failed, sv, k, o)
<1>1. /\ Shaped(Failed) /\ Failed.op = "list" /\ Failed.known = {}
      /\ Failed.answer = "none" /\ Failed.at = "failed"
  BY NewIsShaped DEF Failed, Shaped, ServingSteps
<1> QED
  BY <1>1 DEF Reading, Listing

LEMMA RequestFails ==
  ASSUME RegistryInv, NEW h \in Handlers, serving[h].at # "done", ServingFails(h), kept' = kept,
         Outage \/ outages' = outages, appended' = appended, named' = named
  PROVE  RegistryInv'
<1>1. serving' = [serving EXCEPT ![h] = Failed]
  BY DEF ServingFails, Failed
<1> QED
  BY <1>1, OutagesGrow, FailedIsSound, OnlyRequestMoves

LEMMA InvFaithful == RegistryInv => RegistryIsFaithful
<1> SUFFICES ASSUME RegistryInv PROVE RegistryIsFaithful
  OBVIOUS
<1>1. ReadsAreOwn
  BY DEF RegistryInv, Reading, ReadsAreOwn
<1>2. ASSUME Whole(kept, outages), NEW table \in Appends, NEW h \in Acknowledged(table)
      PROVE  \E r \in appended : Written(r, h)
  <2>1. Acked(serving, h, table) /\ h \in Handlers
    BY DEF Acknowledged, Acked, RegistryInv, Shaped
  <2>2. PICK r \in appended : r.by = h
    BY <2>1, <1>2 DEF RegistryInv, Stored, Covers, AckedFor
  <2>3. Posted(serving, r, h)
    BY <2>2 DEF RegistryInv, Stored, Traced
  <2> QED
    BY <2>2, <2>3 DEF Posted, Written
<1>3. ASSUME Whole(kept, outages), NEW table \in OpenTables, NEW h \in Acknowledged(table)
      PROVE  \E r \in Find(table, serving[h].id) : r.by # "seed"
  <2>1. h \in Handlers /\ serving[h].table = table /\ serving[h].answer = "created"
    BY DEF Acknowledged
  <2>2. Registered(serving[h], named)
    BY <1>3, <2>1 DEF RegistryInv
  <2> QED
    BY <2>1, <2>2 DEF Registered, Find
<1>4. ASSUME Whole(kept, outages), NEW g \in Handlers, serving[g].op = "list",
             serving[g].answer = "ok", serving[g].whole, NEW h \in serving[g].known,
             serving[h].table \in Appends, Owned(serving[h].sess, serving[g].who)
      PROVE  \E r \in serving[g].read :
                 Written(r, h) /\ {q \in serving[g].read : q.by = h} = {r}
  <2>1. Listing(serving[g], serving, kept, outages)
    BY DEF RegistryInv
  <2>2. serving[h].table = serving[g].table
    BY <2>1, <1>4 DEF Listing, AckedFor, Acked
  <2>3. Shown(serving[g], serving)
    BY <2>1, <2>2, <1>4 DEF Listing
  <2>4. PICK r \in serving[g].read : Posted(serving, r, h) /\ {q \in serving[g].read : q.by = h} = {r}
    BY <2>3, <1>4 DEF Shown
  <2> QED
    BY <2>4 DEF Posted, Written
<1>5. AcknowledgedIsListed
  BY <1>2, <1>3, <1>4 DEF AcknowledgedIsListed, Whole
<1> QED
  BY <1>1, <1>5 DEF RegistryIsFaithful

LEMMA InitRegistryInv == RegistryInit => RegistryInv
<1> SUFFICES ASSUME RegistryInit PROVE RegistryInv
  OBVIOUS
<1>1. \A h \in Handlers : serving[h] = NewRequest
  BY DEF RegistryInit
<1>2. outages \in Nat /\ DOMAIN serving = Handlers /\ appended = {}
  BY DEF RegistryInit
<1>3. \A h \in Handlers : Shaped(serving[h]) /\ Reading(serving[h]) /\ Registered(serving[h], named)
  BY <1>1, NewIsShaped DEF Reading, Registered
<1>4. \A h \in Handlers : Listing(serving[h], serving, kept, outages)
  BY <1>1, NewIsShaped DEF Listing
<1>5. \A table \in Appends : AckedFor(serving, table) = {}
  BY <1>1, NewIsShaped DEF AckedFor, Acked
<1>6. Stored(appended, serving, kept, outages)
  BY <1>2, <1>5 DEF Stored, Traced, Covers
<1> QED
  BY <1>2, <1>3, <1>4, <1>6 DEF RegistryInv

-----------------------------------------------------------------------------
(* The steps.                                                              *)

LEMMA ArriveKeeps ==
  ASSUME RegistryInv, NEW h \in Handlers, ArriveAtRegistry(h) PROVE RegistryInv'
<1>1. PICK op \in {"create", "get", "list"}, table \in Tables, who \in Everyone,
           s \in RecordSessions, i \in RecordIds :
         /\ serving' = [serving EXCEPT ![h] = Asked(op, table, who, s, i)]
         /\ op = "get" => table \in {"manifest", "use_case"}
  BY ZenonT(60) DEF ArriveAtRegistry
<1> DEFINE q == Asked(op, table, who, s, i)
<1>2. /\ q.op = op /\ q.table = table /\ q.answer = "none" /\ q.at \in {"read", "put", "owner"}
      /\ q.at # "read" => op = "create"
      /\ q.known = IF op = "list" THEN Acknowledged(table) ELSE {}
  BY DEF NewRequest, Asked
<1>3. q \in [at : ServingSteps, op : {"create", "get", "list"}, table : Tables, who : {q.who},
             id : {q.id}, sess : {q.sess}, known : SUBSET Handlers, whole : BOOLEAN,
             read : {q.read}, answer : {"none", "created", "ok"}]
  BY DEF NewRequest, Asked, ServingSteps, Acknowledged
<1> HIDE DEF q
<1>4. /\ serving[h].at = "idle" /\ kept' = kept /\ appended' = appended /\ named' = named
      /\ outages' = outages
  BY DEF ArriveAtRegistry, ServingAt
<1>5. Shaped(q) /\ Reading(q)
  BY <1>1, <1>2, <1>3 DEF Shaped, Reading, Appends
<1>6. Acknowledged(table) \subseteq AckedFor(serving', table)
  <2>1. Acknowledged(table) \subseteq AckedFor(serving, table)
    BY DEF RegistryInv, Shaped, Acknowledged, AckedFor, Acked
  <2>2. \A g \in Handlers : serving[g].at = "done" => serving'[g] = serving[g]
    BY <1>1, <1>4 DEF RegistryInv
  <2> QED
    BY <2>1, <2>2 DEF AckedFor, Acked
<1>7. Listing(q, serving', kept', outages')
  BY <1>2, <1>6 DEF Listing
<1>8. serving' = [serving EXCEPT ![h] = q]
  BY <1>1 DEF q
<1> QED
  BY <1>2, <1>4, <1>5, <1>7, <1>8, OutagesGrow, OnlyRequestMoves

\* A request goes on, or is answered, without having read anything.
LEMMA GoesKeeps ==
  ASSUME RegistryInv, NEW h \in Handlers, serving[h].at = "owner", ServingGoes(h, "put"),
         UNCHANGED <<kept, appended, named, outages>>
  PROVE  RegistryInv'
<1> DEFINE q == [serving[h] EXCEPT !.at = "put"]
<1>1. serving' = [serving EXCEPT ![h] = q]
  BY DEF ServingGoes, RegistryInv
<1>2. Shaped(serving[h])
  BY DEF RegistryInv
<1>3. Shaped(q) /\ q.at = "put" /\ q.answer = "none" /\ q.op = "create"
  BY <1>2 DEF Shaped, ServingSteps
<1> HIDE DEF q
<1>4. Reading(q) /\ Listing(q, serving', kept', outages')
  BY <1>3 DEF Reading, Listing
<1> QED
  BY <1>1, <1>3, <1>4, OutagesGrow, OnlyRequestMoves

LEMMA CheckOwnerKeeps ==
  ASSUME RegistryInv, NEW h \in Handlers, CheckOwner(h) PROVE RegistryInv'
<1>1. serving[h].at = "owner" /\ UNCHANGED <<kept, appended, named>>
  BY DEF CheckOwner, ServingAt
<1>2. \/ ServingGoes(h, "put") /\ outages' = outages
      \/ ServingFails(h) /\ (Outage \/ outages' = outages)
  BY DEF CheckOwner
<1> QED
  BY <1>1, <1>2, GoesKeeps, RequestFails

LEMMA InsertKeeps ==
  ASSUME RegistryInv, NEW h \in Handlers, serving[h].at = "put", serving[h].table \in Appends,
         UNCHANGED <<kept, named>>, NEW trust, Insert(h, Labelled(Record(h), trust))
  PROVE  RegistryInv'
<1> DEFINE record == Labelled(Record(h), trust)
           q == [serving[h] EXCEPT !.at = "done", !.answer = "created"]
<1>1. CASE appended' = appended \cup {record} /\ ServingAnswers(h, "created") /\ outages' = outages
  <2>1. serving' = [serving EXCEPT ![h] = q]
    BY <1>1 DEF ServingAnswers, RegistryInv
  <2>2. Shaped(serving[h]) /\ serving[h].op = "create"
    BY DEF RegistryInv, Shaped
  <2>3. /\ Shaped(q) /\ q.at = "done" /\ q.answer = "created" /\ q.op = "create"
        /\ q.table = serving[h].table /\ q.id = serving[h].id /\ q.sess = serving[h].sess
    BY <2>2 DEF Shaped, ServingSteps
  <2>4. /\ record.by = h /\ record.table = serving[h].table /\ record.id = serving[h].id
        /\ record.sess = serving[h].sess
    BY DEF Labelled, Record
  <2> HIDE DEF q, record
  <2>5. serving'[h] = q /\ \A g \in Handlers : g # h => serving'[g] = serving[g]
    BY <2>1 DEF RegistryInv
  <2>6. Frozen(serving, serving')
    BY <2>5 DEF Frozen
  <2>7. Stored(appended, serving, kept, outages)
    BY DEF RegistryInv
  <2>8. Traced(appended, serving')
    BY <2>6, <2>7, TracedStays DEF Stored
  <2>9. \A r \in appended : r.by # h
    BY <2>7 DEF Stored, Traced, Acked
  <2>10. Acked(serving', record.by, record.table) /\ Posted(serving', record, record.by)
    BY <2>3, <2>4, <2>5 DEF Acked, Posted
  <2>11. Traced(appended', serving')
    BY <1>1, <2>4, <2>8, <2>9, <2>10 DEF Traced, record
  <2>12. ASSUME Whole(kept', outages'), NEW table \in Appends
         PROVE  Covers(appended', AckedFor(serving', table))
    <3>1. Covers(appended, AckedFor(serving, table))
      BY <1>1, <2>7, <2>12 DEF Stored
    <3>2. \A g \in AckedFor(serving', table) : g = h \/ g \in AckedFor(serving, table)
      BY <2>5 DEF AckedFor, Acked
    <3> QED
      BY <1>1, <2>4, <3>1, <3>2 DEF Covers, record
  <2>13. Stored(appended', serving', kept', outages')
    BY <2>11, <2>12 DEF Stored
  <2>14. Reading(q) /\ Listing(q, serving', kept', outages')
    BY <2>3 DEF Reading, Listing
  <2>15. Registered(q, named') /\ (Whole(kept, outages)' => \A g \in Handlers : Registered(serving[g], named'))
    BY <1>1, <2>3 DEF Registered, RegistryInv, Appends, OpenTables
  <2> QED
    BY <1>1, <2>1, <2>3, <2>13, <2>14, <2>15, OutagesGrow, RequestMoves
<1>2. CASE ServingFails(h) /\ (Outage \/ outages' = outages) /\ appended' = appended
  BY <1>2, RequestFails
<1> QED
  BY <1>1, <1>2 DEF Insert

LEMMA RegisterKeeps ==
  ASSUME RegistryInv, NEW h \in Handlers, serving[h].at = "put", serving[h].table \notin Appends,
         Register(h)
  PROVE  RegistryInv'
<1> DEFINE q == [serving[h] EXCEPT !.at = "echo"]
           record == Record(h)
<1>1. kept' = kept /\ appended' = appended
  BY DEF Register
<1>2. CASE named' = Replacing(record) /\ ServingGoes(h, "echo") /\ outages' = outages
  <2>1. serving' = [serving EXCEPT ![h] = q]
    BY <1>2 DEF ServingGoes, RegistryInv
  <2>2. Shaped(serving[h]) /\ serving[h].op = "create"
    BY DEF RegistryInv, Shaped
  <2>3. /\ Shaped(q) /\ q.at = "echo" /\ q.answer = "none" /\ q.op = "create"
        /\ q.table = serving[h].table /\ q.id = serving[h].id
    BY <2>2 DEF Shaped, ServingSteps
  <2>4. record.by = h /\ record.table = serving[h].table /\ record.id = serving[h].id
    BY DEF Record
  <2>5. h # "seed"
    BY RegistryConstants
  <2> HIDE DEF q, record
  <2>6. record \in named' /\ \A r \in named : r \in named' \/ (r.table = record.table /\ r.id = record.id)
    BY <1>2 DEF Replacing, Find
  <2>7. Registered(q, named')
    BY <2>3, <2>4, <2>5, <2>6 DEF Registered
  <2>8. ASSUME Whole(kept, outages)', NEW g \in Handlers PROVE Registered(serving[g], named')
    <3> SUFFICES ASSUME serving[g].table \in OpenTables,
                        serving[g].at = "echo" \/ serving[g].answer = "created"
                 PROVE  \E r \in named' : /\ r.table = serving[g].table /\ r.id = serving[g].id
                                          /\ r.by # "seed"
      BY DEF Registered
    <3>1. PICK r \in named : r.table = serving[g].table /\ r.id = serving[g].id /\ r.by # "seed"
      BY <1>1, <1>2, <2>8 DEF RegistryInv, Registered
    <3>2. CASE r \in named'
      BY <3>1, <3>2
    <3>3. CASE r.table = record.table /\ r.id = record.id
      BY <3>1, <3>3, <2>4, <2>5, <2>6
    <3> QED
      BY <3>2, <3>3, <2>6
  <2>9. Reading(q) /\ Listing(q, serving', kept', outages')
    BY <2>3 DEF Reading, Listing
  <2>10. Stored(appended', serving', kept', outages')
    BY <1>1, <1>2, <2>1, <2>3, StoredStays, OutagesGrow
  <2> QED
    BY <1>1, <1>2, <2>1, <2>3, <2>7, <2>8, <2>9, <2>10, OutagesGrow, RequestMoves
<1>3. CASE ServingFails(h) /\ (Outage \/ outages' = outages) /\ named' = named
  BY <1>1, <1>3, RequestFails
<1> QED
  BY <1>2, <1>3 DEF Register

Answered(h, reply, read, whole) ==
    serving' = [serving EXCEPT ![h] = [serving[h] EXCEPT !.at = "done", !.answer = reply,
                                                         !.read = read, !.whole = whole]]

\* What was read is the reader's own, and of a list whatever it had to show.
Fitting(q, read, whole) ==
    /\ q.table \notin OpenTables => \A r \in read : Owned(r.sess, q.who)
    /\ q.op = "list" /\ whole /\ q.table \in Appends /\ Whole(kept, outages) =>
          \A g \in q.known : Owned(serving[g].sess, q.who) =>
             \E r \in read : Posted(serving, r, g) /\ {p \in read : p.by = g} = {r}

\* A request is answered with what was read; what it is stays.
LEMMA AnswerKeeps ==
  ASSUME RegistryInv, NEW h \in Handlers, serving[h].at # "done", NEW read, NEW whole \in BOOLEAN,
         NEW reply \in {"created", "ok"},
         Answered(h, reply, read, whole),
         kept' = kept, appended' = appended, named' = named, Outage \/ outages' = outages,
         reply = "created" => serving[h].at = "echo",
         reply = "ok" => Fitting(serving[h], read, whole)
  PROVE  RegistryInv'
<1> DEFINE q == [serving[h] EXCEPT !.at = "done", !.answer = reply, !.read = read, !.whole = whole]
<1>1. Shaped(serving[h]) /\ DOMAIN serving = Handlers
  BY DEF RegistryInv
<1>2. /\ q.at = "done" /\ q.answer = reply /\ q.read = read /\ q.whole = whole
      /\ q.op = serving[h].op /\ q.table = serving[h].table /\ q.id = serving[h].id
      /\ q.who = serving[h].who /\ q.known = serving[h].known
  BY <1>1 DEF Shaped
<1>3. Shaped(q)
  BY <1>1 DEF Shaped, ServingSteps
<1>8. serving' = [serving EXCEPT ![h] = q]
  BY DEF q, Answered
<1> HIDE DEF q
<1>4. Reading(q)
  BY <1>2 DEF Reading, Fitting
<1>5. Frozen(serving, serving')
  BY <1>1, <1>8 DEF Frozen
<1>6. Listing(q, serving', kept', outages')
  <2> SUFFICES ASSUME q.op = "list" PROVE Listing(q, serving', kept', outages')
    BY DEF Listing
  <2>1. q.known \subseteq AckedFor(serving, q.table)
    BY <1>2 DEF RegistryInv, Listing
  <2>2. ASSUME NEW g \in q.known PROVE Acked(serving', g, q.table) /\ serving'[g] = serving[g]
    <3>1. Acked(serving, g, q.table)
      BY <2>1 DEF AckedFor
    <3> QED
      BY <3>1, <1>5 DEF Acked, Frozen
  <2>3. q.known \subseteq AckedFor(serving', q.table)
    BY <2>1, <2>2 DEF AckedFor
  <2>4. Whole(kept', outages') => Whole(kept, outages)
    BY OutagesGrow DEF Whole, RegistryInv
  <2>5. ASSUME q.answer = "ok", q.whole, q.table \in Appends, Whole(kept', outages')
        PROVE  Shown(q, serving')
    BY <2>2, <2>4, <2>5, <1>2 DEF Shown, Posted, Fitting
  <2> QED
    BY <2>3, <2>5, <1>2 DEF Listing
<1>7. reply = "created" => q.table \notin Appends /\ serving[h].at = "echo"
  BY <1>1, <1>2 DEF Shaped
<1> QED
  BY <1>2, <1>3, <1>4, <1>6, <1>7, <1>8, OutagesGrow, OnlyRequestMoves

\* The same for what is asked for and not for what is created.
LEMMA OkKeeps ==
  ASSUME RegistryInv, NEW h \in Handlers, serving[h].at # "done", NEW read, NEW whole \in BOOLEAN,
         Answered(h, "ok", read, whole), UNCHANGED <<kept, appended, named>>,
         Outage \/ outages' = outages, Fitting(serving[h], read, whole)
  PROVE  RegistryInv'
  BY AnswerKeeps

LEMMA EchoKeeps ==
  ASSUME RegistryInv, NEW h \in Handlers, Echo(h) PROVE RegistryInv'
<1>1. serving[h].at = "echo" /\ UNCHANGED <<kept, appended, named>> /\ Shaped(serving[h])
  BY DEF Echo, ServingAt, RegistryInv
<1>2. CASE ServingAnswers(h, "created") /\ Outage
  <2>1. Answered(h, "created", serving[h].read, serving[h].whole)
    BY <1>1, <1>2 DEF Answered, ServingAnswers, RegistryInv, Shaped
  <2>2. serving[h].whole \in BOOLEAN
    BY <1>1 DEF Shaped
  <2> QED
    BY <1>1, <1>2, <2>1, <2>2, AnswerKeeps
<1>3. CASE /\ serving' = [serving EXCEPT ![h].at = "done", ![h].answer = "created",
                             ![h].read = Find(serving[h].table, serving[h].id)]
           /\ outages' = outages
  <2>1. Answered(h, "created", Find(serving[h].table, serving[h].id), serving[h].whole)
    BY <1>1, <1>3 DEF Answered, RegistryInv, Shaped
  <2>2. serving[h].whole \in BOOLEAN
    BY <1>1 DEF Shaped
  <2> QED
    BY <1>1, <1>3, <2>1, <2>2, AnswerKeeps
<1> QED
  BY <1>2, <1>3 DEF Echo

\* A request goes on to check the owners of what it read.
LEMMA ReadKeeps ==
  ASSUME RegistryInv, NEW h \in Handlers, serving[h].at = "read", NEW read,
         serving' = [serving EXCEPT ![h] = [serving[h] EXCEPT !.at = "filter", !.read = read]],
         kept' = kept, appended' = appended, named' = named, outages' = outages,
         serving[h].op = "list" =>
            Traced(read, serving) /\ (Whole(kept, outages) => Covers(read, serving[h].known))
  PROVE  RegistryInv'
<1> DEFINE q == [serving[h] EXCEPT !.at = "filter", !.read = read]
<1>1. Shaped(serving[h]) /\ DOMAIN serving = Handlers
  BY DEF RegistryInv
<1>2. /\ q.at = "filter" /\ q.answer = "none" /\ q.read = read /\ q.op = serving[h].op
      /\ q.table = serving[h].table /\ q.known = serving[h].known
  BY <1>1 DEF Shaped
<1>3. Shaped(q)
  BY <1>1, <1>2 DEF Shaped, ServingSteps
<1>4. serving' = [serving EXCEPT ![h] = q]
  OBVIOUS
<1> HIDE DEF q
<1>5. Reading(q)
  BY <1>2 DEF Reading
<1>6. Frozen(serving, serving')
  BY <1>1 DEF Frozen
<1>7. ASSUME q.op = "list" PROVE Listing(q, serving', kept', outages')
  <2>1. q.known \subseteq AckedFor(serving, q.table)
    BY <1>2, <1>7 DEF RegistryInv, Listing
  <2>2. q.known \subseteq AckedFor(serving', q.table)
    BY <2>1, <1>6 DEF AckedFor, Acked, Frozen
  <2>3. Traced(q.read, serving')
    BY <1>2, <1>6, <1>7, TracedStays
  <2> QED
    BY <1>2, <1>7, <2>2, <2>3 DEF Listing
<1>8. Listing(q, serving', kept', outages')
  BY <1>7 DEF Listing
<1> QED
  BY <1>2, <1>3, <1>4, <1>5, <1>8, OutagesGrow, OnlyRequestMoves

LEMMA GetNamedKeeps ==
  ASSUME RegistryInv, NEW h \in Handlers, GetNamed(h) PROVE RegistryInv'
<1> DEFINE found == Find(serving[h].table, serving[h].id)
<1>1. /\ serving[h].at = "read" /\ serving[h].op = "get" /\ UNCHANGED <<kept, appended, named>>
      /\ Shaped(serving[h]) /\ DOMAIN serving = Handlers
  BY DEF GetNamed, ServingAt, RegistryInv
<1>2. \/ /\ serving' = [serving EXCEPT ![h].read = found,
                  ![h].at = IF serving[h].table = "manifest" THEN "filter" ELSE "done",
                  ![h].answer = IF serving[h].table = "manifest" THEN "none" ELSE "ok"]
         /\ outages' = outages
      \/ ServingFails(h) /\ (Outage \/ outages' = outages)
  BY DEF GetNamed
<1> HIDE DEF found
<1>3. CASE ServingFails(h) /\ (Outage \/ outages' = outages)
  BY <1>1, <1>3, RequestFails
<1>4. CASE /\ serving' = [serving EXCEPT ![h].read = found, ![h].at = "filter", ![h].answer = "none"]
           /\ outages' = outages
  <2>1. serving' = [serving EXCEPT ![h] = [serving[h] EXCEPT !.at = "filter", !.read = found]]
    BY <1>1, <1>4 DEF Shaped
  <2> QED
    BY <1>1, <1>4, <2>1, ReadKeeps
<1>5. CASE /\ serving' = [serving EXCEPT ![h].read = found, ![h].at = "done", ![h].answer = "ok"]
           /\ outages' = outages /\ serving[h].table \in OpenTables
  <2>1. Answered(h, "ok", found, serving[h].whole)
    BY <1>1, <1>5 DEF Answered, Shaped
  <2>2. serving[h].whole \in BOOLEAN
    BY <1>1 DEF Shaped
  <2>3. Fitting(serving[h], found, serving[h].whole)
    BY <1>1, <1>5 DEF Fitting
  <2> QED
    BY <1>1, <1>5, <2>1, <2>2, <2>3, OkKeeps
<1>6. serving[h].table = "manifest" \/ serving[h].table \in OpenTables
  BY <1>1 DEF Shaped, Tables
<1>7. "manifest" \notin OpenTables
  BY DEF OpenTables
<1> QED
  BY <1>2, <1>3, <1>4, <1>5, <1>6, <1>7

LEMMA ListOpenKeeps ==
  ASSUME RegistryInv, NEW h \in Handlers, ListOpen(h) PROVE RegistryInv'
<1> DEFINE found == {r \in named : r.table = serving[h].table}
<1>1. /\ serving[h].at = "read" /\ serving[h].op = "list" /\ serving[h].table \in OpenTables
      /\ UNCHANGED <<kept, appended, named>> /\ Shaped(serving[h]) /\ DOMAIN serving = Handlers
  BY DEF ListOpen, ServingAt, RegistryInv
<1>2. \/ /\ serving' = [serving EXCEPT ![h].at = "done", ![h].answer = "ok", ![h].read = found]
         /\ outages' = outages
      \/ ServingFails(h) /\ (Outage \/ outages' = outages)
  BY DEF ListOpen
<1> HIDE DEF found
<1>3. CASE ServingFails(h) /\ (Outage \/ outages' = outages)
  BY <1>1, <1>3, RequestFails
<1>4. CASE /\ serving' = [serving EXCEPT ![h].at = "done", ![h].answer = "ok", ![h].read = found]
           /\ outages' = outages
  <2>1. Answered(h, "ok", found, serving[h].whole)
    BY <1>1, <1>4 DEF Answered, Shaped
  <2>2. serving[h].whole \in BOOLEAN
    BY <1>1 DEF Shaped
  <2>3. Fitting(serving[h], found, serving[h].whole)
    BY <1>1 DEF Fitting, OpenTables, Appends
  <2> QED
    BY <1>1, <1>4, <2>1, <2>2, <2>3, OkKeeps
<1> QED
  BY <1>2, <1>3, <1>4

LEMMA ListAppendedKeeps ==
  ASSUME RegistryInv, NEW h \in Handlers, ListAppended(h) PROVE RegistryInv'
<1> DEFINE found == {r \in appended : r.table = serving[h].table}
<1>1. /\ serving[h].at = "read" /\ serving[h].op = "list" /\ serving[h].table \in Appends
      /\ UNCHANGED <<kept, appended, named>> /\ Shaped(serving[h]) /\ DOMAIN serving = Handlers
  BY DEF ListAppended, ServingAt, RegistryInv
<1>2. \/ /\ serving' = [serving EXCEPT ![h].at = "filter", ![h].read = found]
         /\ outages' = outages
      \/ ServingFails(h) /\ (Outage \/ outages' = outages)
  BY DEF ListAppended
<1>3. CASE ServingFails(h) /\ (Outage \/ outages' = outages)
  BY <1>1, <1>3, RequestFails
<1>4. CASE /\ serving' = [serving EXCEPT ![h].at = "filter", ![h].read = found]
           /\ outages' = outages
  <2>1. Stored(appended, serving, kept, outages) /\ Listing(serving[h], serving, kept, outages)
    BY DEF RegistryInv
  <2>2. Traced(found, serving)
    BY <2>1 DEF Stored, Traced
  <2>3. ASSUME Whole(kept, outages) PROVE Covers(found, serving[h].known)
    <3>1. serving[h].known \subseteq AckedFor(serving, serving[h].table)
      BY <1>1, <2>1 DEF Listing
    <3>2. Covers(appended, AckedFor(serving, serving[h].table))
      BY <1>1, <2>1, <2>3 DEF Stored
    <3>3. \A r \in appended : serving[r.by].table = r.table
      BY <2>1 DEF Stored, Traced, Acked
    <3>4. \A g \in AckedFor(serving, serving[h].table) : serving[g].table = serving[h].table
      BY DEF AckedFor, Acked
    <3> QED
      BY <3>1, <3>2, <3>3, <3>4 DEF Covers
  <2> HIDE DEF found
  <2>4. serving' = [serving EXCEPT ![h] = [serving[h] EXCEPT !.at = "filter", !.read = found]]
    BY <1>1, <1>4 DEF Shaped
  <2> QED
    BY <1>1, <1>4, <2>2, <2>3, <2>4, ReadKeeps
<1> QED
  BY <1>2, <1>3, <1>4

LEMMA CheckManifestKeeps ==
  ASSUME RegistryInv, NEW h \in Handlers, CheckManifest(h) PROVE RegistryInv'
<1>1. /\ serving[h].at = "filter" /\ serving[h].op = "get"
      /\ UNCHANGED <<kept, appended, named>> /\ Shaped(serving[h]) /\ DOMAIN serving = Handlers
  BY DEF CheckManifest, ServingAt, RegistryInv
<1>2. \/ /\ \A r \in serving[h].read : Owned(r.sess, serving[h].who)
         /\ ServingAnswers(h, "ok") /\ outages' = outages
      \/ ServingFails(h) /\ (Outage \/ outages' = outages)
  BY DEF CheckManifest
<1>3. CASE ServingFails(h) /\ (Outage \/ outages' = outages)
  BY <1>1, <1>3, RequestFails
<1>4. CASE /\ \A r \in serving[h].read : Owned(r.sess, serving[h].who)
           /\ ServingAnswers(h, "ok") /\ outages' = outages
  <2>1. Answered(h, "ok", serving[h].read, serving[h].whole)
    BY <1>1, <1>4 DEF Answered, ServingAnswers, Shaped
  <2>2. serving[h].whole \in BOOLEAN
    BY <1>1 DEF Shaped
  <2>3. Fitting(serving[h], serving[h].read, serving[h].whole)
    BY <1>1, <1>4 DEF Fitting
  <2> QED
    BY <1>1, <1>4, <2>1, <2>2, <2>3, OkKeeps
<1> QED
  BY <1>2, <1>3, <1>4

LEMMA FilterKeeps ==
  ASSUME RegistryInv, NEW h \in Handlers, Filter(h) PROVE RegistryInv'
<1>1. /\ serving[h].at = "filter" /\ serving[h].op = "list"
      /\ UNCHANGED <<kept, appended, named>> /\ Shaped(serving[h]) /\ DOMAIN serving = Handlers
  BY DEF Filter, ServingAt, RegistryInv
<1>2. PICK failed \in {{}} \cup {{s} : s \in IF serving[h].who = Operator THEN {} ELSE RecordSessions} :
         /\ IF failed = {} THEN UNCHANGED outages ELSE Outage
         /\ serving' = [serving EXCEPT ![h].at = "done", ![h].answer = "ok",
                ![h].whole = (failed = {}),
                ![h].read = {r \in @ : r.sess \notin failed /\ Owned(r.sess, serving[h].who)}]
  BY ZenonT(60) DEF Filter
<1> DEFINE visible == {r \in serving[h].read : r.sess \notin failed /\ Owned(r.sess, serving[h].who)}
           whole == failed = {}
<1>3. Answered(h, "ok", visible, whole)
  BY <1>1, <1>2 DEF Answered, Shaped
<1>4. whole \in BOOLEAN
  OBVIOUS
<1>5. Fitting(serving[h], visible, whole)
  <2>1. \A r \in visible : Owned(r.sess, serving[h].who)
    OBVIOUS
  <2>2. ASSUME whole, Whole(kept, outages), NEW g \in serving[h].known,
               Owned(serving[g].sess, serving[h].who)
        PROVE  \E r \in visible : Posted(serving, r, g) /\ {p \in visible : p.by = g} = {r}
    <3>1. Traced(serving[h].read, serving) /\ Covers(serving[h].read, serving[h].known)
      BY <1>1, <2>2 DEF RegistryInv, Listing
    <3>2. PICK r \in serving[h].read : r.by = g
      BY <3>1 DEF Covers
    <3>3. Posted(serving, r, g)
      BY <3>1, <3>2 DEF Traced
    <3>4. r \in visible
      BY <2>2, <3>2, <3>3 DEF Posted
    <3>5. \A p \in visible : p.by = g => p = r
      BY <3>1, <3>2 DEF Traced
    <3> QED
      BY <3>2, <3>3, <3>4, <3>5
  <2> HIDE DEF visible, whole
  <2> QED
    BY <2>1, <2>2 DEF Fitting
<1> HIDE DEF visible, whole
<1> QED
  BY <1>1, <1>2, <1>3, <1>4, <1>5, OkKeeps

LEMMA RestartKeeps == ASSUME RegistryInv, RestartRegistry PROVE RegistryInv'
<1>1. /\ outages' \in Nat /\ outages <= outages' /\ outages' # 0 /\ kept' = kept
      /\ outages \in Nat
  BY DEF RestartRegistry, Outage, RegistryInv
<1>2. serving' = [h \in Handlers |->
          IF serving[h].at \in {"idle", "done"} THEN serving[h] ELSE Failed]
  BY DEF RestartRegistry, Failed
<1>3. Frozen(serving, serving') /\ DOMAIN serving' = Handlers
  BY <1>2 DEF Frozen
<1>4. \A h \in Handlers : serving'[h] = serving[h] \/ serving'[h] = Failed
  BY <1>2
<1>5. Whole(kept', outages') => kept /\ Whole(kept, outages)
  BY <1>1 DEF Whole
<1>6. \A h \in Handlers : Shaped(serving'[h]) /\ Reading(serving'[h])
  BY <1>4, FailedIsSound DEF RegistryInv
<1>7. ASSUME NEW h \in Handlers PROVE Listing(serving'[h], serving', kept', outages')
  <2>1. CASE serving'[h] = Failed
    BY <2>1, FailedIsSound
  <2>2. CASE serving'[h] = serving[h]
    <3>1. Listing(serving[h], serving, kept, outages)
      BY DEF RegistryInv
    <3> QED
      BY <2>2, <3>1, <1>3, <1>5, ListingStays
  <2> QED
    BY <1>4, <2>1, <2>2
<1>8. Stored(appended', serving', kept', outages')
  <2>1. Stored(appended, serving, kept, outages)
    BY DEF RegistryInv
  <2>2. appended' = IF kept THEN appended ELSE {}
    BY DEF RestartRegistry
  <2>3. Traced(appended, serving')
    BY <2>1, <1>3, TracedStays DEF Stored
  <2>4. Traced(appended', serving')
    BY <2>2, <2>3 DEF Traced
  <2>5. ASSUME NEW table \in Appends PROVE AckedFor(serving', table) \subseteq AckedFor(serving, table)
    BY <1>4, FailedIsSound DEF AckedFor, Acked
  <2>6. ASSUME Whole(kept', outages'), NEW table \in Appends
        PROVE  Covers(appended', AckedFor(serving', table))
    <3>1. Covers(appended, AckedFor(serving, table)) /\ appended' = appended
      BY <2>1, <2>2, <2>6, <1>5 DEF Stored
    <3> QED
      BY <3>1, <2>5 DEF Covers
  <2> QED
    BY <2>4, <2>6 DEF Stored
<1>9. ASSUME Whole(kept', outages'), NEW h \in Handlers PROVE Registered(serving'[h], named')
  <2>1. named \subseteq named'
    BY <1>5, <1>9 DEF RestartRegistry, Seeded
  <2>2. CASE serving'[h] = Failed
    BY <2>2, FailedIsSound DEF Registered
  <2>3. CASE serving'[h] = serving[h]
    BY <2>1, <2>3, <1>5, <1>9 DEF RegistryInv, Registered
  <2> QED
    BY <1>4, <2>2, <2>3
<1> QED
  BY <1>1, <1>3, <1>6, <1>7, <1>8, <1>9 DEF RegistryInv

LEMMA StepRegistryInv == RegistryInv /\ [RegistryNext]_registryVars => RegistryInv'
<1> SUFFICES ASSUME RegistryInv, [RegistryNext]_registryVars PROVE RegistryInv'
  OBVIOUS
<1>1. ASSUME NEW h \in Handlers, CreateEvidence(h) PROVE RegistryInv'
  <2>1. PICK external \in BOOLEAN, proven \in BOOLEAN :
           Insert(h, Labelled(Record(h), Trust(external, proven)))
    BY <1>1 DEF CreateEvidence
  <2> QED
    BY <1>1, <2>1, InsertKeeps DEF CreateEvidence, ServingAt, Appends
<1>2. ASSUME NEW h \in Handlers, CreateCacheOutcome(h) PROVE RegistryInv'
  BY <1>2, InsertKeeps DEF CreateCacheOutcome, ServingAt, Appends
<1>3. ASSUME NEW h \in Handlers, CreateUseCase(h) \/ CreateWorkflow(h) \/ CreateManifest(h)
      PROVE  RegistryInv'
  BY <1>3, RegisterKeeps DEF CreateUseCase, CreateWorkflow, CreateManifest, ServingAt, Appends
<1>4. CASE UNCHANGED registryVars
  BY <1>4 DEF registryVars, RegistryInv, Stored, Whole
<1> QED
  BY <1>1, <1>2, <1>3, <1>4, ArriveKeeps, CheckOwnerKeeps, EchoKeeps, GetNamedKeeps, ListOpenKeeps,
     ListAppendedKeeps, CheckManifestKeeps, FilterKeeps, RestartKeeps DEF RegistryNext

\* Whatever requests arrive and however they interleave, with failing lookups and restarts: a
\* record that was acknowledged is stored and shown as it was posted, to those it belongs to,
\* and no actor is shown a record of another actor's session.
THEOREM NothingLostNothingLeaked == RegistrySpec => []RegistryIsFaithful
<1> QED
  BY InitRegistryInv, StepRegistryInv, InvFaithful, PTL DEF RegistrySpec

-----------------------------------------------------------------------------

(* The ledger of costs for any events, prices and lookups.  The bills are    *)
(* made one event after the other, so each sum and each count grows by what  *)
(* the last bill adds; that the recursive Total is the sum which grew so     *)
(* needs an induction, by the least place where the two would differ.        *)

Sources == {"provider_reported", "pricing_table", "caller_estimated", "unavailable", ""}
Bill    == [source : Sources, amount : Nat]

Positive == Nat \ {0}

ListType ==
    [at : {"idle", "count", "price", "answered"}, events : Seq(Recordable), next : Positive,
     candidate : Positive, lookup : Positive, calls : Nat, tokens : Nat, turns : Nat,
     cost : Nat, source : Sources \cup {"mixed"}]

LedgerTypes ==
    /\ recorded \in Seq(Recordable) /\ list \in ListType /\ bills \in Seq(Bill)
    /\ \A k \in DOMAIN prices : prices[k] \in Nat
    /\ fetched \in Books \cup {NoBook}

\* Where the list is among its events; the tables that stood have the one that stands.
LedgerPlace ==
    /\ list.next = Len(bills) + 1 /\ list.next <= Len(list.events) + 1
    /\ list.at = "idle" => list = NewList
    /\ list.at # "idle" => prices \in stood
    /\ list.at = "price" =>
          /\ list.next <= Len(list.events)
          /\ IsCall(Counted) /\ Counted.reported = 0 /\ Counted.usage # "none"
    /\ list.at = "answered" => list.next > Len(list.events)

Sums(f, b) ==
    /\ f \in [0 .. Len(b) -> Nat] /\ f[0] = 0
    /\ \A n \in 1 .. Len(b) : f[n] = b[n].amount + f[n - 1]

CallsIn(es, n) == {i \in 1 .. n : IsCall(es[i])}
UsedIn(es, n)  == {i \in 1 .. n : IsCall(es[i]) /\ es[i].usage # "none"}
SourcesIn(b)   == {b[i].source : i \in DOMAIN b}

\* The source told of a set of sources.
Told(source, sources) ==
    LET known == sources \ {"", "unavailable"} IN
    /\ source = "mixed" => \E s, r \in known : s # r
    /\ source \in {"", "unavailable"} =>
          known = {} /\ (source = "unavailable" <=> "unavailable" \in sources)
    /\ source \notin {"", "unavailable", "mixed"} => known = {source}

Tallied(l, b) ==
    /\ \E f : Sums(f, b) /\ l.cost = f[Len(b)]
    /\ l.calls = Cardinality(CallsIn(l.events, Len(b)))
    /\ l.tokens = Cardinality(UsedIn(l.events, Len(b)))
    /\ Told(l.source, SourcesIn(b))

LedgerInv ==
    /\ LedgerTypes /\ LedgerPlace
    /\ \A i \in DOMAIN bills : Just(list.events[i], bills[i], stood)
    /\ Tallied(list, bills)

-----------------------------------------------------------------------------
(* What is told of the bills.                                              *)

\* Every set of numbers that has one has a least.
LEMMA LeastNumber ==
  ASSUME NEW T \in SUBSET Nat, T # {}
  PROVE  \E n \in T : \A m \in T : ~ (m < n)
<1> DEFINE R == {ss \in Nat \X Nat : ss[1] < ss[2]}
<1>1. IsWellFoundedOn(R, Nat)
  BY NatLessThanWellFounded DEF OpToRel
<1>2. \A x \in Nat, y \in Nat : y < x => <<y, x>> \in R
  OBVIOUS
<1> HIDE DEF R
<1>3. PICK n \in T : \A m \in T : ~ (<<m, n>> \in R)
  BY <1>1, WFMin, Zenon
<1>4. \A m \in T : ~ (m < n)
  BY <1>2, <1>3
<1> QED
  BY <1>4

\* The recursive total is the sum there is.
LEMMA TotalIsTheSum ==
  ASSUME NEW f, Sums(f, bills), bills \in Seq(Bill) PROVE Total = f
<1> DEFINE N == Len(bills)
           Step(g) == [n \in 0 .. N |-> IF n = 0 THEN 0 ELSE bills[n].amount + g[n - 1]]
<1>1. N \in Nat
  OBVIOUS
<1>2. f = Step(f)
  BY DEF Sums
<1>3. Total = CHOOSE g : g = Step(g)
  BY DEF Total
<1> HIDE DEF Step, N
<1>4. Total = Step(Total)
  BY <1>2, <1>3
<1> DEFINE differing == {n \in 0 .. N : Total[n] # f[n]}
<1>5. differing = {}
  <2> SUFFICES ASSUME differing # {} PROVE FALSE
    OBVIOUS
  <2>0. differing \in SUBSET Nat
    BY <1>1
  <2>1. PICK n \in differing : \A m \in differing : ~ (m < n)
    BY <2>0, LeastNumber
  <2>2. n \in 0 .. N /\ Total[n] # f[n]
    BY <2>1
  <2>3. Total[0] = 0 /\ f[0] = 0
    BY <1>1, <1>2, <1>4 DEF Step
  <2>4. n # 0 /\ n - 1 \in 0 .. N /\ n - 1 < n
    BY <1>1, <2>2, <2>3
  <2>5. Total[n - 1] = f[n - 1]
    BY <2>1, <2>4
  <2>6. Total[n] = bills[n].amount + Total[n - 1] /\ f[n] = bills[n].amount + f[n - 1]
    BY <1>2, <1>4, <2>2, <2>4 DEF Step
  <2> QED
    BY <2>2, <2>5, <2>6
<1>6. Total = [n \in 0 .. N |-> Total[n]] /\ f = [n \in 0 .. N |-> f[n]]
  BY <1>2, <1>4 DEF Step
<1> QED
  BY <1>5, <1>6

LEMMA ToldIsSourceOf ==
  ASSUME NEW sources \in SUBSET Sources, NEW source \in Sources \cup {"mixed"},
         Told(source, sources)
  PROVE  source = SourceOf(sources)
<1> DEFINE known == sources \ {"", "unavailable"}
<1>1. IsFiniteSet(known)
  <2>1. IsFiniteSet({"provider_reported", "pricing_table", "caller_estimated"})
    <3>1. IsFiniteSet({"provider_reported"})
      BY FS_Singleton
    <3>2. IsFiniteSet({"provider_reported"} \cup {"pricing_table"})
      BY <3>1, FS_AddElement
    <3>3. IsFiniteSet(({"provider_reported"} \cup {"pricing_table"}) \cup {"caller_estimated"})
      BY <3>2, FS_AddElement
    <3>4. ({"provider_reported"} \cup {"pricing_table"}) \cup {"caller_estimated"}
            = {"provider_reported", "pricing_table", "caller_estimated"}
      OBVIOUS
    <3> QED
      BY <3>3, <3>4
  <2>2. known \subseteq {"provider_reported", "pricing_table", "caller_estimated"}
    BY DEF Sources
  <2> QED
    BY <2>1, <2>2, FS_Subset
<1>5. SourceOf(sources) =
        IF Cardinality(known) > 1 THEN "mixed"
        ELSE IF known # {} THEN CHOOSE s \in known : TRUE
        ELSE IF "unavailable" \in sources THEN "unavailable" ELSE ""
  BY DEF SourceOf
<1> HIDE DEF known
<1>2. CASE source = "mixed"
  <2>1. PICK s, r \in known : s # r
    BY <1>2 DEF Told, known
  <2>2. Cardinality({s, r}) = 2 /\ {s, r} \subseteq known
    <3>1. {s, r} = {s} \cup {r} /\ IsFiniteSet({s}) /\ Cardinality({s}) = 1
      BY FS_Singleton
    <3> QED
      BY <2>1, <3>1, FS_AddElement
  <2>3. Cardinality(known) >= 2 /\ Cardinality(known) \in Nat
    BY <1>1, <2>2, FS_Subset, FS_CardinalityType
  <2> QED
    <3>1. Cardinality(known) > 1
      BY <2>3
    <3> QED
      BY <1>2, <1>5, <3>1, Zenon
<1>3. CASE source \in {"", "unavailable"}
  <2>1. known = {} /\ (source = "unavailable" <=> "unavailable" \in sources)
    BY <1>3 DEF Told, known
  <2>2. ~ (Cardinality(known) > 1)
    BY <2>1, FS_EmptySet
  <2> QED
    <3>1. source = IF "unavailable" \in sources THEN "unavailable" ELSE ""
      BY <1>3, <2>1
    <3>2. SourceOf(sources) = IF "unavailable" \in sources THEN "unavailable" ELSE ""
      BY <1>5, <2>1, <2>2, Zenon
    <3> QED
      BY <3>1, <3>2
<1>4. CASE source \notin {"", "unavailable", "mixed"}
  <2>1. known = {source}
    BY <1>4 DEF Told, known
  <2>2. Cardinality(known) = 1
    BY <2>1, FS_Singleton
  <2> QED
    BY <1>5, <2>1, <2>2
<1> QED
  BY <1>2, <1>3, <1>4

LEMMA InvCostsOnce == LedgerInv => CostsOnce
<1> SUFFICES ASSUME LedgerInv PROVE CostsOnce
  OBVIOUS
<1>1. bills \in Seq(Bill) /\ list \in ListType /\ DOMAIN bills = 1 .. Len(bills)
      /\ Len(bills) \in Nat /\ Tallied(list, bills)
  BY DEF LedgerInv, LedgerTypes
<1>2. list.cost = Total[Len(bills)]
  BY <1>1, TotalIsTheSum DEF Tallied
<1>3. list.source = SourceOf(SourcesIn(bills))
  <2>1. SourcesIn(bills) \subseteq Sources /\ list.source \in Sources \cup {"mixed"}
    <3>1. \A i \in DOMAIN bills : bills[i] \in Bill
      BY <1>1
    <3> QED
      BY <1>1, <3>1 DEF SourcesIn, Bill, ListType
  <2> QED
    BY <1>1, <2>1, ToldIsSourceOf DEF Tallied
<1>4. \A i \in DOMAIN bills : Billed[i] = list.events[i]
  BY DEF Billed
<1>5. CallsIn(list.events, Len(bills)) = {i \in DOMAIN bills : IsCall(Billed[i])}
  BY <1>1, <1>4 DEF CallsIn
<1>6. UsedIn(list.events, Len(bills))
        = {i \in DOMAIN bills : IsCall(Billed[i]) /\ Billed[i].usage # "none"}
  BY <1>1, <1>4 DEF UsedIn
<1>7. list.at = "answered" => Len(bills) = Len(list.events)
  BY <1>1 DEF LedgerInv, LedgerPlace, ListType
<1>8. \A i \in DOMAIN bills : Just(Billed[i], bills[i], stood)
  BY <1>4 DEF LedgerInv
<1> QED
  BY <1>1, <1>2, <1>3, <1>5, <1>6, <1>7, <1>8 DEF CostsOnce, Tallied, SourcesIn

-----------------------------------------------------------------------------
(* The steps.                                                              *)

\* What a bill adds.
LEMMA SumGrows ==
  ASSUME NEW b \in Seq(Bill), NEW bill \in Bill, NEW f, Sums(f, b)
  PROVE  \E g : Sums(g, Append(b, bill)) /\ g[Len(b) + 1] = f[Len(b)] + bill.amount
<1> DEFINE N == Len(b)
           c == Append(b, bill)
           g == [n \in 0 .. N + 1 |-> IF n = N + 1 THEN f[N] + bill.amount ELSE f[n]]
<1>1. N \in Nat /\ Len(c) = N + 1 /\ c[N + 1] = bill /\ \A n \in 1 .. N : c[n] = b[n]
  OBVIOUS
<1>2. bill.amount \in Nat /\ f \in [0 .. N -> Nat] /\ f[0] = 0
      /\ \A n \in 1 .. N : f[n] = b[n].amount + f[n - 1]
  BY DEF Sums, Bill
<1> HIDE DEF c, N
<1>3. g \in [0 .. N + 1 -> Nat] /\ g[0] = 0 /\ g[N + 1] = f[N] + bill.amount
  BY <1>1, <1>2
<1>4. ASSUME NEW n \in 1 .. N + 1 PROVE g[n] = c[n].amount + g[n - 1]
  <2>1. CASE n = N + 1
    BY <1>1, <1>2, <1>3, <2>1
  <2>2. CASE n # N + 1
    <3>1. n \in 1 .. N /\ n - 1 \in 0 .. N /\ n - 1 # N + 1 /\ n # N + 1
      BY <1>1, <2>2
    <3>2. g[n] = f[n] /\ g[n - 1] = f[n - 1]
      BY <1>1, <3>1
    <3>3. c[n] = b[n] /\ f[n] = b[n].amount + f[n - 1]
      BY <1>1, <1>2, <3>1
    <3> QED
      BY <3>2, <3>3
  <2> QED
    BY <2>1, <2>2
<1> HIDE DEF g
<1> QED
  BY <1>1, <1>3, <1>4 DEF Sums, c, N

LEMMA CountsGrow ==
  ASSUME NEW es, NEW n \in Nat
  PROVE  /\ Cardinality(CallsIn(es, n + 1)) =
               Cardinality(CallsIn(es, n)) + (IF IsCall(es[n + 1]) THEN 1 ELSE 0)
         /\ Cardinality(UsedIn(es, n + 1)) =
               Cardinality(UsedIn(es, n)) +
                  (IF IsCall(es[n + 1]) /\ es[n + 1].usage # "none" THEN 1 ELSE 0)
         /\ Cardinality(CallsIn(es, n)) \in Nat /\ Cardinality(UsedIn(es, n)) \in Nat
<1>1. IsFiniteSet(1 .. n)
  BY FS_Interval
<1>2. IsFiniteSet(CallsIn(es, n)) /\ IsFiniteSet(UsedIn(es, n))
  BY <1>1, FS_Subset DEF CallsIn, UsedIn
<1>3. n + 1 \notin CallsIn(es, n) /\ n + 1 \notin UsedIn(es, n)
  BY DEF CallsIn, UsedIn
<1>4. Cardinality(CallsIn(es, n)) \in Nat /\ Cardinality(UsedIn(es, n)) \in Nat
  BY <1>2, FS_CardinalityType
<1>5. CallsIn(es, n + 1) = IF IsCall(es[n + 1]) THEN CallsIn(es, n) \cup {n + 1} ELSE CallsIn(es, n)
  BY DEF CallsIn
<1>6. UsedIn(es, n + 1) = IF IsCall(es[n + 1]) /\ es[n + 1].usage # "none"
                          THEN UsedIn(es, n) \cup {n + 1} ELSE UsedIn(es, n)
  BY DEF UsedIn
<1>7. Cardinality(CallsIn(es, n) \cup {n + 1}) = Cardinality(CallsIn(es, n)) + 1
  BY <1>2, <1>3, FS_AddElement
<1>8. Cardinality(UsedIn(es, n) \cup {n + 1}) = Cardinality(UsedIn(es, n)) + 1
  BY <1>2, <1>3, FS_AddElement
<1> QED
  BY <1>4, <1>5, <1>6, <1>7, <1>8

LEMMA SourcesGrow ==
  ASSUME NEW b \in Seq(Bill), NEW bill \in Bill
  PROVE  SourcesIn(Append(b, bill)) = SourcesIn(b) \cup {bill.source}
<1> DEFINE c == Append(b, bill)
<1>1. /\ Len(b) \in Nat /\ DOMAIN b = 1 .. Len(b) /\ DOMAIN c = 1 .. Len(b) + 1
      /\ c[Len(b) + 1] = bill /\ \A i \in 1 .. Len(b) : c[i] = b[i]
  OBVIOUS
<1> HIDE DEF c
<1>2. \A i \in DOMAIN c : i = Len(b) + 1 \/ i \in DOMAIN b
  BY <1>1
<1>3. SourcesIn(c) = SourcesIn(b) \cup {bill.source}
  BY <1>1, <1>2 DEF SourcesIn
<1> QED
  BY <1>3 DEF c

\* The source that is told once one more is known, as CountOther and Charge tell it.
LEMMA ToldGrows ==
  ASSUME NEW sources, NEW told \in Sources \cup {"mixed"}, NEW source \in Sources,
         Told(told, sources)
  PROVE  Told(IF source = "unavailable" THEN IF told = "" THEN source ELSE told
              ELSE IF source = "" THEN told ELSE Merged(told, source),
              sources \cup {source})
<1>1. CASE source = ""
  BY <1>1 DEF Told, Sources
<1>2. CASE source = "unavailable"
  BY <1>2 DEF Told, Sources
<1>3. CASE source \notin {"", "unavailable"}
  <2>1. CASE told \in {"", "unavailable", source}
    BY <1>3, <2>1 DEF Told, Sources, Merged
  <2>2. CASE told \notin {"", "unavailable", source}
    <3>1. \E s \in sources \ {"", "unavailable"} : s # source
      BY <1>3, <2>2 DEF Told
    <3> QED
      BY <1>3, <2>2, <3>1 DEF Told, Sources, Merged
  <2> QED
    BY <2>1, <2>2
<1> QED
  BY <1>1, <1>2, <1>3

\* An event is done with, and leaves a bill.
Billing(bill) ==
    /\ list.at \in {"count", "price"} /\ list.next <= Len(list.events)
    /\ bills' = Append(bills, bill)
    /\ UNCHANGED <<prices, fetched, stood>>
    /\ list' \in ListType /\ list'.at = "count" /\ list'.events = list.events
    /\ list'.next = list.next + 1 /\ list'.cost = list.cost + bill.amount
    /\ list'.calls = list.calls + (IF IsCall(Counted) THEN 1 ELSE 0)
    /\ list'.tokens = list.tokens + (IF IsCall(Counted) /\ Counted.usage # "none" THEN 1 ELSE 0)
    /\ list'.source =
          (IF bill.source = "unavailable" THEN IF list.source = "" THEN bill.source ELSE list.source
           ELSE IF bill.source = "" THEN list.source ELSE Merged(list.source, bill.source))
    /\ recorded' = recorded

LEMMA JustStays ==
  ASSUME NEW e, NEW bill, NEW tables, NEW later, Just(e, bill, tables), tables \subseteq later
  PROVE  Just(e, bill, later)
BY DEF Just

LEMMA BillKeeps ==
  ASSUME LedgerInv, NEW bill \in Bill, Billing(bill), Just(Counted, bill, stood) PROVE LedgerInv'
<1> DEFINE N == Len(bills)
<1>0. /\ bills \in Seq(Bill) /\ list \in ListType /\ list.next = N + 1
      /\ bills' = Append(bills, bill)
  BY DEF LedgerInv, LedgerTypes, LedgerPlace, Billing
<1>1. /\ bills \in Seq(Bill) /\ list \in ListType /\ N \in Nat /\ list.next = N + 1
      /\ bills' \in Seq(Bill) /\ Len(bills') = N + 1 /\ DOMAIN bills' = 1 .. N + 1
      /\ DOMAIN bills = 1 .. N /\ bills'[N + 1] = bill /\ \A i \in 1 .. N : bills'[i] = bills[i]
      /\ Counted = list.events[N + 1]
  BY <1>0 DEF Counted
<1> HIDE DEF N
<1>2. LedgerTypes'
  BY <1>1 DEF LedgerInv, LedgerTypes, Billing
<1>3. LedgerPlace'
  <2>1. Len(list.events) \in Nat
    BY <1>1 DEF ListType
  <2>2. list'.at = "count" /\ list'.next = N + 2 /\ list'.next <= Len(list'.events) + 1
    <3>1. /\ list'.at = "count" /\ list'.next = list.next + 1 /\ list.next <= Len(list.events)
          /\ list'.events = list.events
      BY DEF Billing
    <3> QED
      BY <1>1, <2>1, <3>1
  <2>3. prices' \in stood'
    BY DEF LedgerInv, LedgerPlace, Billing
  <2> QED
    BY <1>1, <2>2, <2>3 DEF LedgerPlace
<1>4. \A i \in DOMAIN bills' : Just(list'.events[i], bills'[i], stood')
  <2> SUFFICES ASSUME NEW i \in DOMAIN bills' PROVE Just(list'.events[i], bills'[i], stood')
    OBVIOUS
  <2>1. list'.events = list.events /\ stood' = stood
    BY DEF Billing
  <2>2. CASE i = N + 1
    BY <1>1, <2>1, <2>2
  <2>3. CASE i # N + 1
    <3>1. i \in DOMAIN bills /\ bills'[i] = bills[i]
      BY <1>1, <2>3
    <3>2. Just(list.events[i], bills[i], stood)
      BY <3>1 DEF LedgerInv
    <3> QED
      BY <2>1, <3>1, <3>2
  <2> QED
    BY <2>2, <2>3
<1>5. Tallied(list', bills')
  <2>1. PICK f : Sums(f, bills) /\ list.cost = f[N]
    BY DEF LedgerInv, Tallied, N
  <2>2. \E g : Sums(g, bills') /\ g[N + 1] = f[N] + bill.amount
    BY <1>0, <2>1, SumGrows DEF N
  <2>3. \E g : Sums(g, bills') /\ list'.cost = g[Len(bills')]
    BY <1>1, <2>1, <2>2 DEF Billing
  <2>4. list'.calls = Cardinality(CallsIn(list'.events, Len(bills')))
        /\ list'.tokens = Cardinality(UsedIn(list'.events, Len(bills')))
    <3>1. /\ list.calls = Cardinality(CallsIn(list.events, N))
          /\ list.tokens = Cardinality(UsedIn(list.events, N))
      BY DEF LedgerInv, Tallied, N
    <3>2. /\ list'.events = list.events
          /\ list'.calls = list.calls + (IF IsCall(list.events[N + 1]) THEN 1 ELSE 0)
          /\ list'.tokens = list.tokens + (IF IsCall(list.events[N + 1])
                                              /\ list.events[N + 1].usage # "none" THEN 1 ELSE 0)
      BY <1>1 DEF Billing
    <3>3. /\ Cardinality(CallsIn(list.events, N + 1)) =
                Cardinality(CallsIn(list.events, N)) + (IF IsCall(list.events[N + 1]) THEN 1 ELSE 0)
          /\ Cardinality(UsedIn(list.events, N + 1)) =
                Cardinality(UsedIn(list.events, N)) +
                   (IF IsCall(list.events[N + 1]) /\ list.events[N + 1].usage # "none" THEN 1 ELSE 0)
      BY <1>1, CountsGrow
    <3> QED
      BY <1>1, <3>1, <3>2, <3>3
  <2>5. Told(list'.source, SourcesIn(bills'))
    <3>1. SourcesIn(bills') = SourcesIn(bills) \cup {bill.source}
      BY <1>0, SourcesGrow
    <3>2. list.source \in Sources \cup {"mixed"} /\ bill.source \in Sources
          /\ Told(list.source, SourcesIn(bills))
      BY <1>1 DEF ListType, Bill, LedgerInv, Tallied
    <3> QED
      <4>1. list'.source =
              IF bill.source = "unavailable" THEN IF list.source = "" THEN bill.source ELSE list.source
              ELSE IF bill.source = "" THEN list.source ELSE Merged(list.source, bill.source)
        BY DEF Billing
      <4>2. Told(IF bill.source = "unavailable"
                 THEN IF list.source = "" THEN bill.source ELSE list.source
                 ELSE IF bill.source = "" THEN list.source ELSE Merged(list.source, bill.source),
                 SourcesIn(bills) \cup {bill.source})
        BY <3>2, ToldGrows, Zenon
      <4> QED
        BY <3>1, <4>1, <4>2
  <2> QED
    BY <2>3, <2>4, <2>5 DEF Tallied
<1> QED
  BY <1>2, <1>3, <1>4, <1>5 DEF LedgerInv

LEMMA OneMore == 1 \in Positive /\ \A n \in Positive : n \in Nat /\ n >= 1 /\ n + 1 \in Positive
BY DEF Positive

LEMMA ListFields ==
  ASSUME NEW l \in ListType
  PROVE  /\ l.next \in Positive /\ l.candidate \in Positive /\ l.lookup \in Positive
         /\ l.calls \in Nat /\ l.tokens \in Nat /\ l.turns \in Nat /\ l.cost \in Nat
         /\ l.source \in Sources \cup {"mixed"} /\ l.events \in Seq(Recordable)
         /\ l.at \in {"idle", "count", "price", "answered"}
BY DEF ListType

LEMMA ListCounters ==
  ASSUME NEW l \in ListType, NEW n \in Nat
  PROVE  /\ l.next + 1 \in Positive /\ l.candidate + 1 \in Positive /\ l.lookup + 1 \in Positive
         /\ l.next >= 1 /\ l.candidate >= 1 /\ l.lookup >= 1
         /\ l.next \in Nat /\ l.candidate \in Nat /\ l.lookup \in Nat
         /\ l.calls + 1 \in Nat /\ l.tokens + n \in Nat /\ l.turns + n \in Nat /\ l.cost + n \in Nat
<1>1. /\ l.next \in Positive /\ l.candidate \in Positive /\ l.lookup \in Positive
      /\ l.calls \in Nat /\ l.tokens \in Nat /\ l.turns \in Nat /\ l.cost \in Nat
  BY ListFields
<1> QED
  BY <1>1, OneMore

\* The list goes on without a bill.
Moving ==
    /\ UNCHANGED <<recorded, prices, fetched, stood, bills>>
    /\ list' \in ListType /\ list'.events = list.events /\ list'.next = list.next
    /\ list'.calls = list.calls /\ list'.tokens = list.tokens
    /\ list'.cost = list.cost /\ list'.source = list.source
    /\ \/ /\ list'.at = "price" /\ list.at \in {"count", "price"} /\ list.next <= Len(list.events)
          /\ IsCall(Counted) /\ Counted.reported = 0 /\ Counted.usage # "none"
       \/ list'.at = "answered" /\ list.at = "count" /\ list.next > Len(list.events)

LEMMA MoveKeeps == ASSUME LedgerInv, Moving PROVE LedgerInv'
<1>1. LedgerTypes'
  BY DEF LedgerInv, LedgerTypes, Moving
<1>2. list'.events = list.events /\ list'.next = list.next /\ bills' = bills /\ stood' = stood
      /\ prices' = prices
  BY DEF Moving
<1>3. Counted' = Counted
  BY <1>2 DEF Counted
<1>4. LedgerPlace'
  BY <1>2, <1>3 DEF LedgerInv, LedgerPlace, Moving
<1>5. Tallied(list', bills')
  BY <1>2 DEF LedgerInv, Tallied, Moving
<1>6. \A i \in DOMAIN bills' : Just(list'.events[i], bills'[i], stood')
  BY <1>2 DEF LedgerInv
<1> QED
  BY <1>1, <1>4, <1>5, <1>6 DEF LedgerInv

\* The event that is being counted.
LEMMA CountedIsRecorded ==
  ASSUME LedgerInv, list.next <= Len(list.events)
  PROVE  Counted \in Recordable /\ Counted.reported \in Nat /\ Counted.estimate \in Nat
<1>1. list.events \in Seq(Recordable) /\ list.next \in 1 .. Len(list.events)
  <2>1. list \in ListType
    BY DEF LedgerInv, LedgerTypes
  <2>2. list.events \in Seq(Recordable) /\ list.next \in Nat /\ list.next >= 1
    BY <2>1, ListFields, ListCounters
  <2> QED
    BY <2>2
<1>2. Counted \in Recordable
  BY <1>1 DEF Counted
<1> QED
  BY <1>2, LedgerConstants

LEMMA ChargeKeeps ==
  ASSUME LedgerInv, NEW source \in Sources, NEW amount \in Nat, Charge(source, amount),
         list.at \in {"count", "price"}, list.next <= Len(list.events), IsCall(Counted),
         Just(Counted, [source |-> source, amount |-> amount], stood)
  PROVE  LedgerInv'
<1> DEFINE bill == [source |-> source, amount |-> amount]
<1>1. list \in ListType /\ recorded' = recorded
  BY DEF LedgerInv, LedgerTypes, Charge
<1>2. /\ bills' = Append(bills, bill) /\ UNCHANGED <<prices, fetched, stood>>
      /\ list' = [list EXCEPT
           !.at = "count", !.next = @ + 1, !.candidate = 1, !.lookup = 1,
           !.calls = @ + 1, !.tokens = @ + Tokens(Counted), !.cost = @ + amount,
           !.source = IF source = "unavailable" THEN IF @ = "" THEN source ELSE @
                      ELSE IF source = "" THEN @ ELSE Merged(@, source)]
  BY DEF Charge
<1>3. Merged(list.source, source) \in Sources \cup {"mixed"}
  BY DEF Merged
<1>4. Tokens(Counted) = IF Counted.usage # "none" THEN 1 ELSE 0
  BY DEF Tokens
<1>5. list' \in ListType
  <2> DEFINE told == IF source = "unavailable" THEN IF list.source = "" THEN source ELSE list.source
                     ELSE IF source = "" THEN list.source ELSE Merged(list.source, source)
             tokens == Tokens(Counted)
  <2>1. told \in Sources \cup {"mixed"} /\ tokens \in Nat
    <3>1. list.source \in Sources \cup {"mixed"}
      BY <1>1, ListFields
    <3>2. tokens \in Nat
      BY <1>4
    <3>3. told \in Sources \cup {"mixed"}
      BY <1>3, <3>1
    <3> QED
      BY <3>2, <3>3
  <2> DEFINE next == list.next + 1
             calls == list.calls + 1
             sum == list.tokens + tokens
             cost == list.cost + amount
  <2>2. list' = [list EXCEPT !.at = "count", !.next = next, !.candidate = 1, !.lookup = 1,
                    !.calls = calls, !.tokens = sum, !.cost = cost, !.source = told]
    BY <1>2
  <2>3. next \in Positive /\ calls \in Nat /\ sum \in Nat /\ cost \in Nat
    BY <1>1, <2>1, ListCounters
  <2> HIDE DEF told, tokens, next, calls, sum, cost
  <2> QED
    BY <1>1, <2>1, <2>2, <2>3, OneMore DEF ListType
<1>6. /\ list'.at = "count" /\ list'.events = list.events /\ list'.next = list.next + 1
      /\ list'.cost = list.cost + bill.amount /\ list'.calls = list.calls + 1
      /\ list'.tokens = list.tokens + Tokens(Counted)
      /\ list'.source =
           (IF bill.source = "unavailable" THEN IF list.source = "" THEN bill.source ELSE list.source
            ELSE IF bill.source = "" THEN list.source ELSE Merged(list.source, bill.source))
  BY <1>1, <1>2 DEF ListType
<1>7. Billing(bill)
  BY <1>1, <1>2, <1>4, <1>5, <1>6 DEF Billing
<1>8. bill \in Bill
  BY DEF Bill
<1> QED
  BY <1>7, <1>8, BillKeeps

LEMMA EstimateKeeps ==
  ASSUME LedgerInv, ChargeEstimate, list.at \in {"count", "price"}, list.next <= Len(list.events),
         IsCall(Counted), Counted.reported = 0
  PROVE  LedgerInv'
<1>1. Counted.estimate \in Nat
  BY CountedIsRecorded
<1>2. CASE Counted.estimate > 0
  <2>1. Charge("caller_estimated", Counted.estimate)
    BY <1>2 DEF ChargeEstimate
  <2>2. Just(Counted, [source |-> "caller_estimated", amount |-> Counted.estimate], stood)
    BY DEF Just
  <2> QED
    BY <1>1, <2>1, <2>2, ChargeKeeps DEF Sources
<1>3. CASE ~ (Counted.estimate > 0)
  <2>1. CASE Counted.usage = "none"
    <3>1. Charge("", 0)
      BY <1>3, <2>1 DEF ChargeEstimate
    <3>2. Just(Counted, [source |-> "", amount |-> 0], stood)
      BY DEF Just, IsCall
    <3>3. "" \in Sources /\ 0 \in Nat
      BY DEF Sources
    <3> QED
      BY <3>1, <3>2, <3>3, ChargeKeeps
  <2>2. CASE Counted.usage # "none"
    <3>1. Charge("unavailable", 0)
      BY <1>3, <2>2 DEF ChargeEstimate
    <3>2. Just(Counted, [source |-> "unavailable", amount |-> 0], stood)
      BY <1>1, <1>3 DEF Just
    <3>3. "unavailable" \in Sources /\ 0 \in Nat
      BY DEF Sources
    <3> QED
      BY <3>1, <3>2, <3>3, ChargeKeeps
  <2> QED
    BY <2>1, <2>2
<1> QED
  BY <1>2, <1>3

LEMMA CountCallKeeps == ASSUME LedgerInv, CountCall PROVE LedgerInv'
<1>1. list.at = "count" /\ list.next <= Len(list.events) /\ IsCall(Counted)
  BY DEF CountCall, Counting
<1>2. Counted.reported \in Nat
  BY <1>1, CountedIsRecorded
<1>3. CASE Counted.reported > 0
  <2>1. Charge("provider_reported", Counted.reported)
    BY <1>3 DEF CountCall
  <2>2. Just(Counted, [source |-> "provider_reported", amount |-> Counted.reported], stood)
    BY DEF Just
  <2> QED
    BY <1>1, <1>2, <2>1, <2>2, ChargeKeeps DEF Sources
<1>4. CASE ~ (Counted.reported > 0) /\ Counted.usage = "none"
  <2>1. ChargeEstimate /\ Counted.reported = 0
    BY <1>2, <1>4 DEF CountCall
  <2> QED
    BY <1>1, <2>1, EstimateKeeps
<1>5. CASE ~ (Counted.reported > 0) /\ Counted.usage # "none"
  <2>1. /\ list' = [list EXCEPT !.at = "price"] /\ Counted.reported = 0
        /\ UNCHANGED <<recorded, prices, fetched, stood, bills>>
    BY <1>2, <1>5 DEF CountCall
  <2>2. list \in ListType
    BY DEF LedgerInv, LedgerTypes
  <2>3. Moving
    BY <1>1, <1>5, <2>1, <2>2 DEF Moving, ListType
  <2> QED
    BY <2>3, MoveKeeps
<1> QED
  BY <1>3, <1>4, <1>5

LEMMA CountOtherKeeps == ASSUME LedgerInv, CountOther PROVE LedgerInv'
<1> DEFINE amount == IF Counted.type = "created" THEN Counted.estimate ELSE 0
           bill == [source |-> "", amount |-> amount]
           turn == IF Counted.type = "turn" THEN 1 ELSE 0
<1>1. /\ list.at = "count" /\ list.next <= Len(list.events) /\ ~ IsCall(Counted)
      /\ bills' = Append(bills, bill)
      /\ UNCHANGED <<recorded, prices, fetched, stood>>
      /\ list' = [list EXCEPT !.next = @ + 1, !.turns = @ + turn, !.cost = @ + amount]
  BY DEF CountOther, Counting
<1>2. amount \in Nat /\ bill \in Bill
  BY <1>1, CountedIsRecorded DEF Bill, Sources
<1>3. list \in ListType
  BY DEF LedgerInv, LedgerTypes
<1>0. turn \in Nat
  OBVIOUS
<1> HIDE DEF amount, turn
<1>4. list' \in ListType
  <2> DEFINE next == list.next + 1
             turns == list.turns + turn
             cost == list.cost + amount
  <2>1. list' = [list EXCEPT !.next = next, !.turns = turns, !.cost = cost]
    BY <1>1
  <2>2. next \in Positive /\ turns \in Nat /\ cost \in Nat
    BY <1>0, <1>2, <1>3, ListCounters
  <2> HIDE DEF next, turns, cost
  <2> QED
    BY <1>3, <2>1, <2>2 DEF ListType
<1>5. /\ list'.at = "count" /\ list'.events = list.events /\ list'.next = list.next + 1
      /\ list'.cost = list.cost + amount /\ list'.calls = list.calls
      /\ list'.tokens = list.tokens /\ list'.source = list.source
      /\ list.calls = list.calls + 0 /\ list.tokens = list.tokens + 0
  <2>1. list.calls = list.calls + 0 /\ list.tokens = list.tokens + 0
    BY <1>3, ListFields
  <2> QED
    BY <1>1, <1>3, <2>1 DEF ListType
<1>6. Billing(bill)
  BY <1>1, <1>4, <1>5 DEF Billing
<1>7. Just(Counted, bill, stood)
  BY DEF Just, amount
<1> QED
  BY <1>2, <1>6, <1>7, BillKeeps

LEMMA LookUpKeeps == ASSUME LedgerInv, LookUpPrice PROVE LedgerInv'
<1> DEFINE candidates == LookupsOf[Counted.model]
           lookups == candidates[list.candidate]
           key == lookups[list.lookup]
<1>1. /\ list.at = "price" /\ list.next <= Len(list.events) /\ IsCall(Counted)
      /\ Counted.reported = 0 /\ Counted.usage # "none" /\ list \in ListType
      /\ list.candidate <= Len(candidates) /\ prices \in stood
  BY DEF LookUpPrice, LedgerInv, LedgerTypes, LedgerPlace
<1>2. CASE /\ UNCHANGED <<recorded, prices, fetched, stood, bills>>
           /\ \/ list' = [list EXCEPT !.lookup = @ + 1]
              \/ list' = [list EXCEPT !.candidate = @ + 1, !.lookup = 1]
  <2>1. /\ list' \in ListType /\ list'.at = "price" /\ list'.events = list.events
        /\ list'.next = list.next /\ list'.calls = list.calls /\ list'.tokens = list.tokens
        /\ list'.cost = list.cost /\ list'.source = list.source
    <3>1. CASE list' = [list EXCEPT !.lookup = @ + 1]
      <4> DEFINE lookup == list.lookup + 1
      <4>1. list' = [list EXCEPT !.lookup = lookup]
        BY <3>1
      <4>2. lookup \in Positive
        BY <1>1, ListFields, OneMore
      <4> HIDE DEF lookup
      <4> QED
        BY <1>1, <4>1, <4>2 DEF ListType
    <3>2. CASE list' = [list EXCEPT !.candidate = @ + 1, !.lookup = 1]
      <4> DEFINE candidate == list.candidate + 1
      <4>1. list' = [list EXCEPT !.candidate = candidate, !.lookup = 1]
        BY <3>2
      <4>2. candidate \in Positive
        BY <1>1, ListFields, OneMore
      <4> HIDE DEF candidate
      <4> QED
        BY <1>1, <4>1, <4>2, OneMore DEF ListType
    <3> QED
      BY <1>2, <3>1, <3>2
  <2>2. Moving
    BY <1>1, <1>2, <2>1 DEF Moving
  <2> QED
    BY <2>2, MoveKeeps
<1>3. CASE ChargeEstimate
  BY <1>1, <1>3, EstimateKeeps
<1>4. CASE /\ list.lookup <= Len(lookups) /\ key \in DOMAIN prices /\ Priced(key) > 0
           /\ Charge("pricing_table", Priced(key))
  <2>1. Counted \in Recordable
    BY <1>1, CountedIsRecorded
  <2>2. IsList(candidates) /\ \A i \in DOMAIN candidates : IsList(candidates[i])
    BY <2>1, LedgerConstants
  <2>3. list.candidate \in DOMAIN candidates
    <3>1. candidates \in Seq({candidates[i] : i \in DOMAIN candidates})
      BY <2>2 DEF IsList
    <3>2. list.candidate \in Nat /\ list.candidate >= 1
      BY <1>1, ListCounters
    <3> HIDE DEF candidates
    <3> QED
      BY <1>1, <3>1, <3>2
  <2>4. list.lookup \in DOMAIN lookups
    <3>1. lookups \in Seq({lookups[i] : i \in DOMAIN lookups})
      BY <2>2, <2>3 DEF IsList
    <3>2. list.lookup \in Nat /\ list.lookup >= 1
      BY <1>1, ListCounters
    <3> HIDE DEF lookups
    <3> QED
      BY <1>4, <3>1, <3>2
  <2>5. Priced(key) = prices[key] /\ prices[key] \in Nat
    BY <1>4 DEF Priced, LedgerInv, LedgerTypes
  <2> DEFINE looked == UNION {{c[i] : i \in DOMAIN c} : c \in {candidates[j] : j \in DOMAIN candidates}}
  <2>6. key \in looked
    BY <2>3, <2>4
  <2> HIDE DEF key
  <2>7. \E table \in stood, k \in looked : k \in DOMAIN table /\ table[k] = Priced(key)
    BY <1>1, <1>4, <2>5, <2>6
  <2>8. Just(Counted, [source |-> "pricing_table", amount |-> Priced(key)], stood)
    BY <1>1, <2>7 DEF Just
  <2>9. "pricing_table" \in Sources /\ Priced(key) \in Nat
    BY <2>5 DEF Sources
  <2> QED
    BY <1>1, <1>4, <2>8, <2>9, ChargeKeeps
<1> QED
  BY <1>2, <1>3, <1>4 DEF LookUpPrice

LEMMA InitLedgerInv == LedgerInit => LedgerInv
<1> SUFFICES ASSUME LedgerInit PROVE LedgerInv
  OBVIOUS
<1>0. /\ recorded = <<>> /\ bills = <<>> /\ prices = << >> /\ fetched = NoBook /\ list = NewList
  BY DEF LedgerInit
<1>1. /\ Len(bills) = 0 /\ Len(list.events) = 0 /\ DOMAIN bills = {} /\ DOMAIN prices = {}
      /\ list.at = "idle" /\ list.next = 1 /\ list.cost = 0 /\ list.calls = 0 /\ list.tokens = 0
      /\ list.source = ""
  <2>1. list.events = <<>>
    BY <1>0 DEF NewList
  <2>2. \A empty : empty = <<>> => Len(empty) = 0 /\ DOMAIN empty = {}
    OBVIOUS
  <2> QED
    BY <1>0, <2>1, <2>2 DEF NewList
<1>2. LedgerTypes
  <2>1. NewList \in ListType
    BY OneMore DEF ListType, NewList, Sources
  <2>2. \A S : <<>> \in Seq(S)
    OBVIOUS
  <2> QED
    BY <1>0, <1>1, <2>1, <2>2 DEF LedgerTypes
<1>3. LedgerPlace
  <2>1. list = NewList
    BY <1>0
  <2>2. list.next = Len(bills) + 1 /\ list.next <= Len(list.events) + 1
    <3>1. Len(bills) = 0 /\ Len(list.events) = 0 /\ list.next = 1
      BY <1>1, Zenon
    <3> QED
      BY <3>1
  <2> QED
    BY <1>1, <2>1, <2>2 DEF LedgerPlace
<1>4. Tallied(list, bills)
  <2>0. 1 .. 0 = {}
    OBVIOUS
  <2>1. \E f : Sums(f, bills) /\ f[Len(bills)] = 0
    <3> DEFINE f == [n \in 0 .. 0 |-> 0]
    <3>1. f \in [0 .. 0 -> Nat] /\ f[0] = 0
      OBVIOUS
    <3> HIDE DEF f
    <3> QED
      BY <1>1, <2>0, <3>1 DEF Sums
  <2>2. CallsIn(list.events, 0) = {} /\ UsedIn(list.events, 0) = {} /\ SourcesIn(bills) = {}
    BY <1>1, <2>0 DEF CallsIn, UsedIn, SourcesIn
  <2>3. Cardinality({}) = 0
    BY FS_EmptySet
  <2>4. Told("", {})
    BY DEF Told
  <2> QED
    BY <1>1, <2>1, <2>2, <2>3, <2>4 DEF Tallied
<1> QED
  BY <1>1, <1>2, <1>3, <1>4 DEF LedgerInv

\* The log and the prices go on beside the list.
LEMMA StoreKeeps ==
  ASSUME LedgerInv,
         \/ \E e \in Recordable : RecordEvent(e)
         \/ \E book \in Books : FetchPrices(book)
         \/ UpsertModelPricing
  PROVE  LedgerInv'
<1>1. /\ list' = list /\ bills' = bills /\ stood \subseteq stood'
      /\ prices' = prices \/ prices' \in stood'
      /\ prices \in stood /\ prices' = prices => prices' \in stood'
  BY DEF RecordEvent, FetchPrices, UpsertModelPricing
<1>2. recorded' \in Seq(Recordable)
  <2>1. recorded' = recorded \/ \E e \in Recordable : recorded' = Append(recorded, e)
    BY DEF RecordEvent, FetchPrices, UpsertModelPricing
  <2> QED
    BY <2>1 DEF LedgerInv, LedgerTypes
<1>3. fetched' \in Books \cup {NoBook}
  BY DEF RecordEvent, FetchPrices, UpsertModelPricing, LedgerInv, LedgerTypes
<1>4. \A k \in DOMAIN prices' : prices'[k] \in Nat
  <2>1. CASE prices' = prices
    BY <2>1 DEF LedgerInv, LedgerTypes
  <2>2. CASE prices' = Upserted /\ fetched # NoBook
    <3>1. \A k \in DOMAIN fetched : fetched[k] \in Nat
      BY <2>2, LedgerConstants DEF LedgerInv, LedgerTypes
    <3>2. \A k \in DOMAIN prices : prices[k] \in Nat
      BY DEF LedgerInv, LedgerTypes
    <3> QED
      BY <2>2, <3>1, <3>2 DEF Upserted
  <2> QED
    BY <2>1, <2>2 DEF RecordEvent, FetchPrices, UpsertModelPricing
<1>5. LedgerTypes'
  BY <1>1, <1>2, <1>3, <1>4 DEF LedgerInv, LedgerTypes
<1>6. Counted' = Counted
  BY <1>1 DEF Counted
<1>7. LedgerPlace'
  BY <1>1, <1>6 DEF LedgerInv, LedgerPlace
<1>8. \A i \in DOMAIN bills' : Just(list'.events[i], bills'[i], stood')
  BY <1>1, JustStays DEF LedgerInv
<1> QED
  BY <1>1, <1>5, <1>7, <1>8 DEF LedgerInv

LEMMA ReadEventsKeeps == ASSUME LedgerInv, ReadEvents PROVE LedgerInv'
<1>1. /\ list = NewList /\ list' = [NewList EXCEPT !.at = "count", !.events = recorded]
      /\ stood' = {prices} /\ UNCHANGED <<recorded, prices, fetched, bills>>
      /\ recorded \in Seq(Recordable) /\ bills \in Seq(Bill)
  BY DEF ReadEvents, LedgerInv, LedgerTypes, LedgerPlace
<1>2. Len(bills) = 0 /\ DOMAIN bills = {}
  <2>1. Len(bills) + 1 = 1
    BY <1>1 DEF LedgerInv, LedgerPlace, NewList
  <2> QED
    BY <1>1, <2>1
<1>3. /\ list' \in ListType /\ list'.at = "count" /\ list'.next = 1 /\ list'.events = recorded
      /\ list'.cost = list.cost /\ list'.calls = list.calls /\ list'.tokens = list.tokens
      /\ list'.source = list.source
  BY <1>1, OneMore DEF ListType, NewList, Sources
<1>4. LedgerTypes'
  BY <1>1, <1>3 DEF LedgerInv, LedgerTypes
<1>5. LedgerPlace'
  <2>1. Len(recorded) \in Nat
    BY <1>1
  <2> QED
    BY <1>1, <1>2, <1>3, <2>1 DEF LedgerPlace
<1>6. Tallied(list', bills')
  <2>1. CallsIn(recorded, 0) = CallsIn(list.events, 0) /\ UsedIn(recorded, 0) = UsedIn(list.events, 0)
    BY DEF CallsIn, UsedIn
  <2> QED
    BY <1>1, <1>2, <1>3, <2>1 DEF LedgerInv, Tallied
<1> QED
  BY <1>1, <1>2, <1>4, <1>5, <1>6 DEF LedgerInv

LEMMA AnswerKeepsLedger == ASSUME LedgerInv, AnswerList PROVE LedgerInv'
<1>1. /\ list.at = "count" /\ list.next > Len(list.events) /\ list' = [list EXCEPT !.at = "answered"]
      /\ UNCHANGED <<recorded, prices, fetched, stood, bills>> /\ list \in ListType
  BY DEF AnswerList, LedgerInv, LedgerTypes
<1>2. /\ list' \in ListType /\ list'.at = "answered" /\ list'.events = list.events
      /\ list'.next = list.next /\ list'.calls = list.calls /\ list'.tokens = list.tokens
      /\ list'.cost = list.cost /\ list'.source = list.source
  BY <1>1 DEF ListType
<1> QED
  BY <1>1, <1>2, MoveKeeps DEF Moving

LEMMA StepLedgerInv == LedgerInv /\ [LedgerNext]_ledgerVars => LedgerInv'
<1> SUFFICES ASSUME LedgerInv, [LedgerNext]_ledgerVars PROVE LedgerInv'
  OBVIOUS
<1>1. CASE \/ \E e \in Recordable : RecordEvent(e)
           \/ \E book \in Books : FetchPrices(book)
           \/ UpsertModelPricing
  BY <1>1, StoreKeeps
<1>2. CASE ReadEvents
  BY <1>2, ReadEventsKeeps
<1>3. CASE CountOther
  BY <1>3, CountOtherKeeps
<1>4. CASE CountCall
  BY <1>4, CountCallKeeps
<1>5. CASE LookUpPrice
  BY <1>5, LookUpKeeps
<1>6. CASE NoPrice
  <2>1. /\ list.at = "price" /\ ChargeEstimate /\ list.next <= Len(list.events)
        /\ IsCall(Counted) /\ Counted.reported = 0
    BY <1>6 DEF NoPrice, LedgerInv, LedgerPlace
  <2> QED
    BY <2>1, EstimateKeeps
<1>7. CASE AnswerList
  BY <1>7, AnswerKeepsLedger
<1>8. CASE UNCHANGED ledgerVars
  <2>1. /\ list' = list /\ bills' = bills /\ stood' = stood /\ prices' = prices
        /\ fetched' = fetched /\ recorded' = recorded
    BY <1>8 DEF ledgerVars
  <2>2. Counted' = Counted
    BY <2>1 DEF Counted
  <2> QED
    BY <2>1, <2>2 DEF LedgerInv, LedgerTypes, LedgerPlace
<1> QED
  BY <1>1, <1>2, <1>3, <1>4, <1>5, <1>6, <1>7, <1>8 DEF LedgerNext

\* The list of sessions adds each call's cost up once, in whichever order the events come and
\* however the table of prices changes meanwhile, counts the calls and the tokens it was told
\* of, and names the source the costs come from (session_usage.go:32-75), for any events,
\* prices and lookups.
THEOREM EachCallCostsOnce == LedgerSpec => []CostsOnce
<1>1. LedgerInit => LedgerInv
  BY InitLedgerInv
<1>2. LedgerInv /\ [LedgerNext]_ledgerVars => LedgerInv'
  BY StepLedgerInv
<1>3. LedgerInv => CostsOnce
  BY InvCostsOnce
<1> QED
  BY <1>1, <1>2, <1>3, PTL DEF LedgerSpec
=============================================================================
