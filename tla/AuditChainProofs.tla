--------------------------- MODULE AuditChainProofs ---------------------------
(***************************************************************************)
(* The audit chain for every number of processes, calls, restarts and runs  *)
(* of the retention policy, every clock and every timestamp format.  The    *)
(* invariant says nothing of the caches or of the newest event by time: the *)
(* compare-and-append of the store alone makes the chain linear.            *)
(***************************************************************************)
EXTENDS AuditChain, SequenceTheorems, FiniteSetTheorems, TLAPS

StoreInv ==
  /\ table \in Seq(Events) /\ head \in Writers \cup {None}
  /\ pc \in [Writers -> Busy \cup {"idle", "done", "conflict", "failed"}]
  /\ at \in [Writers -> 0 .. MaxTime]
  /\ clock \in 0 .. MaxTime
  /\ ChainIsLinear

(* The head row is what the next event links to, also when there is none.    *)
LEMMA HeadIsCurrent == StoreInv => CurrentHead = head
<1> SUFFICES ASSUME StoreInv, head = None PROVE NewestHash = None
  BY DEF CurrentHead
<1>1. table = <<>>
  <2> SUFFICES ASSUME table # <<>> PROVE FALSE
    OBVIOUS
  <2>1. table[Len(table)] \in Events
    BY DEF StoreInv
  <2> QED
    BY <2>1, ConstantsAssumption DEF StoreInv, ChainIsLinear, Events
<1> QED
  BY <1>1 DEF NewestHash

LEMMA InitStoreInv == Init => StoreInv
  BY ConstantsAssumption DEF Init, StoreInv, ChainIsLinear, VerifyChain, Busy

(* Appending an event that links to the head extends the chain.              *)
LEMMA AppendLinks ==
  ASSUME StoreInv, NEW e \in Events, e.prev = head, table' = Append(table, e), head' = e.id
  PROVE  table' \in Seq(Events) /\ ChainIsLinear'
<1> USE DEF StoreInv, ChainIsLinear
<1>1. table' \in Seq(Events) /\ Len(table') = Len(table) + 1 /\ table' # <<>>
  OBVIOUS
<1>2. table'[Len(table')] = e /\ \A n \in 1 .. Len(table) : table'[n] = table[n]
  OBVIOUS
<1>3. ASSUME NEW n \in DOMAIN table'
      PROVE  table'[n].prev = IF n = 1 THEN None ELSE table'[n - 1].id
  <2>1. CASE n = Len(table')
    BY <1>1, <1>2, <2>1, ConstantsAssumption DEF Events
  <2>2. CASE n # Len(table')
    BY <1>1, <1>2, <2>2 DEF VerifyChain
  <2> QED
    BY <2>1, <2>2
<1> QED
  BY <1>1, <1>2, <1>3 DEF VerifyChain

LEMMA NextStoreInv == StoreInv /\ [Next]_vars => StoreInv'
<1> SUFFICES ASSUME StoreInv, [Next]_vars PROVE StoreInv'
  OBVIOUS
<1> USE ConstantsAssumption DEF store, appender, call, world
<1>1. ASSUME NEW w \in Writers, AppendIfPrev(w) PROVE StoreInv'
  <2> DEFINE e == [id |-> w, at |-> at[w], prev |-> latest[w]]
  <2>1. latest[w] = head
    BY <1>1, HeadIsCurrent DEF AppendIfPrev
  <2>2. e \in Events /\ e.prev = head /\ e.id = w
    BY <2>1 DEF Events, StoreInv
  <2>3. table' = Append(table, e) /\ head' = w
    BY <1>1 DEF AppendIfPrev
  <2>4. table' \in Seq(Events) /\ ChainIsLinear'
    BY <2>2, <2>3, AppendLinks
  <2> QED
    BY <1>1, <2>3, <2>4 DEF AppendIfPrev, StoreInv, Busy
<1>2. CASE ChainRetentionPolicy
  BY <1>2 DEF ChainRetentionPolicy, StoreInv, ChainIsLinear, VerifyChain
<1>3. ASSUME NEW w \in Writers,
             Begin(w) \/ Lock(w) \/ Load(w) \/ Conflict(w) \/ PrevMismatch(w) \/ Return(w) \/ AppendFails(w)
      PROVE  StoreInv'
  BY <1>3 DEF Begin, Lock, Load, LoadLatest, Conflict, PrevMismatch, Return, AppendFails, Unlock,
     StoreInv, ChainIsLinear, VerifyChain, Busy
<1>4. ASSUME NEW p \in Processes, Restart(p) PROVE StoreInv'
  BY <1>4 DEF Restart, StoreInv, ChainIsLinear, VerifyChain, Busy
<1>5. CASE Tick
  BY <1>5 DEF Tick, StoreInv, ChainIsLinear, VerifyChain
<1>6. CASE UNCHANGED vars
  BY <1>6 DEF vars, StoreInv, ChainIsLinear, VerifyChain
<1> QED
  BY <1>1, <1>2, <1>3, <1>4, <1>5, <1>6 DEF Next, Step

LEMMA StoreAlwaysInv == Spec => []StoreInv
  BY InitStoreInv, NextStoreInv, PTL DEF Spec

(* The stored events of a session are one unforked chain that starts with an *)
(* event without predecessor and ends in the head row.                       *)
THEOREM ChainAlwaysLinear == Spec => []ChainIsLinear
<1>1. StoreInv => ChainIsLinear
  BY DEF StoreInv
<1> QED
  BY <1>1, StoreAlwaysInv, PTL

-----------------------------------------------------------------------------
(* The refinement: the commit of AppendIfPrev stores the event, the ends     *)
(* without success refuse theirs, every other step stutters.                 *)
LEMMA LogExtended ==
  ASSUME StoreInv, NEW e \in Events, table' = Append(table, e)
  PROVE  [n \in DOMAIN table' |-> table'[n].id] = Append([n \in DOMAIN table |-> table[n].id], e.id)
  BY DEF StoreInv

(* The calls whose event a restart of p leaves unstored.                     *)
Stopped(p) == {w \in Writers : Home[w] = p /\ pc[w] \in {"waiting", "load", "try"}}

LEMMA InitRefines == Init => Log!Init
  BY DEF Init, Log!Init, Answered

LEMMA StepRefines == StoreInv /\ [Next]_vars => [Log!Next]_<<[n \in DOMAIN table |-> table[n].id], Answered>>
<1> SUFFICES ASSUME StoreInv, [Next]_vars
             PROVE  [Log!Next]_<<[n \in DOMAIN table |-> table[n].id], Answered>>
  OBVIOUS
<1> DEFINE Stutter == UNCHANGED <<[n \in DOMAIN table |-> table[n].id], Answered>>
<1> USE ConstantsAssumption DEF store, appender, call, world
<1>1. ASSUME NEW w \in Writers, AppendIfPrev(w) PROVE Log!Store(w)
  <2> DEFINE e == [id |-> w, at |-> at[w], prev |-> latest[w]]
  <2>1. latest[w] = head
    BY <1>1, HeadIsCurrent DEF AppendIfPrev
  <2>2. e \in Events /\ e.id = w /\ table' = Append(table, e)
    BY <1>1, <2>1 DEF AppendIfPrev, Events, StoreInv
  <2>3. [n \in DOMAIN table' |-> table'[n].id] = Append([n \in DOMAIN table |-> table[n].id], w)
    BY <2>2, LogExtended
  <2>4. Answered[w] = "pending" /\ Answered' = [Answered EXCEPT ![w] = "stored"]
    BY <1>1 DEF AppendIfPrev, Answered, StoreInv
  <2> QED
    BY <2>3, <2>4 DEF Log!Store
<1>2. ASSUME ChainRetentionPolicy PROVE Log!Next
  <2>1. [n \in DOMAIN table |-> table[n].id] # <<>> /\ [n \in DOMAIN table' |-> table'[n].id] = <<>>
    BY <1>2 DEF ChainRetentionPolicy, StoreInv
  <2> QED
    BY <1>2, <2>1 DEF ChainRetentionPolicy, Answered, Log!Purge, Log!Next
<1>3. ASSUME NEW w \in Writers, Conflict(w) \/ AppendFails(w) PROVE Log!Refuse({w})
  BY <1>3 DEF Conflict, AppendFails, Unlock, Answered, Log!Refuse, StoreInv
<1>4. ASSUME NEW w \in Writers, Begin(w) \/ Lock(w) \/ Load(w) \/ PrevMismatch(w) \/ Return(w) PROVE Stutter
  BY <1>4 DEF Begin, Lock, Load, LoadLatest, PrevMismatch, Return, Unlock, Answered, StoreInv
<1>5. ASSUME NEW p \in Processes, Restart(p)
      PROVE  Log!Refuse(Stopped(p))
  BY <1>5 DEF Restart, Stopped, Answered, Log!Refuse, StoreInv, Busy
<1>6. ASSUME Tick \/ UNCHANGED vars PROVE Stutter
  BY <1>6 DEF Tick, vars, Answered
<1>7. ASSUME NEW w \in Writers, Begin(w) \/ Step(w) PROVE Log!Next \/ Stutter
  <2>1. CASE AppendIfPrev(w)
    BY <2>1, <1>1 DEF Log!Next
  <2>2. CASE Conflict(w) \/ AppendFails(w)
    BY <2>2, <1>3 DEF Log!Next
  <2>3. CASE Begin(w) \/ Lock(w) \/ Load(w) \/ PrevMismatch(w) \/ Return(w)
    BY <2>3, <1>4
  <2> HIDE DEF Stutter
  <2> QED
    BY <1>7, <2>1, <2>2, <2>3 DEF Step
<1>8. ASSUME NEW p \in Processes, Restart(p) PROVE Log!Next
  <2>1. Log!Refuse(Stopped(p)) /\ Stopped(p) \in SUBSET Writers
    BY <1>5, <1>8 DEF Stopped
  <2> QED
    BY <2>1 DEF Log!Next, Log!Refuse
<1>9. Log!Next \/ Stutter
  <2> HIDE DEF Stutter
  <2> QED
    BY <1>2, <1>6, <1>7, <1>8 DEF Next
<1> QED
  BY <1>9

(* The chain implements the abstract audit log: events are stored at most    *)
(* once and never after they were refused, and only retention removes any.   *)
THEOREM ChainImplementsLog == Spec => ImplementsLog
  BY InitRefines, StepRefines, StoreAlwaysInv, PTL DEF Spec, ImplementsLog, Log!Spec


-----------------------------------------------------------------------------
(* Calls of Append that do not overlap, and stamps none of whose texts is a  *)
(* prefix of another's.  Rows are then in the order of their stamps, so that *)
(* the newest event by time is the head.  A call may still find its cache    *)
(* out of date, and then its chain purged, but nothing a third time.         *)
TextOrdersTime == \A t, u \in 0 .. MaxTime : ~ TrimmedPrefix(t, u)

CallTypes ==
  /\ cache \in [Processes -> Writers \cup {None}]
  /\ latest \in [Writers -> Writers \cup {None}] /\ attempt \in [Writers -> Nat]

OneCall == \A v, w \in Writers : pc[v] \in Busy /\ pc[w] \in Busy => v = w

InTimeOrder ==
  /\ \A i, j \in DOMAIN table : i < j => table[i].at <= table[j].at
  /\ \A i \in DOMAIN table : table[i].at <= clock
  /\ \A w \in Writers : pc[w] \in Busy => at[w] <= clock /\ \A i \in DOMAIN table : table[i].at <= at[w]

Retries(w) ==
  /\ pc[w] \in {"idle", "waiting"} => attempt[w] = 0
  /\ pc[w] = "load" => attempt[w] < 2 \/ (attempt[w] = 2 /\ table = <<>>)
  /\ pc[w] = "try" =>
       \/ attempt[w] = 0
       \/ attempt[w] = 1 /\ (latest[w] = head \/ table = <<>>)
       \/ attempt[w] = 2 /\ table = <<>> /\ latest[w] = None
  /\ pc[w] # "conflict"

OrderInv == StoreInv /\ CallTypes /\ OneCall /\ InTimeOrder /\ \A w \in Writers : Retries(w)

LEMMA RowsByNumber ==
  ASSUME StoreInv, InTimeOrder, TextOrdersTime, NEW i \in DOMAIN table, NEW j \in DOMAIN table
  PROVE  RowBefore(i, j) <=> i < j
<1>0. table[i] \in Events /\ table[j] \in Events /\ i \in Nat /\ j \in Nat
  BY DEF StoreInv
<1>1. table[i].at \in 0 .. MaxTime /\ table[j].at \in 0 .. MaxTime
  BY <1>0 DEF Events
<1>2. TextBefore(table[i].at, table[j].at) <=> table[i].at < table[j].at
  BY <1>1 DEF TextBefore, TextOrdersTime
<1>3. i < j => table[i].at <= table[j].at
  BY DEF InTimeOrder
<1>4. j < i => table[j].at <= table[i].at
  BY DEF InTimeOrder
<1>5. table[i].at \in Int /\ table[j].at \in Int
  BY <1>1
<1> QED
  BY <1>0, <1>2, <1>3, <1>4, <1>5 DEF RowBefore

(* What latestHash answers is the head.                                      *)
LEMMA NewestIsHead ==
  ASSUME StoreInv, InTimeOrder, TextOrdersTime
  PROVE  NewestHash = head
<1>1. CASE table = <<>>
  BY <1>1 DEF NewestHash, StoreInv, ChainIsLinear
<1>2. CASE table # <<>>
  <2> DEFINE Newest(i) == \A j \in DOMAIN table \ {i} : RowBefore(j, i)
  <2>1. DOMAIN table = 1 .. Len(table) /\ Len(table) \in Nat \ {0}
    BY <1>2 DEF StoreInv
  <2>2. \A i \in DOMAIN table : Newest(i) <=> \A j \in DOMAIN table \ {i} : j < i
    BY RowsByNumber
  <2>3. ASSUME NEW i \in DOMAIN table PROVE Newest(i) <=> i = Len(table)
    <3>1. i = Len(table) => \A j \in DOMAIN table \ {i} : j < i
      BY <2>1
    <3>2. i # Len(table) => Len(table) \in DOMAIN table \ {i} /\ ~ (Len(table) < i)
      BY <2>1
    <3> HIDE DEF Newest
    <3> QED
      BY <2>2, <3>1, <3>2
  <2>4. Len(table) \in DOMAIN table
    BY <2>1
  <2> HIDE DEF Newest
  <2>5. (CHOOSE i \in DOMAIN table : Newest(i)) = Len(table)
    BY <2>3, <2>4
  <2>6. NewestHash = table[Len(table)].id
    BY <1>2, <2>5 DEF NewestHash, Newest
  <2> QED
    BY <1>2, <2>6 DEF StoreInv, ChainIsLinear
<1> QED
  BY <1>1, <1>2

(* Sorting the rows by their stamps leaves them where they are.              *)
LEMMA SortedAlready ==
  ASSUME StoreInv, InTimeOrder, TextOrdersTime
  PROVE  EventsBySession = table
<1> DEFINE Before(i) == {j \in DOMAIN table : RowBefore(j, i)}
<1>1. DOMAIN table = 1 .. Len(table) /\ Len(table) \in Nat
  BY DEF StoreInv
<1>2. ASSUME NEW i \in DOMAIN table PROVE Cardinality(Before(i)) = i - 1
  <2>1. Before(i) = {j \in DOMAIN table : j < i}
    BY <1>2, RowsByNumber
  <2>2. Before(i) = 1 .. (i - 1)
    BY <1>1, <2>1
  <2>3. Cardinality(1 .. (i - 1)) = i - 1
    BY <1>1, FS_Interval
  <2> QED
    BY <2>2, <2>3
<1> HIDE DEF Before
<1>3. ASSUME NEW n \in DOMAIN table
      PROVE  (CHOOSE i \in DOMAIN table : Cardinality(Before(i)) = n - 1) = n
  BY <1>1, <1>2
<1>4. EventsBySession = [n \in DOMAIN table |->
                           table[CHOOSE i \in DOMAIN table : Cardinality(Before(i)) = n - 1]]
  BY DEF EventsBySession, Before
<1>5. table = [n \in DOMAIN table |-> table[n]]
  BY DEF StoreInv
<1> QED
  BY <1>3, <1>4, <1>5

(* A call begins only when no other is in progress.                          *)
LEMMA BeginsAlone ==
  ASSUME MaxInFlight = 1, IsFiniteSet(Writers), NEW w \in Writers, Begin(w)
  PROVE  \A v \in Writers : pc[v] \notin Busy
<1> DEFINE Calling == {v \in Writers : pc[v] \in Busy}
<1>1. IsFiniteSet(Calling)
  BY FS_Subset
<1>2. Cardinality(Calling) < 1
  BY DEF Begin
<1>3. Cardinality(Calling) = 0
  BY <1>1, <1>2, FS_CardinalityType
<1>4. Calling = {}
  BY <1>1, <1>3, FS_EmptySet
<1> QED
  BY <1>4

LEMMA InitOrderInv == Init => OrderInv
<1> SUFFICES ASSUME Init PROVE OrderInv
  OBVIOUS
<1>1. StoreInv
  BY InitStoreInv
<1>2. CallTypes /\ OneCall /\ InTimeOrder
  BY DEF Init, CallTypes, OneCall, InTimeOrder, Busy
<1>3. \A w \in Writers : Retries(w)
  BY DEF Init, Retries
<1> QED
  BY <1>1, <1>2, <1>3 DEF OrderInv

LEMMA NextCallTypes ==
  ASSUME StoreInv, CallTypes, InTimeOrder, TextOrdersTime, [Next]_vars
  PROVE  CallTypes'
<1> USE ConstantsAssumption DEF CallTypes, store, appender, call, world
<1>0. NewestHash \in Writers \cup {None}
  BY NewestIsHead DEF StoreInv
<1>1. ASSUME NEW w \in Writers, Begin(w) \/ Lock(w) \/ Load(w) \/ Conflict(w) PROVE CallTypes'
  BY <1>0, <1>1 DEF Begin, Lock, Load, LoadLatest, Conflict
<1>2. ASSUME NEW w \in Writers, AppendIfPrev(w) \/ PrevMismatch(w) \/ Return(w) \/ AppendFails(w)
      PROVE  CallTypes'
  <2>1. CASE AppendIfPrev(w) \/ AppendFails(w)
    BY <2>1 DEF AppendIfPrev, AppendFails
  <2>2. CASE PrevMismatch(w)
    BY <2>2 DEF PrevMismatch
  <2>3. CASE Return(w)
    <3>1. cache' = [cache EXCEPT ![Home[w]] = w] /\ UNCHANGED <<latest, attempt>>
      BY <2>3 DEF Return
    <3> QED
      BY <3>1
  <2> QED
    BY <1>2, <2>1, <2>2, <2>3
<1>3. ASSUME NEW p \in Processes, Restart(p) PROVE CallTypes'
  BY <1>3 DEF Restart
<1>4. CASE Tick \/ ChainRetentionPolicy \/ UNCHANGED vars
  BY <1>4 DEF Tick, ChainRetentionPolicy, vars
<1> QED
  BY <1>1, <1>2, <1>3, <1>4 DEF Next, Step

LEMMA NextOneCall ==
  ASSUME MaxInFlight = 1, IsFiniteSet(Writers), StoreInv, OneCall, [Next]_vars
  PROVE  OneCall'
<1> USE DEF OneCall, StoreInv, store, appender, call, world
<1>1. ASSUME NEW w \in Writers, Begin(w) PROVE OneCall'
  <2>1. \A v \in Writers : pc[v] \notin Busy
    BY <1>1, BeginsAlone
  <2>2. pc' = [pc EXCEPT ![w] = "waiting"]
    BY <1>1 DEF Begin
  <2> QED
    BY <2>1, <2>2
<1>2. ASSUME NEW w \in Writers, Step(w) PROVE OneCall'
  BY <1>2 DEF Step, Lock, Load, Conflict, AppendIfPrev, PrevMismatch, Return, AppendFails, Unlock, Busy, Holding
<1>3. ASSUME NEW p \in Processes, Restart(p) PROVE OneCall'
  BY <1>3 DEF Restart, Busy
<1>4. CASE Tick \/ ChainRetentionPolicy \/ UNCHANGED vars
  BY <1>4 DEF Tick, ChainRetentionPolicy, vars
<1> QED
  BY <1>1, <1>2, <1>3, <1>4 DEF Next

LEMMA NextInTimeOrder ==
  ASSUME MaxInFlight = 1, IsFiniteSet(Writers), StoreInv, OneCall, InTimeOrder, [Next]_vars
  PROVE  InTimeOrder'
<1> USE DEF store, appender, call, world
<1>0. clock \in Nat /\ (\A w \in Writers : at[w] \in Nat) /\ (\A i \in DOMAIN table : table[i].at \in Nat)
  <2>1. clock \in Nat /\ (\A w \in Writers : at[w] \in Nat)
    BY DEF StoreInv
  <2>2. ASSUME NEW i \in DOMAIN table PROVE table[i].at \in Nat
    <3>1. table[i] \in Events
      BY DEF StoreInv
    <3> QED
      BY <3>1 DEF Events
  <2> QED
    BY <2>1, <2>2
<1>1. ASSUME NEW w \in Writers, Begin(w) PROVE InTimeOrder'
  BY <1>0, <1>1 DEF Begin, InTimeOrder, StoreInv, Busy
<1>2. ASSUME NEW w \in Writers, AppendIfPrev(w) PROVE InTimeOrder'
  <2> DEFINE e == [id |-> w, at |-> at[w], prev |-> latest[w]]
  <2>1. /\ table' = Append(table, e) /\ UNCHANGED <<at, clock>>
        /\ pc[w] = "try" /\ pc' = [pc EXCEPT ![w] = "committed"]
    BY <1>2 DEF AppendIfPrev
  <2>2. e.at = at[w]
    OBVIOUS
  <2> HIDE DEF e
  <2>3. /\ DOMAIN table' = 1 .. (Len(table) + 1) /\ DOMAIN table = 1 .. Len(table) /\ Len(table) \in Nat
        /\ table'[Len(table) + 1] = e /\ \A i \in DOMAIN table : table'[i] = table[i]
    BY <2>1 DEF StoreInv
  <2>4. at[w] <= clock /\ \A i \in DOMAIN table : table[i].at <= at[w]
    BY <2>1 DEF InTimeOrder, Busy
  <2>5. \A v \in Writers : pc'[v] \in Busy => v = w
    BY <2>1 DEF OneCall, Busy, StoreInv
  <2>6. \A i \in DOMAIN table' : table'[i].at <= at[w]
    BY <1>0, <2>2, <2>3, <2>4
  <2>7. \A i, j \in DOMAIN table' : i < j => table'[i].at <= table'[j].at
    <3> SUFFICES ASSUME NEW i \in DOMAIN table', NEW j \in DOMAIN table', i < j
                 PROVE  table'[i].at <= table'[j].at
      OBVIOUS
    <3>1. i \in DOMAIN table
      BY <2>3
    <3>2. CASE j \in DOMAIN table
      BY <2>3, <3>1, <3>2 DEF InTimeOrder
    <3>3. CASE j \notin DOMAIN table
      <4>1. j = Len(table) + 1
        BY <2>3, <3>3
      <4> QED
        BY <2>2, <2>3, <2>4, <3>1, <4>1
    <3> QED
      BY <3>2, <3>3
  <2>8. \A i \in DOMAIN table' : table'[i].at <= clock'
    <3> SUFFICES ASSUME NEW i \in DOMAIN table' PROVE table'[i].at <= clock
      BY <2>1
    <3>1. table'[i].at \in Nat
      BY <1>0, <2>2, <2>3
    <3> QED
      BY <1>0, <2>4, <2>6, <3>1
  <2> QED
    BY <2>1, <2>4, <2>5, <2>6, <2>7, <2>8 DEF InTimeOrder
<1>3. CASE ChainRetentionPolicy
  BY <1>3 DEF ChainRetentionPolicy, InTimeOrder
<1>4. ASSUME NEW w \in Writers,
             Lock(w) \/ Load(w) \/ Conflict(w) \/ PrevMismatch(w) \/ Return(w) \/ AppendFails(w)
      PROVE  InTimeOrder'
  BY <1>4 DEF Lock, Load, Conflict, PrevMismatch, Return, AppendFails, Unlock, InTimeOrder, StoreInv, Busy, Holding
<1>5. ASSUME NEW p \in Processes, Restart(p) PROVE InTimeOrder'
  BY <1>5 DEF Restart, InTimeOrder, Busy
<1>6. CASE Tick
  BY <1>0, <1>6 DEF Tick, InTimeOrder
<1>7. CASE UNCHANGED vars
  BY <1>7 DEF vars, InTimeOrder
<1> QED
  BY <1>1, <1>2, <1>3, <1>4, <1>5, <1>6, <1>7 DEF Next, Step

LEMMA NextRetries ==
  ASSUME MaxInFlight = 1, IsFiniteSet(Writers), TextOrdersTime, OrderInv, [Next]_vars
  PROVE  \A w \in Writers : Retries(w)'
<1> SUFFICES ASSUME NEW w \in Writers PROVE Retries(w)'
  OBVIOUS
<1> USE DEF store, appender, call, world
<1>0. /\ Retries(w) /\ StoreInv /\ CurrentHead = head /\ NewestHash = head /\ None \notin Writers /\ CallTypes
      /\ head = IF table = <<>> THEN None ELSE table[Len(table)].id
  BY HeadIsCurrent, NewestIsHead, ConstantsAssumption DEF OrderInv, StoreInv, ChainIsLinear
<1>1. ASSUME NEW v \in Writers, Begin(v) PROVE Retries(w)'
  BY <1>0, <1>1 DEF Begin, Retries, StoreInv
<1>2. ASSUME NEW v \in Writers, Lock(v) PROVE Retries(w)'
  <2>1. /\ UNCHANGED <<table, head, attempt>> /\ pc[v] = "waiting"
        /\ pc' = [pc EXCEPT ![v] = IF cache[Home[v]] = None THEN "load" ELSE "try"]
        /\ w # v => latest'[w] = latest[w]
    BY <1>0, <1>2 DEF Lock
  <2>2. CASE w = v
    BY <1>0, <2>1, <2>2 DEF Retries, StoreInv
  <2>3. CASE w # v
    BY <1>0, <2>1, <2>3 DEF Retries, StoreInv
  <2> QED
    BY <2>2, <2>3
<1>3. ASSUME NEW v \in Writers, Return(v) \/ AppendFails(v) PROVE Retries(w)'
  BY <1>0, <1>3 DEF Return, AppendFails, Unlock, Retries, StoreInv
<1>4. ASSUME NEW v \in Writers, Load(v) PROVE Retries(w)'
  <2>1. /\ latest' = [latest EXCEPT ![v] = head] /\ UNCHANGED <<table, head, attempt>>
        /\ pc[v] = "load" /\ pc' = [pc EXCEPT ![v] = "try"]
    BY <1>0, <1>4 DEF Load, LoadLatest
  <2>2. CASE w = v
    <3>1. /\ latest'[w] = head /\ pc'[w] = "try" /\ attempt'[w] = attempt[w] /\ attempt[w] \in Nat
          /\ attempt[w] < 2 \/ (attempt[w] = 2 /\ table = <<>>)
      BY <1>0, <2>1, <2>2 DEF Retries, StoreInv, CallTypes
    <3>2. attempt[w] = 0 \/ attempt[w] = 1 \/ (attempt[w] = 2 /\ table = <<>>)
      BY <3>1
    <3> QED
      BY <1>0, <2>1, <3>1, <3>2 DEF Retries
  <2>3. CASE w # v
    BY <1>0, <2>1, <2>3 DEF Retries, StoreInv, CallTypes
  <2> QED
    BY <2>2, <2>3
<1>5. ASSUME NEW v \in Writers, Conflict(v) PROVE Retries(w)'
  <2>1. Retries(v) /\ pc[v] = "load" /\ attempt[v] = 3
    BY <1>5 DEF OrderInv, Conflict, Attempts
  <2> QED
    BY <2>1 DEF Retries
<1>6. ASSUME NEW v \in Writers, AppendIfPrev(v) PROVE Retries(w)'
  <2>1. w # v => pc[w] \notin Busy
    BY <1>6 DEF AppendIfPrev, OrderInv, OneCall, Busy
  <2> QED
    BY <1>0, <1>6, <2>1 DEF AppendIfPrev, Retries, StoreInv, Busy
<1>7. ASSUME NEW v \in Writers, PrevMismatch(v) PROVE Retries(w)'
  <2>1. Retries(v)
    BY DEF OrderInv
  <2> QED
    BY <1>0, <1>7, <2>1 DEF PrevMismatch, Retries, StoreInv, CallTypes
<1>8. ASSUME NEW p \in Processes, Restart(p) PROVE Retries(w)'
  BY <1>0, <1>8 DEF Restart, Retries, Busy
<1>9. CASE ChainRetentionPolicy
  BY <1>0, <1>9 DEF ChainRetentionPolicy, Retries
<1>10. CASE Tick \/ UNCHANGED vars
  BY <1>0, <1>10 DEF Tick, vars, Retries
<1> QED
  BY <1>1, <1>2, <1>3, <1>4, <1>5, <1>6, <1>7, <1>8, <1>9, <1>10 DEF Next, Step

LEMMA OrderAlways ==
  ASSUME MaxInFlight = 1, IsFiniteSet(Writers), TextOrdersTime
  PROVE  Spec => []OrderInv
<1>1. Init => OrderInv
  BY InitOrderInv
<1>2. OrderInv /\ [Next]_vars => OrderInv'
  BY NextStoreInv, NextCallTypes, NextOneCall, NextInTimeOrder, NextRetries DEF OrderInv
<1> QED
  BY <1>1, <1>2, PTL DEF Spec

(* As long as calls do not overlap and the texts of stamps order as their    *)
(* times, VerifyChain accepts the events in the order its callers give them, *)
(* by recorded_at, whatever fails, restarts or is purged.                    *)
THEOREM ChainAlwaysVerifies ==
  ASSUME MaxInFlight = 1, IsFiniteSet(Writers), TextOrdersTime
  PROVE  Spec => []ChainVerifies
<1>1. OrderInv => ChainVerifies
  BY SortedAlready DEF OrderInv, StoreInv, ChainIsLinear, ChainVerifies
<1> QED
  BY <1>1, OrderAlways, PTL

(* And then no call gives up for a conflict that no other process caused:    *)
(* its cache can be out of date once and its chain purged once.              *)
THEOREM ConflictAlwaysNeedsRival ==
  ASSUME MaxInFlight = 1, IsFiniteSet(Writers), TextOrdersTime
  PROVE  Spec => []ConflictNeedsRival
<1>1. OrderInv => ConflictNeedsRival
  BY DEF OrderInv, Retries, ConflictNeedsRival
<1> QED
  BY <1>1, OrderAlways, PTL
===============================================================================
