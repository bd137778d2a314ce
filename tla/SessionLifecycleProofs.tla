------------------------ MODULE SessionLifecycleProofs ------------------------
(***************************************************************************)
(* The safety of one session for every number of requests and agents, every *)
(* choice of faults and every bound.  Each invariant is inductive together  *)
(* with TypeOK; a step lemma has one case for each group of actions of the  *)
(* specification, and the theorem after it applies the lemma to behaviours. *)
(***************************************************************************)
EXTENDS SessionLifecycle, FiniteSetTheorems, TLAPS

LEMMA InitTypeOK == Init => TypeOK
<1>1. "none" \in Status /\ "idle" \in Labels /\ "none" \in Phases
  BY DEF Status, Labels, Phases
<1>2. Init => /\ status \in Status /\ routedAgent \in Agents \cup {None} /\ audit \subseteq EventTypes \X Requests
              /\ prompt \in Requests \cup {None} /\ canceler \in Requests \cup {None}
              /\ stream \in {"open", "closed"}
  BY <1>1 DEF Init
<1>3. Init => /\ pc \in [Requests -> Labels] /\ agent \in [Requests -> Agents \cup {None}]
              /\ carried \in [Requests -> Requests \cup {None}] /\ seen \in [Requests -> Status]
              /\ exec \in [Requests -> Phases]
              /\ ctx \in [Requests -> {"live", "abort", "timeout", "swept"}]
  BY <1>1 DEF Init
<1>4. Init => selection \subseteq Requests \X Agents
  BY DEF Init
<1>5. Init => lost \in BOOLEAN
  BY DEF Init
<1>6. Init => crashes \in 0 .. MaxCrashes
  BY ConstantsAssumption DEF Init
<1> QED
  BY <1>2, <1>3, <1>4, <1>5, <1>6 DEF TypeOK

(* A step is one of these.                                                   *)
LEMMA NextCases ==
  [Next]_vars =>
    \/ \E r \in Requests :
         \/ Arrivals(r) \/ CreateStep(r) \/ MessagesStep(r) \/ ConfirmStep(r)
         \/ RunStep(r) \/ TurnStep(r) \/ AbortStep(r) \/ Execute(r)
    \/ Environment
    \/ UNCHANGED vars
  BY DEF Next, Handle

LEMMA NextTypeOK == TypeOK /\ [Next]_vars => TypeOK'
<1> SUFFICES ASSUME TypeOK, [Next]_vars PROVE TypeOK'
  OBVIOUS
<1> USE ConstantsAssumption DEF TypeOK, Labels, Status, Phases, Unsettled, Settled, EventTypes,
    durable, memory, locals, runs, history, Goto, Fails, Record
<1>1. ASSUME NEW r \in Requests, Arrivals(r) PROVE TypeOK'
  BY <1>1 DEF Arrivals, Arrive, CreateAudit, ArriveMessages, ArriveConfirm, ArriveTurn, ArriveAbort
<1>2. ASSUME NEW r \in Requests, CreateStep(r) PROVE TypeOK'
  BY <1>2 DEF CreateStep, CreateStore, CreateStoreFails, CreateRemember
<1>3. ASSUME NEW r \in Requests, MessagesStep(r) PROVE TypeOK'
  BY <1>3 DEF MessagesStep, Route, SetAgent, SetStatus, AuditSelected, Remember, MessagesFails
<1>4. ASSUME NEW r \in Requests, ConfirmStep(r) PROVE TypeOK'
  <2>1. CASE ConfirmGet(r) \/ ConfirmRefused(r) \/ Accept(r) \/ AuditConfirmedFails(r) \/ CommitRefused(r)
    BY <2>1 DEF ConfirmGet, ConfirmRefused, Accept, AuditConfirmedFails, CommitRefused
  <2>2. CASE ConfirmClaim(r) \/ Reset(r) \/ Commit(r)
    BY <2>2 DEF ConfirmClaim, Reset, Commit, CompareAndSwapStatus
  <2>3. CASE AuditConfirmed(r)
    BY <2>3 DEF AuditConfirmed
  <2>4. CASE ConfirmStranded(r)
    BY <2>4 DEF ConfirmStranded
  <2> HIDE DEF TypeOK
  <2> QED
    BY <1>4, <2>1, <2>2, <2>3, <2>4 DEF ConfirmStep
<1>5. ASSUME NEW r \in Requests, RunStep(r) PROVE TypeOK'
  <2>1. CASE Forget(r) \/ Register(r)
    BY <2>1 DEF Forget, Register
  <2>2. CASE SetRunning(r) \/ SetRunningFails(r)
    BY <2>2 DEF SetRunning, SetRunningFails
  <2> HIDE DEF TypeOK
  <2> QED
    BY <1>5, <2>1, <2>2 DEF RunStep
<1>6. ASSUME NEW r \in Requests, TurnStep(r) PROVE TypeOK'
  BY <1>6 DEF TurnStep, TurnReopen, TurnRemember, TurnRoute, AuditTurn, TurnSetAgent,
     TurnSetStatus, TurnAccept, AuditTurnConfirmed, TurnFails
<1>7. ASSUME NEW r \in Requests, AbortStep(r) PROVE TypeOK'
  BY <1>7 DEF AbortStep, AuditAborted, AbortCommit, AbortRefused, AbortCancel, AbortClose,
     CompareAndSwapStatus, CancelExecution
<1>8. ASSUME NEW x \in Requests, Execute(x) PROVE TypeOK'
  <2> USE DEF Advance
  <2>1. CASE ExecStart(x) \/ ExecDispatched(x) \/ ExecDispatchFails(x) \/ ExecDoneAudit(x)
    BY <2>1 DEF ExecStart, ExecDispatched, ExecDispatchFails, ExecDoneAudit
  <2>2. CASE ExecFailAudit(x) \/ ExecDenyAudit(x)
    BY <2>2 DEF ExecFailAudit, ExecDenyAudit, RecordIfLive
  <2>3. CASE ExecCloseFailed(x) \/ ExecPublishDone(x)
    BY <2>3 DEF ExecCloseFailed, ExecPublishDone
  <2>4. CASE ExecFailStatus(x) \/ ExecDenyStatus(x) \/ ExecDoneStatus(x)
    <3>1. CASE ExecFailStatus(x)
      BY <3>1 DEF ExecFailStatus, ExecSetStatus
    <3>2. CASE ExecDenyStatus(x)
      BY <3>2 DEF ExecDenyStatus, ExecSetStatus
    <3>3. CASE ExecDoneStatus(x)
      BY <3>3 DEF ExecDoneStatus, ExecSetStatus
    <3> HIDE DEF TypeOK
    <3> QED
      BY <2>4, <3>1, <3>2, <3>3
  <2>5. CASE ExecSweep(x)
    BY <2>5 DEF ExecSweep, CancelExecution
  <2> HIDE DEF TypeOK
  <2> QED
    BY <1>8, <2>1, <2>2, <2>3, <2>4, <2>5 DEF Execute
<1>9. ASSUME Environment, ~Crash PROVE TypeOK'
  BY <1>9 DEF Environment, ExecTimeout, PromptExpires, CancelEvicted, LiveExecutions
<1>10. CASE Crash
  <2>1. pc' \in [Requests -> Labels]
    BY <1>10 DEF Crash
  <2>2. exec' \in [Requests -> Phases]
    BY <1>10 DEF Crash
  <2>3. crashes' \in 0 .. MaxCrashes
    BY <1>10 DEF Crash
  <2> QED
    BY <1>10, <2>1, <2>2, <2>3 DEF Crash
<1>11. CASE UNCHANGED vars
  BY <1>11 DEF vars
<1> HIDE DEF TypeOK, Labels, Status, Phases, Unsettled, Settled, EventTypes, durable, memory,
    locals, runs, history, Goto, Fails, Record
<1> QED
  BY NextCases, <1>1, <1>2, <1>3, <1>4, <1>5, <1>6, <1>7, <1>8, <1>9, <1>10, <1>11

(* The session row, the maps and the program counters always hold values of  *)
(* their kinds.                                                              *)
THEOREM TypeCorrect == Spec => []TypeOK
<1>1. Init => TypeOK
  BY InitTypeOK
<1>2. TypeOK /\ [Next]_vars => TypeOK'
  BY NextTypeOK
<1> QED
  BY <1>1, <1>2, PTL DEF Spec

-----------------------------------------------------------------------------
(* The invariant behind ApprovedBeforeRunning also speaks of a confirm that  *)
(* has audited and not yet committed.                                        *)
ApprovalInv ==
  \A r \in Requests :
    /\ pc[r] = "commit" => <<"session.confirmed", r>> \in audit
    /\ exec[r] # "none" \/ pc[r] \in {"forget", "set_running", "register"} =>
         <<"session.confirmed", r>> \in audit \/ <<"session.turn.confirmed", r>> \in audit

LEMMA NextApprovalInv == TypeOK /\ ApprovalInv /\ [Next]_vars => ApprovalInv'
<1> SUFFICES ASSUME TypeOK, ApprovalInv, [Next]_vars PROVE ApprovalInv'
  OBVIOUS
<1> USE DEF ApprovalInv, TypeOK, durable, memory, locals, runs, history, Goto, Fails, Record
<1>1. ASSUME NEW r \in Requests, Arrivals(r) PROVE ApprovalInv'
  BY <1>1 DEF Arrivals, Arrive, CreateAudit, ArriveMessages, ArriveConfirm, ArriveTurn, ArriveAbort
<1>2. ASSUME NEW r \in Requests, CreateStep(r) PROVE ApprovalInv'
  BY <1>2 DEF CreateStep, CreateStore, CreateStoreFails, CreateRemember
<1>3. ASSUME NEW r \in Requests, MessagesStep(r) PROVE ApprovalInv'
  BY <1>3 DEF MessagesStep, Route, SetAgent, SetStatus, AuditSelected, Remember, MessagesFails
<1>4. ASSUME NEW r \in Requests, ConfirmStep(r) PROVE ApprovalInv'
  BY <1>4 DEF ConfirmStep, ConfirmGet, ConfirmClaim, ConfirmRefused, Accept, AuditConfirmed,
     AuditConfirmedFails, Reset, Commit, CommitRefused, ConfirmStranded, CompareAndSwapStatus
<1>5. ASSUME NEW r \in Requests, RunStep(r) PROVE ApprovalInv'
  BY <1>5 DEF RunStep, Forget, SetRunning, SetRunningFails, Register
<1>6. ASSUME NEW r \in Requests, TurnStep(r) PROVE ApprovalInv'
  BY <1>6 DEF TurnStep, TurnReopen, TurnRemember, TurnRoute, AuditTurn, TurnSetAgent,
     TurnSetStatus, TurnAccept, AuditTurnConfirmed, TurnFails
<1>7. ASSUME NEW r \in Requests, AbortStep(r) PROVE ApprovalInv'
  BY <1>7 DEF AbortStep, AuditAborted, AbortCommit, AbortRefused, AbortCancel, AbortClose,
     CompareAndSwapStatus
<1>8. ASSUME NEW x \in Requests, Execute(x) PROVE ApprovalInv'
  BY <1>8 DEF Execute, Advance, ExecSetStatus, RecordIfLive,
     ExecStart, ExecDispatched, ExecDispatchFails, ExecFailStatus, ExecFailAudit, ExecCloseFailed,
     ExecDenyAudit, ExecDenyStatus, ExecPublishDone, ExecDoneStatus, ExecDoneAudit, ExecSweep
<1>9. CASE Environment
  BY <1>9 DEF Environment, ExecTimeout, PromptExpires, CancelEvicted, Crash, InFlight, LiveExecutions,
     Unsettled, Settled
<1>10. CASE UNCHANGED vars
  BY <1>10 DEF vars
<1> HIDE DEF ApprovalInv
<1> QED
  BY NextCases, <1>1, <1>2, <1>3, <1>4, <1>5, <1>6, <1>7, <1>8, <1>9, <1>10

(* Fail closed, for any number of requests, agents, faults and crashes: an   *)
(* execution is running only if its confirmation is in the audit table.      *)
THEOREM ApprovedAlways == Spec => []ApprovedBeforeRunning
<1>1. Init => ApprovalInv
  BY DEF Init, ApprovalInv
<1>2. ApprovalInv => ApprovedBeforeRunning
  BY DEF ApprovalInv, ApprovedBeforeRunning, Approvals
<1> QED
  BY <1>1, <1>2, TypeCorrect, NextApprovalInv, PTL DEF Spec

-----------------------------------------------------------------------------
LEMMA NextTransientHasOwner ==
  TypeOK /\ TransientHasOwner /\ [Next]_vars => TransientHasOwner'
<1> SUFFICES ASSUME TypeOK, TransientHasOwner, [Next]_vars PROVE TransientHasOwner'
  OBVIOUS
<1> USE DEF TransientHasOwner, TypeOK, durable, memory, locals, runs, history, Goto, Fails, Record, Unsettled
<1>1. ASSUME NEW r \in Requests, Arrivals(r) PROVE TransientHasOwner'
  BY <1>1 DEF Arrivals, Arrive, CreateAudit, ArriveMessages, ArriveConfirm, ArriveTurn, ArriveAbort
<1>2. ASSUME NEW r \in Requests, CreateStep(r) PROVE TransientHasOwner'
  BY <1>2 DEF CreateStep, CreateStore, CreateStoreFails, CreateRemember
<1>3. ASSUME NEW r \in Requests, MessagesStep(r) PROVE TransientHasOwner'
  BY <1>3 DEF MessagesStep, Route, SetAgent, SetStatus, AuditSelected, Remember, MessagesFails
<1>4. ASSUME NEW r \in Requests, ConfirmStep(r) PROVE TransientHasOwner'
  BY <1>4 DEF ConfirmStep, ConfirmGet, ConfirmClaim, ConfirmRefused, Accept, AuditConfirmed,
     AuditConfirmedFails, Reset, Commit, CommitRefused, ConfirmStranded, CompareAndSwapStatus
<1>5. ASSUME NEW r \in Requests, RunStep(r) PROVE TransientHasOwner'
  BY <1>5 DEF RunStep, Forget, SetRunning, SetRunningFails, Register
<1>6. ASSUME NEW r \in Requests, TurnStep(r) PROVE TransientHasOwner'
  BY <1>6 DEF TurnStep, TurnReopen, TurnRemember, TurnRoute, AuditTurn, TurnSetAgent,
     TurnSetStatus, TurnAccept, AuditTurnConfirmed, TurnFails
<1>7. ASSUME NEW r \in Requests, AbortStep(r) PROVE TransientHasOwner'
  BY <1>7 DEF AbortStep, AuditAborted, AbortCommit, AbortRefused, AbortCancel, AbortClose,
     CompareAndSwapStatus
<1>8. ASSUME NEW x \in Requests, Execute(x) PROVE TransientHasOwner'
  BY <1>8 DEF Execute, Advance, ExecSetStatus, RecordIfLive,
     ExecStart, ExecDispatched, ExecDispatchFails, ExecFailStatus, ExecFailAudit, ExecCloseFailed,
     ExecDenyAudit, ExecDenyStatus, ExecPublishDone, ExecDoneStatus, ExecDoneAudit, ExecSweep
<1>9. CASE Environment
  BY <1>9 DEF Environment, ExecTimeout, PromptExpires, CancelEvicted, Crash
<1>10. CASE UNCHANGED vars
  BY <1>10 DEF vars
<1> HIDE DEF TransientHasOwner
<1> QED
  BY NextCases, <1>1, <1>2, <1>3, <1>4, <1>5, <1>6, <1>7, <1>8, <1>9, <1>10

(* However requests overlap, a status that no request can leave has someone  *)
(* at work on it unless a status write was lost: the compare-and-swaps hand  *)
(* the claim on and every overwrite moves the row out of those statuses or   *)
(* takes it over.                                                            *)
THEOREM TransientAlwaysOwned == Spec => []TransientHasOwner
<1>1. Init => TransientHasOwner
  BY DEF Init, TransientHasOwner
<1> QED
  BY <1>1, TypeCorrect, NextTransientHasOwner, PTL DEF Spec

-----------------------------------------------------------------------------
LEMMA NextCancelable ==
  TypeOK /\ CancelerIsLive /\ SoleExecutionCancelable /\ [Next]_vars =>
    CancelerIsLive' /\ SoleExecutionCancelable'
<1> SUFFICES ASSUME TypeOK, CancelerIsLive, SoleExecutionCancelable, [Next]_vars
             PROVE  CancelerIsLive' /\ SoleExecutionCancelable'
  OBVIOUS
<1> DEFINE Cancelable == CancelerIsLive /\ SoleExecutionCancelable
<1> USE ConstantsAssumption DEF CancelerIsLive, SoleExecutionCancelable, LiveExecutions, Unsettled, Settled, TypeOK,
    durable, memory, locals, runs, history, Goto, Fails, Record
<1>1. ASSUME NEW r \in Requests, Arrivals(r) PROVE Cancelable'
  BY <1>1 DEF Arrivals, Arrive, CreateAudit, ArriveMessages, ArriveConfirm, ArriveTurn, ArriveAbort
<1>2. ASSUME NEW r \in Requests, CreateStep(r) PROVE Cancelable'
  BY <1>2 DEF CreateStep, CreateStore, CreateStoreFails, CreateRemember
<1>3. ASSUME NEW r \in Requests, MessagesStep(r) PROVE Cancelable'
  BY <1>3 DEF MessagesStep, Route, SetAgent, SetStatus, AuditSelected, Remember, MessagesFails
<1>4. ASSUME NEW r \in Requests, ConfirmStep(r) PROVE Cancelable'
  BY <1>4 DEF ConfirmStep, ConfirmGet, ConfirmClaim, ConfirmRefused, Accept, AuditConfirmed,
     AuditConfirmedFails, Reset, Commit, CommitRefused, ConfirmStranded
<1>5. ASSUME NEW r \in Requests, RunStep(r) PROVE Cancelable'
  BY <1>5 DEF RunStep, Forget, SetRunning, SetRunningFails, Register
<1>6. ASSUME NEW r \in Requests, TurnStep(r) PROVE Cancelable'
  BY <1>6 DEF TurnStep, TurnReopen, TurnRemember, TurnRoute, AuditTurn, TurnSetAgent,
     TurnSetStatus, TurnAccept, AuditTurnConfirmed, TurnFails
<1>7. ASSUME NEW r \in Requests, AbortStep(r) PROVE Cancelable'
  BY <1>7 DEF AbortStep, AuditAborted, AbortCommit, AbortRefused, AbortCancel, AbortClose,
     CancelExecution
<1>8. ASSUME NEW x \in Requests, Execute(x) PROVE Cancelable'
  BY <1>8 DEF Execute, Advance, ExecSetStatus, RecordIfLive, CancelExecution,
     ExecStart, ExecDispatched, ExecDispatchFails, ExecFailStatus, ExecFailAudit, ExecCloseFailed,
     ExecDenyAudit, ExecDenyStatus, ExecPublishDone, ExecDoneStatus, ExecDoneAudit, ExecSweep
<1>9. CASE Environment
  BY <1>9 DEF Environment, ExecTimeout, PromptExpires, CancelEvicted, Crash
<1>10. CASE UNCHANGED vars
  BY <1>10 DEF vars
<1> HIDE DEF CancelerIsLive, SoleExecutionCancelable
<1> QED
  BY NextCases, <1>1, <1>2, <1>3, <1>4, <1>5, <1>6, <1>7, <1>8, <1>9, <1>10

(* The cancel map holds live executions only, and misses none as long as the *)
(* session has started one.                                                  *)
THEOREM AlwaysCancelable == Spec => []CancelerIsLive /\ []SoleExecutionCancelable
<1>1. Init => CancelerIsLive /\ SoleExecutionCancelable
  BY DEF Init, CancelerIsLive, SoleExecutionCancelable, LiveExecutions, Unsettled, Settled
<1> QED
  BY <1>1, TypeCorrect, NextCancelable, PTL DEF Spec

-----------------------------------------------------------------------------
LEMMA NextSealed == TypeOK /\ [Next]_vars => (Sealed => Sealed')
<1> SUFFICES ASSUME TypeOK, Sealed, [Next]_vars PROVE Sealed'
  OBVIOUS
<1> USE DEF Sealed, PastGate, Unsettled, TypeOK, durable, memory, locals, runs, history, Goto, Fails, Record
<1>1. ASSUME NEW r \in Requests, Arrivals(r) PROVE Sealed'
  BY <1>1 DEF Arrivals, Arrive, CreateAudit, ArriveMessages, ArriveConfirm, ArriveTurn, ArriveAbort,
     TurnEligible
<1>2. ASSUME NEW r \in Requests, CreateStep(r) PROVE Sealed'
  BY <1>2 DEF CreateStep, CreateStore, CreateStoreFails, CreateRemember
<1>3. ASSUME NEW r \in Requests, MessagesStep(r) PROVE Sealed'
  BY <1>3 DEF MessagesStep, Route, SetAgent, SetStatus, AuditSelected, Remember, MessagesFails
<1>4. ASSUME NEW r \in Requests, ConfirmStep(r) PROVE Sealed'
  BY <1>4 DEF ConfirmStep, ConfirmGet, ConfirmClaim, ConfirmRefused, Accept, AuditConfirmed,
     AuditConfirmedFails, Reset, Commit, CommitRefused, ConfirmStranded, CompareAndSwapStatus
<1>5. ASSUME NEW r \in Requests, RunStep(r) PROVE Sealed'
  BY <1>5 DEF RunStep, Forget, SetRunning, SetRunningFails, Register
<1>6. ASSUME NEW r \in Requests, TurnStep(r) PROVE Sealed'
  BY <1>6 DEF TurnStep, TurnReopen, TurnRemember, TurnRoute, AuditTurn, TurnSetAgent,
     TurnSetStatus, TurnAccept, AuditTurnConfirmed, TurnFails
<1>7. ASSUME NEW r \in Requests, AbortStep(r) PROVE Sealed'
  BY <1>7 DEF AbortStep, AuditAborted, AbortCommit, AbortRefused, AbortCancel, AbortClose,
     CompareAndSwapStatus
<1>8. ASSUME NEW x \in Requests, Execute(x) PROVE Sealed'
  BY <1>8 DEF Execute, Advance, ExecSetStatus, RecordIfLive,
     ExecStart, ExecDispatched, ExecDispatchFails, ExecFailStatus, ExecFailAudit, ExecCloseFailed,
     ExecDenyAudit, ExecDenyStatus, ExecPublishDone, ExecDoneStatus, ExecDoneAudit, ExecSweep
<1>9. CASE Environment
  BY <1>9 DEF Environment, ExecTimeout, PromptExpires, CancelEvicted, Crash, InFlight, LiveExecutions
<1>10. CASE UNCHANGED vars
  BY <1>10 DEF vars
<1> HIDE DEF Sealed
<1> QED
  BY NextCases, <1>1, <1>2, <1>3, <1>4, <1>5, <1>6, <1>7, <1>8, <1>9, <1>10

(* An aborted session whose stragglers have drained stays aborted: no        *)
(* sequence of further requests, faults or crashes revives it.               *)
THEOREM AbortedForGood == Spec => SealedStaysSealed
<1>1. TypeOK /\ [Next]_vars => [Sealed => Sealed']_vars
  BY NextSealed
<1> QED
  BY <1>1, TypeCorrect, PTL DEF Spec, SealedStaysSealed


-----------------------------------------------------------------------------
(* A client that waits for each answer.  While one request is in flight      *)
(* nobody else is, so an execution that the request started is the only one  *)
(* to run beside it.                                                         *)
OneRequest == \A r, s \in InFlight : r = s

Alone(r) == \A s \in Requests \ {r} : pc[s] \in {"idle", "end"}

(* The client sends a request only when all others have been answered.       *)
LEMMA AloneArrives ==
  ASSUME MaxInFlight = 1, IsFiniteSet(Requests), NEW r \in Requests, Arrivals(r)
  PROVE  pc[r] = "idle" /\ \A s \in Requests : pc[s] \in {"idle", "end"}
<1>1. pc[r] = "idle" /\ Cardinality(InFlight) < 1
  BY DEF Arrivals, Arrive, CreateAudit, ArriveMessages, ArriveConfirm, ArriveTurn, ArriveAbort
<1>2. IsFiniteSet(InFlight)
  BY FS_Subset DEF InFlight
<1>3. Cardinality(InFlight) = 0
  BY <1>1, <1>2, FS_CardinalityType
<1>4. InFlight = {}
  BY <1>2, <1>3, FS_EmptySet
<1> QED
  BY <1>1, <1>4 DEF InFlight

LEMMA AloneHandles ==
  ASSUME OneRequest, NEW r \in Requests, Handle(r)
  PROVE  Alone(r)
<1>1. pc[r] \notin {"idle", "end"}
  BY DEF Handle, Goto, Fails, CreateStep, CreateStore, CreateStoreFails, CreateRemember,
     MessagesStep, Route, SetAgent, SetStatus, AuditSelected, Remember, MessagesFails,
     ConfirmStep, ConfirmGet, ConfirmClaim, ConfirmRefused, Accept, AuditConfirmed,
     AuditConfirmedFails, Reset, Commit, CommitRefused, ConfirmStranded, RunStep, Forget,
     SetRunning, SetRunningFails, Register, TurnStep, TurnReopen, TurnRemember, TurnRoute,
     AuditTurn, TurnSetAgent, TurnSetStatus, TurnAccept, AuditTurnConfirmed, TurnFails,
     AbortStep, AuditAborted, AbortCommit, AbortRefused, AbortCancel, AbortClose
<1> QED
  BY <1>1 DEF OneRequest, InFlight, Alone

LEMMA NextOneRequest ==
  ASSUME MaxInFlight = 1, IsFiniteSet(Requests), TypeOK, OneRequest,
         [Next]_vars
  PROVE  OneRequest'
<1>1. ASSUME NEW r \in Requests, Arrivals(r) PROVE OneRequest'
  <2>1. pc[r] = "idle" /\ \A s \in Requests : pc[s] \in {"idle", "end"}
    BY <1>1, AloneArrives
  <2>2. PICK label : pc' = [pc EXCEPT ![r] = label]
    BY <1>1 DEF Arrivals, Arrive, CreateAudit, ArriveMessages, ArriveConfirm, ArriveTurn,
       ArriveAbort
  <2> QED
    BY <2>1, <2>2 DEF OneRequest, InFlight, TypeOK
<1> USE DEF OneRequest, InFlight, TypeOK, durable, memory, locals, runs, history, Goto, Fails,
    Record
<1>2. ASSUME NEW r \in Requests, CreateStep(r) PROVE OneRequest'
  <2>1. Alone(r)
    BY <1>2, AloneHandles DEF Handle
  <2> QED
    BY <1>2, <2>1 DEF Alone, CreateStep, CreateStore, CreateStoreFails, CreateRemember
<1>3. ASSUME NEW r \in Requests, MessagesStep(r) PROVE OneRequest'
  <2>1. Alone(r)
    BY <1>3, AloneHandles DEF Handle
  <2> QED
    BY <1>3, <2>1 DEF Alone, MessagesStep, Route, SetAgent, SetStatus, AuditSelected, Remember,
       MessagesFails
<1>4. ASSUME NEW r \in Requests, ConfirmStep(r) PROVE OneRequest'
  <2>1. Alone(r)
    BY <1>4, AloneHandles DEF Handle
  <2> QED
    BY <1>4, <2>1 DEF Alone, ConfirmStep, ConfirmGet, ConfirmClaim, ConfirmRefused, Accept,
       AuditConfirmed, AuditConfirmedFails, Reset, Commit, CommitRefused, ConfirmStranded,
       CompareAndSwapStatus, AgentAllowed
<1>5. ASSUME NEW r \in Requests, RunStep(r) PROVE OneRequest'
  <2>1. Alone(r)
    BY <1>5, AloneHandles DEF Handle
  <2> QED
    BY <1>5, <2>1 DEF Alone, RunStep, Forget, SetRunning, SetRunningFails, Register
<1>6. ASSUME NEW r \in Requests, TurnStep(r) PROVE OneRequest'
  <2>1. Alone(r)
    BY <1>6, AloneHandles DEF Handle
  <2> QED
    BY <1>6, <2>1 DEF Alone, TurnStep, TurnReopen, TurnRemember, TurnRoute, AuditTurn,
       TurnSetAgent, TurnSetStatus, TurnAccept, AuditTurnConfirmed, TurnFails
<1>7. ASSUME NEW r \in Requests, AbortStep(r) PROVE OneRequest'
  <2>1. Alone(r)
    BY <1>7, AloneHandles DEF Handle
  <2> QED
    BY <1>7, <2>1 DEF Alone, AbortStep, AuditAborted, AbortCommit, AbortRefused, AbortCancel,
       AbortClose, CompareAndSwapStatus, CancelExecution
<1>8. ASSUME NEW x \in Requests, Execute(x) PROVE OneRequest'
  BY <1>8 DEF Execute, Advance, ExecSetStatus, RecordIfLive, CancelExecution, ExecStart,
     ExecDispatched, ExecDispatchFails, ExecFailStatus, ExecFailAudit, ExecCloseFailed,
     ExecDenyAudit, ExecDenyStatus, ExecPublishDone, ExecDoneStatus, ExecDoneAudit, ExecSweep
<1>9. CASE Environment
  BY <1>9 DEF Environment, ExecTimeout, PromptExpires, CancelEvicted, Crash, InFlight,
     LiveExecutions
<1>10. CASE UNCHANGED vars
  BY <1>10 DEF vars
<1> HIDE DEF OneRequest
<1> QED
  BY NextCases, <1>1, <1>2, <1>3, <1>4, <1>5, <1>6, <1>7, <1>8, <1>9, <1>10

-----------------------------------------------------------------------------
(* Once a status but "none", "created" or "aborted" was written, the row     *)
(* names an agent, and so it does for every execution and for every request  *)
(* that had to find such a status.  A confirm that is about to claim the     *)
(* session has compared its agent with the row, and nobody rewrites the row  *)
(* in between.                                                               *)
AgentPicked ==
  {"set_agent", "set_status", "audit_selected", "remember", "confirm_get", "confirm_cas",
   "audit_turn", "turn_set_agent", "turn_set_status"}

RowRouted ==
  {"set_status", "audit_selected", "remember", "accept", "audit_confirmed", "commit", "reset",
   "forget", "set_running", "register", "turn_reopen", "turn_remember", "turn_route",
   "audit_turn", "turn_set_agent", "turn_set_status", "turn_accept", "audit_turn_confirmed"}

RoutingInv ==
  /\ status \notin {"none", "created", "aborted"} => routedAgent \in Agents
  /\ \A r \in Requests :
       /\ exec[r] # "none" \/ pc[r] \in RowRouted => routedAgent \in Agents
       /\ pc[r] \in AgentPicked => agent[r] \in Agents
       /\ pc[r] = "confirm_cas" => routedAgent \in {None, agent[r]}

LEMMA NextRoutingInv ==
  ASSUME MaxInFlight = 1, IsFiniteSet(Requests), TypeOK, OneRequest, RoutingInv,
         [Next]_vars
  PROVE  RoutingInv'
<1> USE DEF RoutingInv, AgentPicked, RowRouted, TypeOK, durable, memory, locals, runs, history,
    Goto, Fails, Record
<1>1. ASSUME NEW r \in Requests, Arrivals(r) PROVE RoutingInv'
  <2>1. pc[r] = "idle" /\ \A s \in Requests : pc[s] \in {"idle", "end"}
    BY <1>1, AloneArrives
  <2> QED
    BY <1>1, <2>1 DEF Arrivals, Arrive, CreateAudit, ArriveMessages, ArriveConfirm, ArriveTurn,
       ArriveAbort, TurnEligible
<1>2. ASSUME NEW r \in Requests, CreateStep(r) PROVE RoutingInv'
  <2>1. Alone(r)
    BY <1>2, AloneHandles DEF Handle
  <2> QED
    BY <1>2, <2>1 DEF Alone, CreateStep, CreateStore, CreateStoreFails, CreateRemember
<1>3. ASSUME NEW r \in Requests, MessagesStep(r) PROVE RoutingInv'
  <2>1. Alone(r)
    BY <1>3, AloneHandles DEF Handle
  <2> QED
    BY <1>3, <2>1 DEF Alone, MessagesStep, Route, SetAgent, SetStatus, AuditSelected, Remember,
       MessagesFails
<1>4. ASSUME NEW r \in Requests, ConfirmStep(r) PROVE RoutingInv'
  <2>1. Alone(r)
    BY <1>4, AloneHandles DEF Handle
  <2> QED
    BY <1>4, <2>1 DEF Alone, ConfirmStep, ConfirmGet, ConfirmClaim, ConfirmRefused, Accept,
       AuditConfirmed, AuditConfirmedFails, Reset, Commit, CommitRefused, ConfirmStranded,
       CompareAndSwapStatus, AgentAllowed
<1>5. ASSUME NEW r \in Requests, RunStep(r) PROVE RoutingInv'
  <2>1. Alone(r)
    BY <1>5, AloneHandles DEF Handle
  <2> QED
    BY <1>5, <2>1 DEF Alone, RunStep, Forget, SetRunning, SetRunningFails, Register
<1>6. ASSUME NEW r \in Requests, TurnStep(r) PROVE RoutingInv'
  <2>1. Alone(r)
    BY <1>6, AloneHandles DEF Handle
  <2> QED
    BY <1>6, <2>1 DEF Alone, TurnStep, TurnReopen, TurnRemember, TurnRoute, AuditTurn,
       TurnSetAgent, TurnSetStatus, TurnAccept, AuditTurnConfirmed, TurnFails
<1>7. ASSUME NEW r \in Requests, AbortStep(r) PROVE RoutingInv'
  <2>1. Alone(r)
    BY <1>7, AloneHandles DEF Handle
  <2> QED
    BY <1>7, <2>1 DEF Alone, AbortStep, AuditAborted, AbortCommit, AbortRefused, AbortCancel,
       AbortClose, CompareAndSwapStatus, CancelExecution
<1>8. ASSUME NEW x \in Requests, Execute(x) PROVE RoutingInv'
  BY <1>8 DEF Execute, Advance, ExecSetStatus, RecordIfLive, CancelExecution, ExecStart,
     ExecDispatched, ExecDispatchFails, ExecFailStatus, ExecFailAudit, ExecCloseFailed,
     ExecDenyAudit, ExecDenyStatus, ExecPublishDone, ExecDoneStatus, ExecDoneAudit, ExecSweep
<1>9. CASE Environment
  BY <1>9 DEF Environment, ExecTimeout, PromptExpires, CancelEvicted, Crash, InFlight,
     LiveExecutions, Unsettled, Settled
<1>10. CASE UNCHANGED vars
  BY <1>10 DEF vars
<1> HIDE DEF RoutingInv
<1> QED
  BY NextCases, <1>1, <1>2, <1>3, <1>4, <1>5, <1>6, <1>7, <1>8, <1>9, <1>10

-----------------------------------------------------------------------------
(* What an execution runs was routed.  Follow the prompt of a confirm back:  *)
(* while the session awaits a confirmation and no one is about to remember   *)
(* another prompt, the prompt in the map was routed to the agent in the row; *)
(* the requests that write either of them find the session in another        *)
(* status, and nobody is in flight beside them.                              *)
TurnRouted == {"audit_turn", "turn_set_agent", "turn_set_status", "turn_accept", "audit_turn_confirmed"}
TurnBegun == {"turn_reopen", "turn_remember", "turn_route"} \cup TurnRouted
Claiming == {"accept", "audit_confirmed", "commit", "reset"}
Starting == {"forget", "set_running", "register"}

Picked(r) ==
  /\ pc[r] \in {"set_agent", "set_status", "audit_selected", "remember"} \cup TurnRouted =>
       <<r, agent[r]>> \in selection
  /\ pc[r] \in TurnBegun => carried[r] = r /\ (agent[r] # None => <<r, agent[r]>> \in selection)
  /\ pc[r] \in {"set_status", "audit_selected", "remember", "turn_set_status"} => routedAgent = agent[r]
  /\ pc[r] \in {"turn_route", "audit_turn", "turn_set_agent", "turn_set_status"} => prompt \in {None, r}

Bound(r) ==
  /\ pc[r] \in {"confirm_get", "confirm_cas"} /\ status = "awaiting_confirmation" =>
       <<carried[r], routedAgent>> \in selection
  /\ pc[r] \in {"confirm_get", "confirm_cas"} \cup Claiming => prompt \in {None, carried[r]}
  /\ pc[r] \in Claiming => routedAgent = agent[r]
  /\ exec[r] # "none" \/ pc[r] \in Claiming \cup Starting => <<carried[r], agent[r]>> \in selection

NotAwaiting(r) ==
  pc[r] \in {"create_store", "create_remember", "route", "set_agent", "set_status"} \cup TurnBegun =>
    status # "awaiting_confirmation"

Selected(r) == Picked(r) /\ Bound(r) /\ NotAwaiting(r) /\ (exec[r] # "none" => pc[r] = "end")

PromptRouted ==
  \/ status # "awaiting_confirmation" \/ prompt = None
  \/ \E r \in Requests : pc[r] \in {"audit_selected", "remember"}
  \/ <<prompt, routedAgent>> \in selection

SelectionInv == PromptRouted /\ \A r \in Requests : Selected(r)

(* Those who are not in flight are not disturbed by the one who is.          *)
LEMMA OthersSelected ==
  ASSUME TypeOK, SelectionInv, NEW r \in Requests, Alone(r), selection \subseteq selection',
         \A s \in Requests \ {r} : /\ pc'[s] = pc[s] /\ exec'[s] = exec[s]
                                   /\ agent'[s] = agent[s] /\ carried'[s] = carried[s]
  PROVE  \A s \in Requests \ {r} : Selected(s)'
<1> SUFFICES ASSUME NEW s \in Requests \ {r} PROVE Selected(s)'
  OBVIOUS
<1>1. pc[s] \in {"idle", "end"} /\ pc'[s] = pc[s]
  BY DEF Alone
<1>2. exec[s] # "none" => <<carried[s], agent[s]>> \in selection /\ pc[s] = "end"
  BY DEF SelectionInv, Selected, Bound
<1> QED
  BY <1>1, <1>2 DEF Selected, Picked, Bound, NotAwaiting, TurnRouted, TurnBegun, Claiming,
     Starting

LEMMA NextSelectionInv ==
  ASSUME MaxInFlight = 1, IsFiniteSet(Requests), "audit" \notin Faults,
         TypeOK, OneRequest, RoutingInv, SelectionInv, [Next]_vars
  PROVE  SelectionInv'
<1> USE DEF Picked, Bound, NotAwaiting, TurnRouted, TurnBegun, Claiming, Starting, AgentPicked,
    RowRouted, TypeOK, durable, memory, locals, runs, history, Goto, Fails, Record
<1>1. ASSUME NEW r \in Requests, Arrivals(r) PROVE SelectionInv'
  <2>0. Selected(r) /\ PromptRouted
    BY DEF SelectionInv
  <2>1. pc[r] = "idle" /\ Alone(r)
    BY <1>1, AloneArrives DEF Alone
  <2>2. \A s \in Requests \ {r} : Selected(s)'
    BY <1>1, <2>1, OthersSelected DEF Arrivals, Arrive, CreateAudit, ArriveMessages,
       ArriveConfirm, ArriveTurn, ArriveAbort, TurnEligible
  <2>3. Selected(r)'
    <3>1. Picked(r)'
      BY <1>1, <2>0, <2>1 DEF Alone, Selected, RoutingInv, Arrivals, Arrive, CreateAudit,
         ArriveMessages, ArriveConfirm, ArriveTurn, ArriveAbort, TurnEligible
    <3>2. Bound(r)'
      BY <1>1, <2>0, <2>1 DEF Alone, Selected, PromptRouted, RoutingInv, Arrivals, Arrive,
         CreateAudit, ArriveMessages, ArriveConfirm, ArriveTurn, ArriveAbort, TurnEligible
    <3>3. NotAwaiting(r)' /\ (exec[r] # "none" => pc[r] = "end")'
      BY <1>1, <2>0, <2>1 DEF Alone, Selected, RoutingInv, Arrivals, Arrive, CreateAudit,
         ArriveMessages, ArriveConfirm, ArriveTurn, ArriveAbort, TurnEligible
    <3> QED
      BY <3>1, <3>2, <3>3 DEF Selected
  <2>4. PromptRouted'
    BY <1>1, <2>0, <2>1 DEF Alone, PromptRouted, Selected, Arrivals, Arrive, CreateAudit,
       ArriveMessages, ArriveConfirm, ArriveTurn, ArriveAbort, TurnEligible
  <2> QED
    BY <2>2, <2>3, <2>4 DEF SelectionInv
<1>2. ASSUME NEW r \in Requests, CreateStep(r) PROVE SelectionInv'
  <2>0. Selected(r) /\ PromptRouted
    BY DEF SelectionInv
  <2>1. Alone(r)
    BY <1>2, AloneHandles DEF Handle
  <2>2. \A s \in Requests \ {r} : Selected(s)'
    BY <1>2, <2>1, OthersSelected DEF CreateStep, CreateStore, CreateStoreFails, CreateRemember
  <2>3. Selected(r)'
    BY <1>2, <2>0 DEF Selected, CreateStep, CreateStore, CreateStoreFails, CreateRemember
  <2>4. PromptRouted'
    BY <1>2, <2>0, <2>1 DEF Alone, PromptRouted, Selected, CreateStep, CreateStore,
       CreateStoreFails, CreateRemember
  <2> QED
    BY <2>2, <2>3, <2>4 DEF SelectionInv
<1>3. ASSUME NEW r \in Requests, MessagesStep(r) PROVE SelectionInv'
  <2>0. Selected(r) /\ PromptRouted
    BY DEF SelectionInv
  <2>1. Alone(r)
    BY <1>3, AloneHandles DEF Handle
  <2>2. \A s \in Requests \ {r} : Selected(s)'
    BY <1>3, <2>1, OthersSelected DEF MessagesStep, Route, SetAgent, SetStatus, AuditSelected,
       Remember, MessagesFails
  <2>3. Selected(r)'
    <3>1. Picked(r)'
      BY <1>3, <2>0, <2>1 DEF Alone, Selected, RoutingInv, MessagesStep, Route, SetAgent,
         SetStatus, AuditSelected, Remember, MessagesFails
    <3>2. Bound(r)'
      BY <1>3, <2>0, <2>1 DEF Alone, Selected, PromptRouted, RoutingInv, MessagesStep, Route,
         SetAgent, SetStatus, AuditSelected, Remember, MessagesFails
    <3>3. NotAwaiting(r)' /\ (exec[r] # "none" => pc[r] = "end")'
      BY <1>3, <2>0, <2>1 DEF Alone, Selected, RoutingInv, MessagesStep, Route, SetAgent,
         SetStatus, AuditSelected, Remember, MessagesFails
    <3> QED
      BY <3>1, <3>2, <3>3 DEF Selected
  <2>4. PromptRouted'
    <3>1. CASE Route(r)
      BY <3>1, <2>0, <2>1 DEF Alone, PromptRouted, Selected, Route
    <3>2. CASE SetAgent(r)
      BY <3>2, <2>0, <2>1 DEF Alone, PromptRouted, Selected, SetAgent
    <3>3. CASE SetStatus(r)
      BY <3>3, <2>0, <2>1 DEF Alone, PromptRouted, Selected, SetStatus
    <3>4. CASE AuditSelected(r)
      BY <3>4, <2>0, <2>1 DEF Alone, PromptRouted, Selected, AuditSelected
    <3>5. CASE Remember(r)
      BY <3>5, <2>0, <2>1 DEF Alone, PromptRouted, Selected, Remember
    <3>6. CASE MessagesFails(r)
      BY <3>6, <2>0, <2>1 DEF Alone, PromptRouted, Selected, MessagesFails
    <3> QED
      BY <1>3, <3>1, <3>2, <3>3, <3>4, <3>5, <3>6 DEF MessagesStep
  <2> QED
    BY <2>2, <2>3, <2>4 DEF SelectionInv
<1>4. ASSUME NEW r \in Requests, ConfirmStep(r) PROVE SelectionInv'
  <2>0. Selected(r) /\ PromptRouted
    BY DEF SelectionInv
  <2>1. Alone(r)
    BY <1>4, AloneHandles DEF Handle
  <2>2. \A s \in Requests \ {r} : Selected(s)'
    BY <1>4, <2>1, OthersSelected DEF ConfirmStep, ConfirmGet, ConfirmClaim, ConfirmRefused,
       Accept, AuditConfirmed, AuditConfirmedFails, Reset, Commit, CommitRefused,
       ConfirmStranded, CompareAndSwapStatus, AgentAllowed
  <2>3. Selected(r)'
    <3>1. Picked(r)'
      BY <1>4, <2>0, <2>1 DEF Alone, Selected, RoutingInv, ConfirmStep, ConfirmGet, ConfirmClaim,
         ConfirmRefused, Accept, AuditConfirmed, AuditConfirmedFails, Reset, Commit,
         CommitRefused, ConfirmStranded, CompareAndSwapStatus, AgentAllowed
    <3>2. Bound(r)'
      <4>1. CASE ConfirmGet(r)
        BY <4>1, <2>0, <2>1, ConstantsAssumption DEF Selected, PromptRouted, RoutingInv,
           ConfirmGet, AgentAllowed
      <4>2. CASE ConfirmClaim(r)
        BY <4>2, <2>0, <2>1, ConstantsAssumption DEF Selected, PromptRouted, RoutingInv,
           ConfirmClaim, CompareAndSwapStatus
      <4>3. CASE ConfirmRefused(r)
        BY <4>3, <2>0, <2>1, ConstantsAssumption DEF Selected, PromptRouted, RoutingInv,
           ConfirmRefused
      <4>4. CASE Accept(r)
        BY <4>4, <2>0, <2>1, ConstantsAssumption DEF Selected, PromptRouted, RoutingInv, Accept
      <4>5. CASE AuditConfirmed(r)
        BY <4>5, <2>0, <2>1, ConstantsAssumption DEF Selected, PromptRouted, RoutingInv,
           AuditConfirmed
      <4>6. CASE AuditConfirmedFails(r)
        BY <4>6, <2>0, <2>1, ConstantsAssumption DEF Selected, PromptRouted, RoutingInv,
           AuditConfirmedFails
      <4>7. CASE Reset(r)
        BY <4>7, <2>0, <2>1, ConstantsAssumption DEF Selected, PromptRouted, RoutingInv, Reset
      <4>8. CASE Commit(r)
        BY <4>8, <2>0, <2>1, ConstantsAssumption DEF Selected, PromptRouted, RoutingInv, Commit,
           CompareAndSwapStatus
      <4>9. CASE CommitRefused(r)
        BY <4>9, <2>0, <2>1, ConstantsAssumption DEF Selected, PromptRouted, RoutingInv,
           CommitRefused
      <4>10. CASE ConfirmStranded(r)
        BY <4>10, <2>0, <2>1, ConstantsAssumption DEF Selected, PromptRouted, RoutingInv,
           ConfirmStranded
      <4> QED
        BY <1>4, <4>1, <4>2, <4>3, <4>4, <4>5, <4>6, <4>7, <4>8, <4>9, <4>10 DEF ConfirmStep
    <3>3. NotAwaiting(r)' /\ (exec[r] # "none" => pc[r] = "end")'
      BY <1>4, <2>0, <2>1 DEF Alone, Selected, RoutingInv, ConfirmStep, ConfirmGet, ConfirmClaim,
         ConfirmRefused, Accept, AuditConfirmed, AuditConfirmedFails, Reset, Commit,
         CommitRefused, ConfirmStranded, CompareAndSwapStatus, AgentAllowed
    <3> QED
      BY <3>1, <3>2, <3>3 DEF Selected
  <2>4. PromptRouted'
    <3>1. CASE ConfirmGet(r)
      BY <3>1, <2>0, <2>1 DEF Alone, PromptRouted, Selected, ConfirmGet, AgentAllowed
    <3>2. CASE ConfirmClaim(r)
      BY <3>2, <2>0, <2>1 DEF Alone, PromptRouted, Selected, ConfirmClaim, CompareAndSwapStatus
    <3>3. CASE ConfirmRefused(r)
      BY <3>3, <2>0, <2>1 DEF Alone, PromptRouted, Selected, ConfirmRefused
    <3>4. CASE Accept(r)
      BY <3>4, <2>0, <2>1 DEF Alone, PromptRouted, Selected, Accept
    <3>5. CASE AuditConfirmed(r)
      BY <3>5, <2>0, <2>1 DEF Alone, PromptRouted, Selected, AuditConfirmed
    <3>6. CASE AuditConfirmedFails(r)
      BY <3>6, <2>0, <2>1 DEF Alone, PromptRouted, Selected, AuditConfirmedFails
    <3>7. CASE Reset(r)
      BY <3>7, <2>0, <2>1 DEF Alone, PromptRouted, Selected, Reset
    <3>8. CASE Commit(r)
      BY <3>8, <2>0, <2>1 DEF Alone, PromptRouted, Selected, Commit, CompareAndSwapStatus
    <3>9. CASE CommitRefused(r)
      BY <3>9, <2>0, <2>1 DEF Alone, PromptRouted, Selected, CommitRefused
    <3>10. CASE ConfirmStranded(r)
      BY <3>10, <2>0, <2>1 DEF Alone, PromptRouted, Selected, ConfirmStranded
    <3> QED
      BY <1>4, <3>1, <3>2, <3>3, <3>4, <3>5, <3>6, <3>7, <3>8, <3>9, <3>10 DEF ConfirmStep
  <2> QED
    BY <2>2, <2>3, <2>4 DEF SelectionInv
<1>5. ASSUME NEW r \in Requests, RunStep(r) PROVE SelectionInv'
  <2>0. Selected(r) /\ PromptRouted
    BY DEF SelectionInv
  <2>1. Alone(r)
    BY <1>5, AloneHandles DEF Handle
  <2>2. \A s \in Requests \ {r} : Selected(s)'
    BY <1>5, <2>1, OthersSelected DEF RunStep, Forget, SetRunning, SetRunningFails, Register
  <2>3. Selected(r)'
    BY <1>5, <2>0 DEF Selected, RunStep, Forget, SetRunning, SetRunningFails, Register
  <2>4. PromptRouted'
    BY <1>5, <2>0, <2>1 DEF Alone, PromptRouted, Selected, RunStep, Forget, SetRunning,
       SetRunningFails, Register
  <2> QED
    BY <2>2, <2>3, <2>4 DEF SelectionInv
<1>6. ASSUME NEW r \in Requests, TurnStep(r) PROVE SelectionInv'
  <2>0. Selected(r) /\ PromptRouted
    BY DEF SelectionInv
  <2>1. Alone(r)
    BY <1>6, AloneHandles DEF Handle
  <2>2. \A s \in Requests \ {r} : Selected(s)'
    BY <1>6, <2>1, OthersSelected DEF TurnStep, TurnReopen, TurnRemember, TurnRoute, AuditTurn,
       TurnSetAgent, TurnSetStatus, TurnAccept, AuditTurnConfirmed, TurnFails
  <2>3. Selected(r)'
    <3>1. Picked(r)'
      BY <1>6, <2>0, <2>1 DEF Alone, Selected, RoutingInv, TurnStep, TurnReopen, TurnRemember,
         TurnRoute, AuditTurn, TurnSetAgent, TurnSetStatus, TurnAccept, AuditTurnConfirmed,
         TurnFails
    <3>2. Bound(r)'
      BY <1>6, <2>0, <2>1 DEF Alone, Selected, PromptRouted, RoutingInv, TurnStep, TurnReopen,
         TurnRemember, TurnRoute, AuditTurn, TurnSetAgent, TurnSetStatus, TurnAccept,
         AuditTurnConfirmed, TurnFails
    <3>3. NotAwaiting(r)' /\ (exec[r] # "none" => pc[r] = "end")'
      BY <1>6, <2>0, <2>1 DEF Alone, Selected, RoutingInv, TurnStep, TurnReopen, TurnRemember,
         TurnRoute, AuditTurn, TurnSetAgent, TurnSetStatus, TurnAccept, AuditTurnConfirmed,
         TurnFails
    <3> QED
      BY <3>1, <3>2, <3>3 DEF Selected
  <2>4. PromptRouted'
    BY <1>6, <2>0, <2>1 DEF Alone, PromptRouted, Selected, TurnStep, TurnReopen, TurnRemember,
       TurnRoute, AuditTurn, TurnSetAgent, TurnSetStatus, TurnAccept, AuditTurnConfirmed,
       TurnFails
  <2> QED
    BY <2>2, <2>3, <2>4 DEF SelectionInv
<1>7. ASSUME NEW r \in Requests, AbortStep(r) PROVE SelectionInv'
  <2>0. Selected(r) /\ PromptRouted
    BY DEF SelectionInv
  <2>1. Alone(r)
    BY <1>7, AloneHandles DEF Handle
  <2>2. \A s \in Requests \ {r} : Selected(s)'
    BY <1>7, <2>1, OthersSelected DEF AbortStep, AuditAborted, AbortCommit, AbortRefused,
       AbortCancel, AbortClose, CompareAndSwapStatus, CancelExecution
  <2>3. Selected(r)'
    BY <1>7, <2>0 DEF Selected, AbortStep, AuditAborted, AbortCommit, AbortRefused, AbortCancel,
       AbortClose, CompareAndSwapStatus, CancelExecution
  <2>4. PromptRouted'
    BY <1>7, <2>0, <2>1 DEF Alone, PromptRouted, Selected, AbortStep, AuditAborted, AbortCommit,
       AbortRefused, AbortCancel, AbortClose, CompareAndSwapStatus, CancelExecution
  <2> QED
    BY <2>2, <2>3, <2>4 DEF SelectionInv
<1>8. ASSUME NEW x \in Requests, Execute(x) PROVE SelectionInv'
  BY <1>8 DEF SelectionInv, PromptRouted, Selected, Execute, Advance, ExecSetStatus,
     RecordIfLive, CancelExecution, ExecStart, ExecDispatched, ExecDispatchFails, ExecFailStatus,
     ExecFailAudit, ExecCloseFailed, ExecDenyAudit, ExecDenyStatus, ExecPublishDone,
     ExecDoneStatus, ExecDoneAudit, ExecSweep
<1>9. CASE Environment
  BY <1>9 DEF Environment, ExecTimeout, PromptExpires, CancelEvicted, Crash, InFlight,
     LiveExecutions, Unsettled, Settled, SelectionInv, PromptRouted, Selected
<1>10. CASE UNCHANGED vars
  BY <1>10 DEF vars, SelectionInv, PromptRouted, Selected
<1> QED
  BY NextCases, <1>1, <1>2, <1>3, <1>4, <1>5, <1>6, <1>7, <1>8, <1>9, <1>10

(* As long as each call waits for the one before, an execution gets a prompt *)
(* with the agent that was picked for it, whatever fails but an audit append *)
(* (which leaves the prompt of an earlier request beside the newer agent).   *)
THEOREM AlwaysRunsWhatWasRouted ==
  ASSUME MaxInFlight = 1, IsFiniteSet(Requests), "audit" \notin Faults
  PROVE  Spec => []RunsWhatWasRouted
<1>1. Init => OneRequest /\ RoutingInv /\ SelectionInv
  BY DEF Init, OneRequest, InFlight, RoutingInv, AgentPicked, RowRouted, SelectionInv,
     PromptRouted, Selected, Picked, Bound, NotAwaiting, TurnRouted, TurnBegun, Claiming,
     Starting
<1>2. TypeOK /\ OneRequest /\ [Next]_vars => OneRequest'
  BY NextOneRequest
<1>3. TypeOK /\ OneRequest /\ RoutingInv /\ [Next]_vars => RoutingInv'
  BY NextRoutingInv
<1>4. TypeOK /\ OneRequest /\ RoutingInv /\ SelectionInv /\ [Next]_vars => SelectionInv'
  BY NextSelectionInv
<1>5. SelectionInv => RunsWhatWasRouted
  BY DEF SelectionInv, Selected, Bound, RunsWhatWasRouted
<1> QED
  BY <1>1, <1>2, <1>3, <1>4, <1>5, TypeCorrect, PTL DEF Spec

-----------------------------------------------------------------------------
(* One execution at a time.  While an execution has not written its result   *)
(* the row says "running" or "aborted", so that every request in flight is   *)
(* one those statuses let through, or one that has not looked yet; and the   *)
(* cancel map holds the execution unless its context was cancelled.          *)
Gated == {"idle", "end", "confirm_get", "confirm_cas", "audit_aborted", "abort_cas", "abort_cancel", "abort_close"}

SerialInv ==
  /\ \A r \in Requests : pc[r] = "register" => status = "running"
  /\ \A x \in Requests : exec[x] \in Unsettled =>
       /\ status \in {"running", "aborted"}
       /\ \A r \in Requests : pc[r] \in Gated
       /\ \A y \in Requests : exec[y] \in Unsettled => y = x
       /\ "evict" \notin Faults /\ ctx[x] = "live" => canceler = x

LEMMA NextSerialInv ==
  ASSUME MaxInFlight = 1, IsFiniteSet(Requests), "store" \notin Faults,
         TypeOK, OneRequest, SerialInv,
         [Next]_vars
  PROVE  SerialInv'
<1> USE DEF SerialInv, Gated, Unsettled, TypeOK, durable, memory, locals, runs, history, Goto,
    Fails, Record
<1>1. ASSUME NEW r \in Requests, Arrivals(r) PROVE SerialInv'
  <2>1. pc[r] = "idle" /\ \A s \in Requests : pc[s] \in {"idle", "end"}
    BY <1>1, AloneArrives
  <2> QED
    BY <1>1, <2>1 DEF Arrivals, Arrive, CreateAudit, ArriveMessages, ArriveConfirm, ArriveTurn,
       ArriveAbort, TurnEligible
<1>2. ASSUME NEW r \in Requests, CreateStep(r) PROVE SerialInv'
  <2>1. Alone(r)
    BY <1>2, AloneHandles DEF Handle
  <2> QED
    BY <1>2, <2>1 DEF Alone, CreateStep, CreateStore, CreateStoreFails, CreateRemember
<1>3. ASSUME NEW r \in Requests, MessagesStep(r) PROVE SerialInv'
  <2>1. Alone(r)
    BY <1>3, AloneHandles DEF Handle
  <2> QED
    BY <1>3, <2>1 DEF Alone, MessagesStep, Route, SetAgent, SetStatus, AuditSelected, Remember,
       MessagesFails
<1>4. ASSUME NEW r \in Requests, ConfirmStep(r) PROVE SerialInv'
  <2>1. Alone(r)
    BY <1>4, AloneHandles DEF Handle
  <2> QED
    BY <1>4, <2>1 DEF Alone, ConfirmStep, ConfirmGet, ConfirmClaim, ConfirmRefused, Accept,
       AuditConfirmed, AuditConfirmedFails, Reset, Commit, CommitRefused, ConfirmStranded,
       CompareAndSwapStatus, AgentAllowed
<1>5. ASSUME NEW r \in Requests, RunStep(r) PROVE SerialInv'
  <2>1. Alone(r)
    BY <1>5, AloneHandles DEF Handle
  <2> QED
    BY <1>5, <2>1 DEF Alone, RunStep, Forget, SetRunning, SetRunningFails, Register
<1>6. ASSUME NEW r \in Requests, TurnStep(r) PROVE SerialInv'
  <2>1. Alone(r)
    BY <1>6, AloneHandles DEF Handle
  <2> QED
    BY <1>6, <2>1 DEF Alone, TurnStep, TurnReopen, TurnRemember, TurnRoute, AuditTurn,
       TurnSetAgent, TurnSetStatus, TurnAccept, AuditTurnConfirmed, TurnFails
<1>7. ASSUME NEW r \in Requests, AbortStep(r) PROVE SerialInv'
  <2>1. Alone(r)
    BY <1>7, AloneHandles DEF Handle
  <2> QED
    BY <1>7, <2>1 DEF Alone, AbortStep, AuditAborted, AbortCommit, AbortRefused, AbortCancel,
       AbortClose, CompareAndSwapStatus, CancelExecution
<1>8. ASSUME NEW x \in Requests, Execute(x) PROVE SerialInv'
  BY <1>8 DEF Execute, Advance, ExecSetStatus, RecordIfLive, CancelExecution, ExecStart,
     ExecDispatched, ExecDispatchFails, ExecFailStatus, ExecFailAudit, ExecCloseFailed,
     ExecDenyAudit, ExecDenyStatus, ExecPublishDone, ExecDoneStatus, ExecDoneAudit, ExecSweep
<1>9. CASE Environment
  BY <1>9 DEF Environment, ExecTimeout, PromptExpires, CancelEvicted, Crash, InFlight,
     LiveExecutions, Settled
<1>10. CASE UNCHANGED vars
  BY <1>10 DEF vars
<1> HIDE DEF SerialInv
<1> QED
  BY NextCases, <1>1, <1>2, <1>3, <1>4, <1>5, <1>6, <1>7, <1>8, <1>9, <1>10

LEMMA SerialAlways ==
  ASSUME MaxInFlight = 1, IsFiniteSet(Requests), "store" \notin Faults
  PROVE  Spec => [](TypeOK /\ SerialInv)
<1>1. Init => OneRequest /\ SerialInv
  BY DEF Init, OneRequest, InFlight, SerialInv, Gated, Unsettled
<1>2. TypeOK /\ OneRequest /\ [Next]_vars => OneRequest'
  BY NextOneRequest
<1>3. TypeOK /\ OneRequest /\ SerialInv /\ [Next]_vars => SerialInv'
  BY NextSerialInv
<1> QED
  BY <1>1, <1>2, <1>3, TypeCorrect, PTL DEF Spec

(* As long as each call waits for the one before, a session never has two    *)
(* executions that are still to write their results, whatever fails but a    *)
(* status write (a lost "running" leaves a completed session that accepts    *)
(* the next turn).                                                           *)
THEOREM AlwaysOneExecution ==
  ASSUME MaxInFlight = 1, IsFiniteSet(Requests), "store" \notin Faults
  PROVE  Spec => []OneExecution
<1>1. SerialInv => OneExecution
  <2> DEFINE Busy == {r \in Requests : exec[r] \in Unsettled}
  <2>1. CASE Busy = {}
    BY <2>1, FS_EmptySet DEF OneExecution
  <2>2. CASE Busy # {}
    <3>1. SUFFICES ASSUME SerialInv PROVE Cardinality(Busy) <= 1
      BY DEF OneExecution
    <3>2. PICK x \in Busy : TRUE
      BY <2>2
    <3>3. \A y \in Busy : y = x
      BY <3>1, <3>2 DEF SerialInv
    <3>4. Busy = {x}
      BY <3>2, <3>3
    <3>5. Cardinality({x}) = 1
      BY FS_Singleton
    <3> QED
      BY <3>4, <3>5
  <2> QED
    BY <2>1, <2>2
<1> QED
  BY <1>1, SerialAlways, PTL

(* And then an abort cancels every execution that is still to write its      *)
(* result, as long as the cancel map keeps its entries (AbortHandler).       *)
THEOREM AbortAlwaysCancels ==
  ASSUME MaxInFlight = 1, IsFiniteSet(Requests), "store" \notin Faults, "evict" \notin Faults
  PROVE  Spec => AbortCancelsAll
<1> DEFINE Cancels(r) == pc[r] = "abort_cancel" /\ pc'[r] = "abort_close" =>
                           \A x \in Requests : exec[x] \in Unsettled => ctx'[x] # "live"
<1>1. ASSUME TypeOK, SerialInv, [Next]_vars, NEW r \in Requests,
             pc[r] = "abort_cancel", pc'[r] = "abort_close"
      PROVE  CancelExecution("abort")
  <2> USE <1>1 DEF TypeOK, Goto, Fails
  <2>1. ASSUME NEW s \in Requests, Arrivals(s) \/ CreateStep(s) \/ MessagesStep(s) PROVE FALSE
    BY <2>1 DEF Arrivals, Arrive, CreateAudit, ArriveMessages, ArriveConfirm, ArriveTurn,
       ArriveAbort, CreateStep, CreateStore, CreateStoreFails, CreateRemember, MessagesStep,
       Route, SetAgent, SetStatus, AuditSelected, Remember, MessagesFails
  <2>2. ASSUME NEW s \in Requests, ConfirmStep(s) \/ RunStep(s) \/ TurnStep(s) PROVE FALSE
    BY <2>2 DEF ConfirmStep, ConfirmGet, ConfirmClaim, ConfirmRefused, Accept, AuditConfirmed,
       AuditConfirmedFails, Reset, Commit, CommitRefused, ConfirmStranded, AgentAllowed, RunStep,
       Forget, SetRunning, SetRunningFails, Register, TurnStep, TurnReopen, TurnRemember,
       TurnRoute, AuditTurn, TurnSetAgent, TurnSetStatus, TurnAccept, AuditTurnConfirmed,
       TurnFails
  <2>3. ASSUME NEW s \in Requests, Execute(s) PROVE FALSE
    BY <2>3 DEF Execute, ExecSetStatus, ExecStart, ExecDispatched, ExecDispatchFails,
       ExecFailStatus, ExecFailAudit, ExecCloseFailed, ExecDenyAudit, ExecDenyStatus,
       ExecPublishDone, ExecDoneStatus, ExecDoneAudit, ExecSweep
  <2>4. ASSUME Environment PROVE FALSE
    BY <2>4 DEF Environment, ExecTimeout, PromptExpires, CancelEvicted, Crash, InFlight
  <2>5. ASSUME NEW s \in Requests, AbortStep(s) PROVE CancelExecution("abort")
    BY <2>5 DEF AbortStep, AuditAborted, AbortCommit, AbortRefused, AbortCancel, AbortClose
  <2>6. ASSUME UNCHANGED vars PROVE FALSE
    BY <2>6 DEF vars
  <2>7. [Next]_vars
    OBVIOUS
  <2> HIDE <1>1 DEF TypeOK, Goto, Fails
  <2> QED
    BY NextCases, <2>1, <2>2, <2>3, <2>4, <2>5, <2>6, <2>7
<1>2. ASSUME TypeOK, SerialInv, [Next]_vars, NEW r \in Requests PROVE Cancels(r)
  <2> SUFFICES ASSUME pc[r] = "abort_cancel", pc'[r] = "abort_close",
                      NEW x \in Requests, exec[x] \in Unsettled
               PROVE  ctx'[x] # "live"
    OBVIOUS
  <2>1. CancelExecution("abort")
    BY <1>1, <1>2
  <2>2. ctx[x] = "live" => canceler = x
    BY <1>2 DEF SerialInv
  <2> QED
    BY <1>2, <2>1, <2>2, ConstantsAssumption DEF CancelExecution, TypeOK
<1>3. (TypeOK /\ SerialInv) /\ [Next]_vars => [\A r \in Requests : Cancels(r)]_vars
  BY <1>2
<1> HIDE DEF Cancels
<1>4. Spec => [][\A r \in Requests : Cancels(r)]_vars
  BY <1>3, SerialAlways, PTL DEF Spec
<1> QED
  BY <1>4 DEF Cancels, AbortCancelsAll
===============================================================================
