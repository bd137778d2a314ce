----------------------------- MODULE MCAuditChain -----------------------------
(* Instances of AuditChain for TLC: the Governance Shell and, where a run    *)
(* gives it calls, the Orchestrator.                                         *)
EXTENDS AuditChain, TLC

CONSTANTS Governance, Orchestrator,                (* the processes           *)
          GovernanceCalls, OrchestratorCalls       (* the calls in each       *)

MCProcesses == IF OrchestratorCalls = {} THEN {Governance} ELSE {Governance, Orchestrator}

MCWriters == GovernanceCalls \cup OrchestratorCalls

MCHome == [w \in MCWriters |-> IF w \in GovernanceCalls THEN Governance ELSE Orchestrator]

(* Calls of one process are interchangeable; for runs that check safety.     *)
Symmetry == Permutations(GovernanceCalls) \cup Permutations(OrchestratorCalls)

===============================================================================
