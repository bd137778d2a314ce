SPECIFICATION Spec
CONSTANTS
  Processes <- MCProcesses
  Writers <- MCWriters
  Home <- MCHome
  Governance = governance
  Orchestrator = orchestrator
  GovernanceCalls = {g1, g2, g3}
  OrchestratorCalls = {o1, o2}
  None = None
  Powers = {}
  StoreErrors = TRUE
  MaxTime = 3
  MaxInFlight = 1
  MaxRestarts = 1
  MaxPurges = 1
SYMMETRY Symmetry
CHECK_DEADLOCK FALSE
INVARIANTS
  ChainVerifies
  ConflictNeedsRival
