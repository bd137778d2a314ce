SPECIFICATION Spec
CONSTANTS
  Processes <- MCProcesses
  Writers <- MCWriters
  Home <- MCHome
  Governance = governance
  Orchestrator = orchestrator
  GovernanceCalls = {g1, g2}
  OrchestratorCalls = {}
  None = None
  Powers = {}
  StoreErrors = FALSE
  MaxTime = 1
  MaxInFlight = 2
  MaxRestarts = 0
  MaxPurges = 0
SYMMETRY Symmetry
CHECK_DEADLOCK FALSE
INVARIANTS
  ChainVerifies
