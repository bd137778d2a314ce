SPECIFICATION FairSpec
CONSTANTS
  Processes <- MCProcesses
  Writers <- MCWriters
  Home <- MCHome
  Governance = governance
  Orchestrator = orchestrator
  GovernanceCalls = {g1, g2}
  OrchestratorCalls = {o1}
  None = None
  Powers = {2}
  StoreErrors = TRUE
  MaxTime = 2
  MaxInFlight = 3
  MaxRestarts = 1
  MaxPurges = 1
CHECK_DEADLOCK FALSE
INVARIANTS
  ChainIsLinear
PROPERTIES
  ImplementsLog
  AppendsEnd
