SPECIFICATION Spec
CONSTANTS
  Requests = {c, r1, r2, r3}
  Creator = c
  Agents = {a, b}
  None = None
  Faults = {"orchestrator", "expiry", "timeout", "crash"}
  MaxInFlight = 1
  MaxCrashes = 1
SYMMETRY Symmetry
CHECK_DEADLOCK FALSE
INVARIANTS
  RunsWhatWasRouted
  OneExecution
PROPERTIES
  AbortCancelsAll
