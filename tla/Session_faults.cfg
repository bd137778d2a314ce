SPECIFICATION FairSpec
CONSTANTS
  Requests = {c, r1, r2}
  Creator = c
  Agents = {a}
  None = None
  Faults = {"store", "audit", "orchestrator", "expiry", "evict", "timeout", "crash"}
  MaxInFlight = 2
  MaxCrashes = 1
CHECK_DEADLOCK FALSE
INVARIANTS
  ApprovedBeforeRunning
PROPERTIES
  TransientIsLeft
