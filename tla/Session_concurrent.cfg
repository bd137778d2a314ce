SPECIFICATION Spec
CONSTANTS
  Requests = {c, r1, r2, r3}
  Creator = c
  Agents = {a}
  None = None
  Faults = {"store", "audit", "timeout"}
  MaxInFlight = 2
  MaxCrashes = 1
SYMMETRY Symmetry
CHECK_DEADLOCK FALSE
INVARIANTS
  TransientHasOwner
  SoleExecutionCancelable
PROPERTIES
  SealedStaysSealed
