SPECIFICATION Spec
CONSTANTS
  Requests = {c, r1, r2}
  Creator = c
  Agents = {a}
  None = None
  Faults = {}
  MaxInFlight = 2
  MaxCrashes = 0
CHECK_DEADLOCK FALSE
PROPERTIES
  AbortedStopsModelCalls
