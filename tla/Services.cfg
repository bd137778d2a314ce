SPECIFICATION ServicesSpec
CONSTANTS
  first = first
  second = second
  Calls = {first, second}
  Requests <- MCRequests
  Unset = Unset
  Shared = shared
  None = None
  MaxTroubles = 1
  PatchSessions = {s1}
  PatchIds = {p}
  Executions = {x1, x2}
  BufferTTL = 1
  LocalTTL = 1
  LoopMax = 1
  MaxEvents = 2
  MaxMinutes = 2
  Callers = {q1}
  Asks <- MCAsks
  Targets <- MCTargets
  Admins = {d1, d2}
  NoChange = NoChange
  MaxSwitches = 2
  MaxFailures = 1
  Handlers = {h1, h2}
  ann = ann
  bob = bob
  Operator = operator
  Actors = {ann, bob}
  OwnedBy <- MCOwnedBy
  RecordIds = {i}
  MaxOutages = 1
  Developers = {dev}
  ModelCalls = {m1, m2}
  Logins = {l1}
  MaxGrants = 2
  MaxLogouts = 1
  MaxTokenFailures = 1
  Bearers = {r1, r2}
  Kids = {k1, k2}
  Nobody = Nobody
  KeyTTL = 1
  MinRefresh = 0
  MaxClock = 1
  MaxRotations = 1
  Aliases = {a1, a2, a3}
  CopilotAlias = a1
  PickerAlias = picker
  NoAlias = NoAlias
  one = one
  two = two
  Blank = Blank
  Sessions = {"s1"}
  Users = {ann, bob}
  Owner <- MCOwner
  Outputs = {one, two}
  Bodies <- MCBodies
  Intakes = {p1, p2}
  Prompts <- MCPrompts
  Catalogs <- MCCatalogs
  NoAgent = NoAgent
  Broken = Broken
  HitTTL = 2
  ErrTTL = 1
  MaxValidation = 1
  MaxTime = 3
  MaxEdits = 1
  MaxRouterTroubles = 1
  Recordable <- MCEvents
  LookupsOf <- MCCandidates
  Books <- MCBooks
  NoBook = NoBook
  MaxRecorded = 3
  MaxQueryTroubles = 1
  MaxRefreshes = 1
SYMMETRY Swaps
CHECK_DEADLOCK FALSE
INVARIANTS
  RunningIsOwned
  StatusTellsTheEnd
  AbortHolds
  WorkIsLogged
  ShownIsReviewable
  SwitchesAgree
  BlockHolds
  AnswerIsLogged
  RegistryIsFaithful
  EnrollmentHolds
  SingleFlight
  WithdrawnKeysLapse
  RoutedWithinPolicy
  StagesInOrder
  RoutedByTheCatalog
  CostsOnce
