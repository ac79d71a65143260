\* Clients claim for ever and may never answer; the first pair decides.
SPECIFICATION FairSpec
CONSTANTS
  Workers = {w1, w2}
  Maintenance = maintenance
  Smoke = smoke
  Clients = {c1}
  Tests = {1, 2}
  Pairs = {1, 2}
  TestOf <- LiveTestOf
  Kind <- HandoverKind
  Categories = {"LL", "WW"}
  SprtDecide <- FirstLead
  Slots = 1
  MaxAttempts = 2
  AttemptCap = 2
  Priorities = {0}
  InitialStatus <- HandoverStatus
  InitialPriority <- HandoverPriority
  Scenario <- LiveScenario
  None = None
PROPERTIES FinishIsJustified LeasesEnd TestsEnd
