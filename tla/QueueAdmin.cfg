\* Tests are submitted, validated, stopped, given priorities and promoted while one runs.
SPECIFICATION Spec
CONSTANTS
  Workers = {w1, w2}
  Maintenance = maintenance
  Smoke = smoke
  Clients = {c1}
  Tests = {1, 2, 3}
  Pairs = {1, 2, 3}
  TestOf <- AdminTestOf
  Kind <- AdminKind
  Categories = {"WW"}
  SprtDecide <- Undecided
  Slots = 1
  MaxAttempts = 1
  AttemptCap = 1
  Priorities = {0, 1}
  InitialStatus <- AdminStatus
  InitialPriority <- AdminPriority
  Scenario <- AdminScenario
  None = None
SYMMETRY Symmetric
INVARIANTS OneRunningTest QueueNeverStalls NoWaitCycle
PROPERTIES QueueIsSerial
