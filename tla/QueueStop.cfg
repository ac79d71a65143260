\* A stop against a promotion.
SPECIFICATION Spec
CONSTANTS
  Workers = {w1, w2}
  Maintenance = maintenance
  Smoke = smoke
  Clients = {c1}
  Tests = {1, 2}
  Pairs = {1, 2}
  TestOf <- StopTestOf
  Kind <- StopKind
  Categories = {"WW"}
  SprtDecide <- Undecided
  Slots = 1
  MaxAttempts = 1
  AttemptCap = 1
  Priorities = {0, 1}
  InitialStatus <- StopStatus
  InitialPriority <- StopPriority
  Scenario <- StopScenario
  None = None
SYMMETRY Symmetric
PROPERTIES PromotesOnlyQueued
