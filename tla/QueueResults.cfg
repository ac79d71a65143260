\* Two clients play the running test while another waits in the queue; two
\* requests and the maintenance thread interleave, and any transaction may be
\* rolled back.
SPECIFICATION Spec
CONSTANTS
  Workers = {w1, w2}
  Maintenance = maintenance
  Smoke = smoke
  Clients = {c1, c2}
  Tests = {1, 2}
  Pairs = {1, 2, 3}
  TestOf <- HandoverTestOf
  Kind <- HandoverKind
  Categories = {"WW"}
  SprtDecide <- TwoWins
  Slots = 2
  MaxAttempts = 2
  AttemptCap = 2
  Priorities = {0}
  InitialStatus <- HandoverStatus
  InitialPriority <- HandoverPriority
  Scenario <- ResultsScenario
  None = None
SYMMETRY Symmetric
INVARIANTS TypeOK StatsMatchResults HistoryIsGapless RunningHasReason
PROPERTIES PairLifecycle
