\* Four threads share two connections, or wait for one while the other is
\* broken or cannot be opened; the requests may stop coming.
SPECIFICATION FairSpec
CONSTANTS
  Threads = {t1, t2, t3, t4}
  Connections = {c1, c2}
  Size = 2
  None = None
INVARIANTS PoolAccounts NoLostWakeup
PROPERTIES QuietPoolDrains
