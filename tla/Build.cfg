\* One process at a time has the work directory; it may die and come back while
\* a tool it had started goes on.
SPECIFICATION FairSpec
CONSTANTS
  engine = engine
  tested = tested
  fastchess = fastchess
  Processes = {client}
  Keys = {engine, tested, fastchess}
  Probed = {fastchess}
  Benched = {tested}
  Files = {f1, f2, f3, f4}
  MaxFaults = 1
  MaxCrashes = 1
  None = None
INVARIANTS BuildTypeOK CachedIsWhole
PROPERTIES BuildsInTheEnd
