\* An engine that is asked for its name and a game, run by two threads.
SPECIFICATION FairSpec
CONSTANTS
  engine = engine
  game = game
  Calls = {engine, game}
  Stdin <- EngineReads
  Output <- BothWrite
  Readers = {engine}
  Forkers = {game}
  Cancellable = {game}
  Timed = {game}
  Capacity = 1
CHECK_DEADLOCK FALSE
INVARIANTS RunTypeOK GroupIsGone OutputIsWhole LeaksAreOneWay
PROPERTIES CallsEnd
