\* One game, cancelled.
SPECIFICATION Spec
CONSTANTS
  engine = engine
  game = game
  Calls = {game}
  Stdin <- NothingToRead
  Output <- OneLine
  Readers = {}
  Forkers = {game}
  Cancellable = {game}
  Timed = {}
  Capacity = 1
CHECK_DEADLOCK FALSE
INVARIANTS CancelKills
