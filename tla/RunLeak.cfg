\* Two programs that are fed a line, started by two threads.
SPECIFICATION Spec
CONSTANTS
  engine = engine
  game = game
  Calls = {engine, game}
  Stdin <- OneLineEach
  Output <- OneLineEach
  Readers = {engine, game}
  Forkers = {}
  Cancellable = {}
  Timed = {}
  Capacity = 1
CHECK_DEADLOCK FALSE
INVARIANTS NoLeak
