\* A test from its submission to the download of its games: a story with an end,
\* after which nothing moves.
SPECIFICATION FairSpec
CONSTANTS
  alice = alice
  bob = bob
  IntMax = 7
  MaxBase = 4
  MaxIncrement = 2
  MaxHash = 16
  MaxTotal = 5
  Presets <- MCPresets
  None = None
  Users = {alice, bob}
  Options <- MCOptions
  Positions <- MCPositions
  MaxFaults = 1
  Machines <- MCMachines
  Wishes <- MCWishes
  NoWish = NoWish
  Sessions = {1, 2}
  Batch = 2
  Games <- MCGames
  Tc <- MCTc
  LongestGame = 60000
  MaxPlyCount = 60
  MaxRollbacks = 1
  Missing = Missing
INVARIANTS AcceptedIsStored CacheIsCurrent QueuedHasItsPositions CliExitIsVerdict
  AdmittedIsFit CountedAsPlayed ExportIsWhole
PROPERTIES ShutdownIsNoVerdict EveryTestIsJudged ShutdownEnds
CHECK_DEADLOCK FALSE
