\* Two slots, two tests, --max-pairs 1.
SPECIFICATION Spec
CONSTANTS
  Slots = {s1, s2}
  Pairs = {1, 2}
  LastTest = 2
  TestOf <- OnePairEach
  MaxPairs = 1
  MaxStrays = 1
  None = None
SYMMETRY SymmetricSlots
INVARIANTS ClientTypeOK PlaysItsTest LeavesNoLease PairsBounded
