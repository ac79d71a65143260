\* Two slots and one test; the server may stay away for ever.
SPECIFICATION FairSpec
CONSTANTS
  Slots = {s1, s2}
  Pairs = {1}
  LastTest = 1
  TestOf <- OnePair
  MaxPairs = 1
  MaxStrays = 0
  None = None
PROPERTIES StopEnds SubmitEnds BanEnds
