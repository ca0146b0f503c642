SPECIFICATION FairSpec
CONSTANTS
  NSectors = 1
  CountMod = 2
INVARIANTS
  NothingForgotten
PROPERTIES
  LockKeptWhilePending
  SavedInTheEnd
  LocksReleased
