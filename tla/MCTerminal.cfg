CONSTANTS
  Width = 3
  Height = 1
  PoolSize = 5
  MaxKeys = 8
SPECIFICATION FairSpec
INVARIANTS TypeOK KeysAccounted NothingStranded InOrderUnlessLapped CommandSinceEnter NoFaultBeforeFull SleepsOnlyAtFirst
PROPERTIES LossOnlyWhenFull ShownCharsStay Drained
CHECK_DEADLOCK FALSE
