SPECIFICATION FairSpec
CONSTANTS
  Logger = {"build"}
  MaxLine = 2
  MaxWrite = 2
  BatchSize = 2
  MaxTime = 2
  Retention = 1
  Faults = {"api", "slow", "crash"}
  PageSize = 1
  OldRows <- MCOldRows
  MaxUpset = 1
INVARIANTS SkippedAreKnown ShownInOrder StoppedSawAll
PROPERTIES ImplementsChannel PolledAreShown
CHECK_DEADLOCK FALSE
