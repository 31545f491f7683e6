SPECIFICATION FairSpec
CONSTANTS
  Chain <- Blocks4
  PubKeys <- Public
  PvtKeys <- Private
  FileCap = 2
  IndexBatch = 2
  RecBatch = 1
  SlowFetch = TRUE
  MaxCrashes = 2
  MaxRewinds = 1
INVARIANTS Durable OnlyGenesisFails HistoryFollows NoneForgotten 
PROPERTIES IsAtomic CatchesUp
CHECK_DEADLOCK FALSE
