SPECIFICATION FairSpec
CONSTANTS
  Rows <- MCRows
  Queries <- MCQueries
  Workers = {w1, w2}
  Tasks = {t1, t2}
  MainTask = t1
  NoOwner = NoOwner
  MaxWorkersPerScan = 2
  QueueSize = 1
  BatchSize = 2
  VectorSize = 2
  INT64_MAX = 100
  DUCK_TIMESTAMP_OFFSET = 12
  MIN_TIMESTAMP_VALUE <- MCMinTimestamp
  MAX_TIMESTAMP_VALUE = 96
  Unit = 4
\* A query ends; QueryEnds says that it gets there.
CHECK_DEADLOCK FALSE
INVARIANTS
  
  
  NoUseAfterCleanup
  
  NothingLeftRunning
  
PROPERTIES
  QueryEnds
