\* Two registrations race; two sessions share the hint; three catalog versions;
\* two errors or signals.
SPECIFICATION FairSpec
CONSTANTS
    Workers = {w1, w2}
    Backends = {b1, b2}
    NoWorker = NoWorker
    MaxVersion = 3
    MaxFailures = 2
INVARIANTS
  RunningWorkerOwnsState
  
PROPERTIES
  EveryVersionIsTakenUp
