\* The worker and one session, one table and one view, one
\* change of the MotherDuck catalog, one error or signal.
SPECIFICATION Spec
CONSTANTS
    Worker = w1
    Backends = {b1}
    Tables = {t1}
    Views = {v1}
    MaxVersion = 2
    MaxFailures = 1
PROPERTIES
  SyncNeverWritesUpstream
  
  
