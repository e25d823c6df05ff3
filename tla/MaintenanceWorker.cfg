CONSTANTS
  d1 = d1
  d2 = d2
  d3 = d3
  DatabaseOrder <- ThreeDatabases
  Installed = {d1, d2}
  MaxWorkers = 3
  TotalSlots = 3
  MaxTables = 1
SPECIFICATION FairSpec
INVARIANTS
  OperationsAreWhole
  WorkersOwnSlots
PROPERTIES
  UndisturbedDatabasesMaintained
