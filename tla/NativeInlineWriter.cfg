CONSTANTS
  Writers = {w1, w2}
  Clients = {x1}
  Tables = {t1, t2}
  Values <- MCValues
  MaxRows = 1
  MaxId = 2
  MaxRetry = 1
  MaxSkew = 0
  None = None
SPECIFICATION FairSpec
INVARIANTS
  TableStatsExact
  StatsAdmitCommittedValues
  RowsCarryTheirSnapshot
PROPERTIES
  NoAppendAcrossConflict
  CatalogSpec
  StatementsEnd
