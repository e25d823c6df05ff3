CONSTANTS
  t1 = t1
  c1 = c1
  None = None
  Backends = {b1, b2}
  Impatient = {b2}
  Tables = {t1}
  Catalogs = {c1}
  CatalogOf <- OneCatalog
  Capacity = 2
  Elsewhere = {0, 1}
  MaxTicket = 3
  LastTicket = 2
  MaxId = 2
  MaxRows = 2
SPECIFICATION FairSpec
INVARIANTS
  ReservationsAreOrdered
  AnchorsAreTrue
  NoOrphanedSlot
PROPERTIES
  WaitsEnd
