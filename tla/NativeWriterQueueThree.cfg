CONSTANTS
  t1 = t1
  c1 = c1
  None = None
  Backends = {b1, b2, b3}
  Impatient = {}
  Tables = {t1, t2}
  Catalogs = {c1, c2}
  CatalogOf <- CatalogOfEach
  Capacity = 3
  Elsewhere = {0}
  MaxTicket = 4
  MaxId = 3
  MaxRows = 2
  LastTicket = 1
SYMMETRY Symmetry
SPECIFICATION PatientSpec
INVARIANTS
  OneTurnAtATime
