SPECIFICATION Spec
CONSTANTS
  LakeNames = {a, b}
  HeapNames = {b}
  MaxIndexes = 2
  MaxLeaked = 1
  PathWithIfNotExists = FALSE
  Replacements = TRUE
  SortedRenames = FALSE
INVARIANTS
  PgTablesExist
  
  
