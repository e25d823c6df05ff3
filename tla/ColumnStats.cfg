SPECIFICATION Spec
CONSTANTS
  Values = {9, 10}
  AsText <- MCAsText
  Unparsable = {9}
  Comparable = {"integer", "double", "date"}
  Null = Null
  NaN = NaN
  Layouts <- MCLayouts
  MaxSnapshot = 3
  MaxAlters = 1
  MaxRows = 2
INVARIANTS
  StatsAdmitRows
  BoundsAreAttained
