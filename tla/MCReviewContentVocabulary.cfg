SPECIFICATION Spec
CONSTANTS
  p = p
  none = none
  FileCount = 4
  PageSize = 2
  MaxFiles = 3
  ConfigMax <- MCConfigMax
  Path = {p}
  NoPath = none
  Line <- MCLine
  Severity <- MCSeverity
  Category <- MCCategory
  Proximity = 1
  MaxFindings = 3
  MultiThreshold = 2
  MaxAnswer = 1
INVARIANTS
  SchemaFindingsAreComments
CHECK_DEADLOCK FALSE
