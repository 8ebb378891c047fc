CONSTANTS
  n1 = n1
  n2 = n2
  Nodes <- TwoNodes
  Limit = 2
  Persistent <- OneNode
  NetFirst <- OneNode
  Restless <- OneNode
  Late = TRUE
SPECIFICATION Spec
INVARIANTS TypeOK ArmedIsReported ReportIsTrue
PROPERTIES OnlyOnceArmed
CHECK_DEADLOCK FALSE
