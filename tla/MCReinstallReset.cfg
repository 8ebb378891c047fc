CONSTANTS
  n1 = n1
  n2 = n2
  Nodes <- TwoNodes
  Limit = 2
  Persistent <- NoNode
  NetFirst <- NoNode
  Restless <- NoNode
  Late = FALSE
SPECIFICATION Spec
INVARIANT DisarmedBootsOldSystem
CHECK_DEADLOCK FALSE
