CONSTANTS
  c1 = c1
  c2 = c2
  n1 = n1
  n2 = n2
  p1 = p1
SPECIFICATION Spec
PROPERTIES EveryRunEnds PromisedHappens
CHECK_DEADLOCK FALSE
