CONSTANTS
  OfGroups <- GroupsValues
  OfCredentials <- CredentialsValues
  OfDhcp <- DhcpValues
  c1 = c1
  c2 = c2
SPECIFICATION Spec
INVARIANTS TypeOK SharedIsTrue AskedOnce AsOneByOne
PROPERTY EveryCallEnds
CHECK_DEADLOCK FALSE
