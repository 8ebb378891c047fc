CONSTANTS
  p1 = p1
  p2 = p2
  c1 = c1
  c2 = c2
  c3 = c3
  h1 = h1
  h2 = h2
  k1 = k1
  k2 = k2
  Procs = {p1, p2}
  Clients = {c1, c2, c3}
  ProcOf <- ThreeClients
  Hosts = {h1}
  Certs = {k1, k2}
  NoPin = NoPin
  Torn = Torn
  Nobody = Nobody
  MaxForgets = 1
  MaxCrashes = 1
SPECIFICATION FairSpec
INVARIANTS TypeOK PinsAreOne
PROPERTIES StoreIsRegister Ends
CHECK_DEADLOCK FALSE
