CONSTANTS
  n1 = n1
  n2 = n2
  n3 = n3
  site = site
  vendor = vendor
  Nodes = {n1, n2, n3}
  Order <- Orders
  AccountOf <- Accounts
  Batches <- TwoBatches
  Limit = 1
  Sessions = 2
SPECIFICATION FairSpec
INVARIANTS TypeOK NeverTwice ReportIsTrue
PROPERTIES SentOnlyWhereFree Ends
CHECK_DEADLOCK FALSE
