SPECIFICATION Spec
CONSTANTS
  r1 = r1
  r2 = r2
  orders = orders
  users = users
  Undefined = Undefined
  Readers <- MCReaders
  Resources <- MCResources
  Bags <- MCBags
  MaxRequests = 3
CHECK_DEADLOCK FALSE
INVARIANTS
  OneRequestPerInvalidation
  NeverStale
PROPERTY
  ReadersSettle
