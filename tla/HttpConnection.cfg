CONSTANTS
  Conn <- MCConn
  MaxRequests = 3
  Headers = 2
  Size = 2
SPECIFICATION FairSpec
INVARIANTS RequestsWhole HandlersOpen
PROPERTY Served
CHECK_DEADLOCK FALSE
