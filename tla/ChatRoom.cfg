CONSTANTS
  p1 = p1
  p2 = p2
  alice = alice
  bob = bob
  NoPage = NoPage
  NoName = NoName
  Page <- MCPage
  Sid <- MCSid
  NameOf <- MCNameOf
  MaxMessages = 1
  MaxLost = 1
SPECIFICATION FairSpec
INVARIANTS UsersCounted MessagesNamed CountsAgree
PROPERTY LoggedIn
CHECK_DEADLOCK FALSE
