CONSTANTS
  root = root
  chat = chat
  Root = root
  Nsp <- MCNsp
  MaxEngines = 4
  Attempts = 2
  MaxCalls = 4
  MaxEmits = 2
SPECIFICATION FairSpec
INVARIANTS ConnectionAgrees SentInOrder ConnectedIsJoined
PROPERTIES  ReconnectsUnlessStale NamespaceConnects
CHECK_DEADLOCK FALSE
