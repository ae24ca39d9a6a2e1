SPECIFICATION Spec
CONSTANTS
  NumConns = 2
  NumRelays = 2
  NamedRelays = {2}
  NumFds = 3
  ConnectResults = {"inprogress", "immediate", "error"}
  RelayConnectResults = {"inprogress", "immediate"}
  RelayClosable = FALSE
  NoFdIsSet = {FALSE}
INVARIANTS
  TypeOK
  DescriptorsOwned
  WritableBranchLive
  NoDescriptorAbort
  OpenImpliesHeld
  LookupCurrent
  ResolvingRelayHasNoSocket
  RelayPassLive
PROPERTIES
  SocketNotReplaced
  AsSockets
