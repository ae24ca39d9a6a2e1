SPECIFICATION Spec
CONSTANTS
  NumConns = 1
  NumRelays = 1
  NamedRelays = {}
  NumFds = 3
  ConnectResults = {"inprogress", "immediate", "error"}
  RelayConnectResults = {"inprogress", "immediate"}
  RelayClosable = FALSE
  NoFdIsSet = {FALSE}
INVARIANT
  ResolvingHasLookup
