SPECIFICATION Spec
CONSTANTS
  NumConns = 1
  NumRelays = 1
  NamedRelays = {1}
  NumFds = 3
  ConnectResults = {"inprogress", "immediate"}
  RelayConnectResults = {"inprogress", "immediate", "error"}
  RelayClosable = FALSE
  NoFdIsSet = {FALSE}
INVARIANT
  ResolvingRelayHasNoSocket
