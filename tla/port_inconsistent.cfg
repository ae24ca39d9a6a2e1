SPECIFICATION Spec
CONSTANTS
  NumConns = 2
  NumRelays = 1
  NamedRelays = {}
  NumFds = 3
  ConnectResults = {"inprogress", "immediate"}
  RelayConnectResults = {"inprogress", "immediate"}
  RelayClosable = FALSE
  NoFdIsSet = {FALSE}
INVARIANT
  NeverInconsistent
