SPECIFICATION Spec
CONSTANTS
  NumConns = 1
  NumRelays = 1
  NamedRelays = {}
  NumFds = 3
  ConnectResults = {"inprogress", "immediate"}
  RelayConnectResults = {"inprogress", "immediate"}
  RelayClosable = TRUE
  NoFdIsSet = {FALSE}
INVARIANT
  RelayReadAsPolled
