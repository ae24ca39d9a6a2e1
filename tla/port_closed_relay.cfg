SPECIFICATION Spec
CONSTANTS
  NumConns = 2
  NumRelays = 1
  NamedRelays = {}
  NumFds = 2
  ConnectResults = {"inprogress", "immediate", "error"}
  RelayConnectResults = {"inprogress", "immediate", "error"}
  RelayClosable = TRUE
  NoFdIsSet = {FALSE, TRUE}
PROPERTY
  HarmlessUntilReused
