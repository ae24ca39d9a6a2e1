SPECIFICATION FairSpec
CONSTANTS
  MaxCalls = 4
  MaxReplies = 2
  OneTurn = TRUE
INVARIANTS
  TypeOK
  InOrder
  NoCircularWait
  ConnectedFindsApp
PROPERTIES
  ImplementsChannels
  RequestsHandled
  DeliveriesReturn
  AppHearsOfCore
