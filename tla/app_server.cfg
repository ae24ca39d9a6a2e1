SPECIFICATION FairSpec
CONSTANTS
  NUM_APP_CONNECTIONS = 2
  APP_RX_RB_SZ = 7
  Wsids = {7, 8}
  Streams <- MCStreams
INVARIANTS
  TypeOK
  NothingWaits
  DeliveredAsFramed
  RepliesFindTheirApp
PROPERTIES
  FeedReturns
  AsFrameStream
