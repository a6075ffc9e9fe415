SPECIFICATION FairSpec
CONSTANTS
  MaxMedia = 2
  Transports = {"udp", "tcp", "external", "unusable"}
  MaxConns = 5
  MaxBreaks = 2
  MaxReports = 1
  MaxStops = 1
INVARIANTS
  TypeOK
  RequestHasCarrier
  MediaFollowsSession
PROPERTIES
  RequestResolved
  TeardownStopsMedia
CHECK_DEADLOCK FALSE
