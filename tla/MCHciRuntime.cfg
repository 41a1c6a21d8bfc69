\* The links, with a controller that keeps to the protocol.
CONSTANTS
  MaxConnections = 2
  MaxPrivacyPeers = 1
  MaxGeneration = 3
  MaxEvents = 3
  Handles = {h1, h2}
  h1 = h1
  h2 = h2
  BadHandle = BadHandle
  NoHandle = NoHandle
  NoPeer = NoPeer
  a = a
  b = b
  Addresses <- MCAddresses
  Peers <- MCPeers
  PrivacyConfigs <- NoConfigs
\* Discovery.
  Advertisers = {a1, a2, a3}
  Movers = {a1}
  Beacons = {a3}
  Nobody = Nobody
  MaxChains = 1
  MaxDiscovered = 2
  MaxAdvData = 2
  MaxReports = 2
  MaxReportGen = 3
SPECIFICATION RuntimeSpec
INVARIANTS NoOrphanLink EncryptionAgrees OneCommandInFlight
PROPERTIES DisconnectEnds CommandsEnd RecordsAreTrue
CHECK_DEADLOCK FALSE
