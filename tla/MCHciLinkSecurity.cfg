\* A link that ends while its encryption is being started.
CONSTANTS
  MaxConnections = 2
  MaxPrivacyPeers = 1
  MaxGeneration = 3
  MaxEvents = 3
  Handles = {h1, h2}
  h1 = h1
  h2 = h2
  BadHandle = BadHandle
  NoHandle = NoHandle
  NoPeer = NoPeer
  a = a
  b = b
  Addresses <- MCAddresses
  Peers <- MCPeers
  PrivacyConfigs <- NoConfigs
SPECIFICATION LinkSpec
INVARIANT SecurityCommandKept
CHECK_DEADLOCK FALSE
