\* A peer of an advertised link asks for a key.
CONSTANTS
  MaxConnections = 2
  MaxPrivacyPeers = 1
  MaxGeneration = 3
  MaxEvents = 3
  Handles = {h1, h2}
  h1 = h1
  h2 = h2
  BadHandle = BadHandle
  NoHandle = NoHandle
  NoPeer = NoPeer
  a = a
  b = b
  Addresses <- MCAddresses
  Peers <- MCPeers
  PrivacyConfigs <- NoConfigs
SPECIFICATION LinkSpec
PROPERTY PeripheralLtkCaptured
CHECK_DEADLOCK FALSE
