\* The controller: every configuration, two slots and two handles.
CONSTANTS
  MaxConnections = 2
  MaxPrivacyPeers = 2
  MaxGeneration = 4
  Handles = {h1, h2}
  h1 = h1
  h2 = h2
  BadHandle = BadHandle
  NoHandle = NoHandle
  NoPeer = NoPeer
  a = a
  b = b
  Addresses <- MCAddresses
  Peers <- MCPeers
  PrivacyConfigs <- MCConfigs
\* The handshake: a wrong passphrase, retries of message 3, two associations.
  Passphrases = {pass, wrong}
  Tids = {t0}
  PnMax = 2
  NoKey = NoKey
  MaxAssociations = 2
  MaxCounter = 3
SPECIFICATION WirelessSpec
INVARIANTS SelfConsistent PendingMatchesState OperationalAfterSetup NoPacketNumberReuse DeliveredInOrder KeysAccountedFor BothEndsAgree
PROPERTY GenerationNeverReused
