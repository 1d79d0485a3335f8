SPECIFICATION FairSpec
CONSTANTS
  Listeners = {v1, v2}
  Sniffs = {v2}
  Clients = {c1, c2, c3}
  NoClient = NoClient
  ChannelCap = 1
  ExtranonceSize = 1
  Radix = 2
  DigitsPerByte = 1
  NonceDigits = 3
INVARIANTS
  TypeOK
  LiveClientsAreRegistered
  RemovedOnce
  NonceSpacesDisjoint
PROPERTIES
  DisconnectedAreRemoved
CHECK_DEADLOCK FALSE
