SPECIFICATION Spec
CONSTANTS
  Writers = {1, 2, 3}
  Receivers = {1, 2}
  Acceptors = {1, 2}
  Conns = {1, 2}
  None = 0
  MaxDatagrams = 2
  MaxArrivals = 2
  Base = 3
  Segments = {1, 4}
  Ports = {1, 7}
INVARIANTS
  WritesExclusive DatagramsKept ConnectionsKept ConnectSafe AddressesConvert
PROPERTIES
  SocketsServe
