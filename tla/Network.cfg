SPECIFICATION Spec
CONSTANTS
  TcpSockets = 3
  UdpSockets = 2
  MaxStale = 1
  MaxSilent = 1
INVARIANTS
  ConnectedOnLink
  TcpSocketsAreOpen
  LinkIsUsed
  CommandIsHeard
PROPERTIES
  OrphansAreKnown
  CommandSocketStays
