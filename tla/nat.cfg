SPECIFICATION Spec
CONSTANTS
  Word = 65536
  From = 65532
  To = 65535
  Clients <- ThreeClients
  Dests = {d1, d2}
  NoSession = NoSession
  SessionLife = 2
  CheckInterval = 1
  StartTime = 1
  DirectPorts = {7, 65534}
  MaxTime = 5
INVARIANTS TypeOK PortsUnique MappedIffLeased SessionOwnsPort HandedInRange PanicOnlyByWrap
PROPERTIES NoEarlyExpiry NeverHandedOver RefinesLease
CHECK_DEADLOCK FALSE
