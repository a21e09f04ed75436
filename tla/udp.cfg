SPECIFICATION FairUDPSpec
CONSTANTS
  Word = 65536
  From = 10
  To = 11
  Clients <- TwoClients
  Dests <- BothDests
  NoSession = NoSession
  SessionLife = 1
  CheckInterval = 1
  StartTime = 1
  DirectPorts = {10}
  MaxTime = 2
  Handlers = {h1, h2}
  MaxTunnels = 2
  FakeIPs = {9}
  DirectPeers <- MCDirectPeers
INVARIANTS UDPTypeOK TunnelsHavePumps LockHeldToDial
PROPERTIES EveryPacketHandled
CHECK_DEADLOCK FALSE
