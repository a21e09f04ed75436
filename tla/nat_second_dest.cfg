SPECIFICATION Spec
CONSTANTS
  Word = 65536
  From = 10
  To = 14
  Clients <- TwoClients
  Dests = {d1, d2}
  NoSession = NoSession
  SessionLife = 2
  CheckInterval = 1
  StartTime = 1
  DirectPorts = {12}
  MaxTime = 2
PROPERTIES SessionDescribesCall
