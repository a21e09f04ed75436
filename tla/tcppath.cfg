SPECIFICATION PathSpec
CONSTANTS
  d1 = d1
  d2 = d2
  pA = pA
  pB = pB
  NoDomain = NoDomain
  NoRecord = NoRecord
  NoSession = NoSession
  NoProxy = NoProxy
  Word = 256
  Byte = 16
  From = 10
  To = 11
  Clients <- MCClients
  Dests <- MCDests
  SessionLife = 2
  CheckInterval = 1
  StartTime = 1
  DirectPorts = {10}
  MaxTime = 3
  AddrSpace = 1024
  SubnetIP = 528
  HostMask = 3
  TunIP = 529
  MaxSpace = 32
  Domains = {d1, d2}
  NameSum <- MCNameSum
  ProxyOf <- MCProxyOf
  Proxies = {pA, pB}
  Ttl = 1
  TickPeriod = 2
  MinRecords = 0
  Service = 7
  RealHosts = {867}
  Knowing <- MCKnowing
  RelayPort = 6
  Rests = {430}
INVARIANTS PathTypeOK SessionKept RoutedAsAsked PacketsVerify
CHECK_DEADLOCK FALSE
