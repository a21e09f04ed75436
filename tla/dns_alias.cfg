SPECIFICATION DnsSpec
CONSTANTS
  far = far
  near = near
  banned = banned
  pA = pA
  pB = pB
  NoDomain = NoDomain
  NoRecord = NoRecord
  NoProxy = NoProxy
  Names <- MCNames
  Addresses <- MCAddresses
  Country <- MCCountry
  Failed = Failed
  AddrSpace = 64
  SubnetIP = 16
  HostMask = 7
  TunIP = 17
  MaxSpace = 32
  Domains <- OtherOnly
  Checksum <- MCChecksum
  Proxies = {pA, pB}
  Ttl = 0
  AnswerTtls = {1}
  TickPeriod = 1
  MinRecords = 0
  MaxTime = 2
  ProxyHosts <- MCHosts
  PatternConfigs <- MCPatterns
  RuleConfig <- MCRule
  Final = NoProxy
  Handlers = {h1, h2}
  Answers <- AliasAnswers
INVARIANTS AliasesMatched
