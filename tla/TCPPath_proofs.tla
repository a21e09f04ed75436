--------------------------- MODULE TCPPath_proofs ---------------------------
(***************************************************************************)
(* Proofs about TCPPath, for any number of clients and domains: the path   *)
(* of a connection uses the NAT and the table of domains as their own      *)
(* specifications allow, so what is proved of them holds in it, and from   *)
(* both follows that connections keep their sessions and get where their   *)
(* clients want to go.  What is proved of the checksums of the packets     *)
(* comes first.                                                            *)
(***************************************************************************)
EXTENDS TCPPath, NatTable_proofs

(* The checksums of packets for every size of a word: what is written      *)
(* is what a receiver adds up to nothing.                                  *)
LEMMA WordSize == Short \in Nat /\ Short >= 4 /\ Byte \in Nat /\ Byte <= Short
<1>1. PICK k \in Nat : Byte = 2 + k
  <2>1. Byte - 2 \in Nat /\ Byte = 2 + (Byte - 2)
    BY ByteAssumption
  <2>. QED  BY <2>1
<1>2. Short = 4 + 4 * k + k * k /\ k * k \in Nat
  BY <1>1 DEF Short
<1>. QED  BY <1>1, <1>2

LEMMA Quotient ==
  ASSUME NEW W \in Nat, W >= 2, NEW q \in Nat, NEW r \in 0 .. W - 1
  PROVE  (q * W + r) \div W = q /\ (q * W + r) % W = r
OBVIOUS

LEMMA Halves ==
  ASSUME NEW W \in Nat, W >= 2, NEW s \in Nat
  PROVE  /\ s \div W \in Nat /\ s % W \in 0 .. W - 1
         /\ s = (s \div W) * W + (s % W)
OBVIOUS

(* Two words' worth: the high word of such a number is a word.             *)
LEMMA HighWord ==
  ASSUME NEW W \in Nat, W >= 2, NEW s \in 0 .. W * W - 1
  PROVE  s \div W \in 0 .. W - 1
<1> DEFINE q == s \div W
<1>1. s \in Nat
  OBVIOUS
<1>2. q \in Nat /\ s % W \in 0 .. W - 1 /\ s = q * W + (s % W)
  BY <1>1, Halves
<1>3. CASE q >= W
  <2>1. PICK k \in Nat : q = W + k
    <3>1. q - W \in Nat /\ q = W + (q - W)
      BY <1>2, <1>3
    <3>. QED  BY <3>1
  <2>2. q * W = W * W + k * W /\ k * W \in Nat /\ W * W \in Nat
    BY <2>1
  <2>. QED  BY <1>2, <2>2
<1>. QED  BY <1>2, <1>3

(* The sum of a packet with its own checksum: with s = q * Short + r it is  *)
(* q * Short plus the complement, in which r has gone.                      *)
LEMMA SumWithChecksum ==
  ASSUME NEW q \in 0 .. Short - 1, NEW r \in 0 .. Short - 1
  PROVE  LET s == q * Short + r
         IN  /\ ChecksumOf(s) \in 0 .. Short - 1
             /\ s + ChecksumOf(s) = IF q + r < Short
                                  THEN q * Short + (Short - 1 - q)
                                  ELSE q * Short + (2 * Short - 2 - q)
<1> DEFINE s == q * Short + r
<1>1. Short \in Nat /\ Short >= 2 /\ q \in Nat /\ r \in Nat
  BY WordSize
<1>2. s \div Short = q /\ s % Short = r
  BY <1>1, Quotient
<1>3. CASE q + r < Short
  <2>1. (q + r) \div Short = 0 /\ (q + r) % Short = q + r
    <3>1. q + r = 0 * Short + (q + r) /\ q + r \in 0 .. Short - 1
      BY <1>1, <1>3
    <3>. QED  BY <1>1, <3>1, Quotient
  <2>2. ChecksumOf(s) = Short - 1 - (q + r)
    BY <1>1, <1>2, <2>1 DEF ChecksumOf
  <2>3. q * Short \in Int
    BY <1>1
  <2>. QED  BY <1>1, <1>3, <2>2, <2>3
<1>4. CASE q + r >= Short
  <2>1. (q + r) \div Short = 1
    <3>1. q + r = 1 * Short + (q + r - Short) /\ q + r - Short \in 0 .. Short - 1
      BY <1>1, <1>4
    <3>. QED  BY <1>1, <3>1, Quotient
  <2>2. (q + r + 1) % Short = q + r + 1 - Short
    <3>1. q + r + 1 = 1 * Short + (q + r + 1 - Short)
          /\ q + r + 1 - Short \in 0 .. Short - 1
      BY <1>1, <1>4
    <3>. QED  BY <1>1, <3>1, Quotient
  <2>3. ChecksumOf(s) = Short - 1 - (q + r + 1 - Short)
    BY <1>1, <1>2, <2>1, <2>2 DEF ChecksumOf
  <2>4. q * Short \in Int
    BY <1>1
  <2>. QED  BY <1>1, <1>4, <2>3, <2>4
<1>. QED  BY <1>1, <1>3, <1>4

(* A sum whose halves add up to all ones is complemented to nothing, and   *)
(* so is one whose halves add up to twice that, which takes both foldings. *)
LEMMA AllOnes ==
  ASSUME NEW q \in Nat, NEW r \in 0 .. Short - 1,
         q + r = Short - 1 \/ q + r = 2 * Short - 2
  PROVE  ChecksumOf(q * Short + r) = 0
<1>1. Short \in Nat /\ Short >= 2 /\ r \in Nat
  BY WordSize
<1>2. (q * Short + r) \div Short = q /\ (q * Short + r) % Short = r
  BY <1>1, Quotient
<1>3. CASE q + r = Short - 1
  <2>1. Short - 1 = 0 * Short + (Short - 1) /\ Short - 1 \in 0 .. Short - 1
    BY <1>1
  <2>2. (Short - 1) \div Short = 0 /\ (Short - 1) % Short = Short - 1
    BY <1>1, <2>1, Quotient
  <2>. QED  BY <1>1, <1>2, <1>3, <2>2 DEF ChecksumOf
<1>4. CASE q + r = 2 * Short - 2
  <2>1. 2 * Short - 2 = 1 * Short + (Short - 2) /\ Short - 2 \in 0 .. Short - 1
    BY <1>1
  <2>2. (2 * Short - 2) \div Short = 1
    BY <1>1, <2>1, Quotient
  <2>3. 2 * Short - 1 = 1 * Short + (Short - 1) /\ Short - 1 \in 0 .. Short - 1
    BY <1>1
  <2>4. (2 * Short - 1) % Short = Short - 1
    BY <1>1, <2>3, Quotient
  <2>5. (q + r) + 1 = 2 * Short - 1
    BY <1>1, <1>4
  <2>. QED  BY <1>1, <1>2, <1>4, <2>2, <2>4, <2>5 DEF ChecksumOf
<1>. QED  BY <1>3, <1>4

(* What TestChecksum tests with one header: for every sum of two words     *)
(* (the code uses a uint32), the sum with its checksum added has the       *)
(* checksum zero (Checksum in tcpip/checksum.go).                          *)
THEOREM ChecksumVerifies ==
  \A s \in 0 .. Short * Short - 1 : ChecksumOf(s + ChecksumOf(s)) = 0
<1> SUFFICES ASSUME NEW s \in 0 .. Short * Short - 1
             PROVE  ChecksumOf(s + ChecksumOf(s)) = 0
  OBVIOUS
<1>1. Short \in Nat /\ Short >= 2
  BY WordSize
<1>2. s \in Nat
  BY <1>1
<1> DEFINE q == s \div Short
           r == s % Short
<1>3. q \in Nat /\ r \in 0 .. Short - 1 /\ s = q * Short + r
  BY <1>1, <1>2, Halves
<1>4. s \div Short \in 0 .. Short - 1
  BY <1>1, HighWord
<1>5. q \in 0 .. Short - 1
  BY <1>4
<1> HIDE DEF q, r
<1>6. s + ChecksumOf(s) = IF q + r < Short THEN q * Short + (Short - 1 - q)
                                       ELSE q * Short + (2 * Short - 2 - q)
  BY <1>3, <1>5, SumWithChecksum
<1>7. CASE q + r < Short
  <2>1. Short - 1 - q \in 0 .. Short - 1 /\ q + (Short - 1 - q) = Short - 1
    BY <1>1, <1>5
  <2>. QED  BY <1>3, <1>6, <1>7, <2>1, AllOnes
<1>8. CASE ~ (q + r < Short) /\ q = Short - 1
  <2>1. 2 * Short - 2 - q = Short - 1 /\ q + (Short - 1) = 2 * Short - 2
        /\ Short - 1 \in 0 .. Short - 1
    BY <1>1, <1>8
  <2>. QED  BY <1>3, <1>6, <1>8, <2>1, AllOnes
<1>9. CASE ~ (q + r < Short) /\ q < Short - 1
  <2>1. Short - 2 - q \in 0 .. Short - 1 /\ q + 1 \in Nat
        /\ (q + 1) + (Short - 2 - q) = Short - 1
    BY <1>1, <1>5, <1>9
  <2>2. q * Short + (2 * Short - 2 - q) = (q + 1) * Short + (Short - 2 - q)
    BY <1>1, <1>5
  <2>. QED  BY <1>6, <1>9, <2>1, <2>2, AllOnes
<1>. QED  BY <1>1, <1>5, <1>7, <1>8, <1>9
-----------------------------------------------------------------------------
(* The packets that the lemmas below are about: all that is bounded is the *)
(* sum of the words that KONE leaves alone, so that the sum of all stays   *)
(* within two words, as that of any packet of an MTU's length does.        *)
Sums == {n \in Nat : n + 16 * Short <= Short * Short}
Ips  == 0 .. Short * Short - 1
ShortWords == 0 .. Short - 1

TCPPackets ==
  [proto : {TCP}, src : Ips, dst : Ips, sport : ShortWords, dport : ShortWords,
   len : {20}, rest : Sums, head : Sums, check : Nat, ipcheck : Nat]

ICMPPackets ==
  [proto : {ICMP}, src : Ips, dst : Ips, type : {ICMPEcho, ICMPRequest},
   code : {0}, rest : Sums, head : Sums, check : Nat, ipcheck : Nat]

LEMMA AddrSumBound ==
  ASSUME NEW ip \in Ips
  PROVE  AddrSum(ip) \in Nat /\ AddrSum(ip) <= 2 * Short
<1>1. Short \in Nat /\ Short >= 2 /\ ip \in Nat
  BY WordSize DEF Ips
<1> DEFINE q == ip \div Short
           r == ip % Short
<1>2. q \in Nat /\ r \in 0 .. Short - 1 /\ ip = q * Short + r
  BY <1>1, Halves
<1>3. q \in 0 .. Short - 1
  BY <1>1, HighWord DEF Ips
<1>4. AddrSum(ip) = q + r
  BY DEF AddrSum
<1>. QED  BY <1>1, <1>2, <1>3, <1>4

LEMMA SumsBound ==
  ASSUME NEW p \in TCPPackets \cup ICMPPackets
  PROVE  /\ SegmentSum(p) \in 0 .. Short * Short - 1
         /\ HeaderSum(p) \in 0 .. Short * Short - 1
<1>1. Short \in Nat /\ Short >= 4 /\ Byte \in Nat /\ Byte <= Short
  BY WordSize
<1>2. p.src \in Ips /\ p.dst \in Ips /\ p.rest \in Sums /\ p.head \in Sums
  BY DEF TCPPackets, ICMPPackets
<1>3. /\ AddrSum(p.src) \in Nat /\ AddrSum(p.src) <= 2 * Short
      /\ AddrSum(p.dst) \in Nat /\ AddrSum(p.dst) <= 2 * Short
  BY <1>2, AddrSumBound
<1>4. PICK square \in Nat : square = Short * Short
  BY <1>1
<1>5. /\ p.rest \in Nat /\ p.rest + 16 * Short <= square
      /\ p.head \in Nat /\ p.head + 16 * Short <= square
  BY <1>2, <1>4 DEF Sums
<1>6. HeaderSum(p) \in 0 .. square - 1
  BY <1>1, <1>3, <1>5 DEF HeaderSum
<1>7. CASE p \in TCPPackets
  <2>1. p.proto = TCP /\ p.len = 20 /\ p.sport \in 0 .. Short - 1 /\ p.dport \in 0 .. Short - 1
    BY <1>7 DEF TCPPackets, ShortWords
  <2>2. SegmentSum(p) = AddrSum(p.src) + AddrSum(p.dst) + 6 + 20
                          + p.sport + p.dport + p.rest
    BY <2>1 DEF SegmentSum, PseudoSum, TCP, ICMP
  <2>. QED  BY <1>1, <1>3, <1>4, <1>5, <1>6, <2>1, <2>2
<1>8. CASE p \in ICMPPackets
  <2>1. p.proto = ICMP /\ p.code = 0 /\ (p.type = 0 \/ p.type = 8)
    BY <1>8 DEF ICMPPackets, ICMPEcho, ICMPRequest
  <2>2. SegmentSum(p) = p.type * Byte + 0 + p.rest
    BY <2>1 DEF SegmentSum
  <2>3. SegmentSum(p) = p.rest \/ SegmentSum(p) = 8 * Byte + p.rest
    BY <1>1, <1>5, <2>1, <2>2
  <2>. QED  BY <1>1, <1>4, <1>5, <1>6, <2>3
<1>. QED  BY <1>7, <1>8

LEMMA ChecksumIsWord ==
  ASSUME NEW s \in Nat
  PROVE  ChecksumOf(s) \in 0 .. Short - 1
<1> DEFINE once  == (s \div Short) + (s % Short)
           twice == once + (once \div Short)
<1>1. Short \in Nat /\ Short >= 2
  BY WordSize
<1>2. once \in Nat
  BY <1>1, Halves
<1>3. once \div Short \in Nat
  BY <1>1, <1>2, Halves
<1>4. twice % Short \in 0 .. Short - 1
  <2>1. twice \in Nat
    BY <1>2, <1>3
  <2> HIDE DEF twice
  <2>. QED  BY <1>1, <2>1, Halves
<1>5. ChecksumOf(s) = Short - 1 - (twice % Short)
  BY DEF ChecksumOf
<1> HIDE DEF twice
<1>. QED  BY <1>1, <1>4, <1>5

(* Packets stay packets when their checksums are reset. *)
LEMMA ResetStays ==
  /\ \A p \in TCPPackets : ResetChecksum(p) \in TCPPackets
  /\ \A p \in ICMPPackets : ResetChecksum(p) \in ICMPPackets
<1>1. \A p \in TCPPackets \cup ICMPPackets :
        SegmentSum(p) \in Nat /\ HeaderSum(p) \in Nat
  BY SumsBound
<1>2. \A p \in TCPPackets \cup ICMPPackets :
        /\ ChecksumOf(SegmentSum(p)) \in Nat
        /\ ChecksumOf(HeaderSum(p)) \in Nat
  BY <1>1, ChecksumIsWord, WordSize
<1>. QED  BY <1>2 DEF ResetChecksum, TCPPackets, ICMPPackets

LEMMA ResetVerifies ==
  ASSUME NEW p \in TCPPackets \cup ICMPPackets
  PROVE  Verifies(ResetChecksum(p))
<1> DEFINE q == ResetChecksum(p)
<1>1. SegmentSum(q) = SegmentSum(p) /\ HeaderSum(q) = HeaderSum(p)
  BY DEF ResetChecksum, SegmentSum, PseudoSum, HeaderSum, TCPPackets, ICMPPackets
<1>2. q.check = ChecksumOf(SegmentSum(p)) /\ q.ipcheck = ChecksumOf(HeaderSum(p))
  BY DEF ResetChecksum, TCPPackets, ICMPPackets
<1>. QED  BY <1>1, <1>2, SumsBound, ChecksumVerifies DEF Verifies

(* A TCP packet that goes from one place to another in a rewritten form    *)
(* has its checksums right (Filter in k1/tcp_relay.go, ResetChecksum).     *)
THEOREM RewrittenVerifies ==
  ASSUME NEW p \in TCPPackets, NEW from \in [ip : Ips, port : ShortWords],
         NEW to \in [ip : Ips, port : ShortWords]
  PROVE  Verifies(Rewritten(p, from, to))
<1>1. [p EXCEPT !.src = from.ip, !.sport = from.port,
                !.dst = to.ip, !.dport = to.port] \in TCPPackets
  BY DEF TCPPackets
<1>. QED  BY <1>1, ResetVerifies DEF Rewritten

(* The answer to an echo request has, too (icmpFilterFunc, k1/filters.go). *)
THEOREM EchoVerifies ==
  ASSUME NEW p \in ICMPPackets
  PROVE  Verifies(EchoReply(p))
<1>1. [p EXCEPT !.type = ICMPEcho, !.src = p.dst, !.dst = p.src] \in ICMPPackets
  BY DEF ICMPPackets
<1>. QED  BY <1>1, ResetVerifies DEF EchoReply
-----------------------------------------------------------------------------
(* The table of domains as D has it, with what is proved of it.            *)
DP == INSTANCE DnsTable_proofs
        WITH Checksum <- NameSum, AnswerTtls <- {}, nonProxy <- [d \in Domains |-> -1],
             now <- now - StartTime, MaxTime <- MaxTime - StartTime

LEMMA TableAssumptions ==
  DP!PoolAssumption /\ DP!TableAssumption /\ DP!NoRecordAssumption
BY TablesAssumption
   DEF D!PoolAssumption, D!TableAssumption, D!NoRecordAssumption,
       DP!PoolAssumption, DP!TableAssumption, DP!NoRecordAssumption,
       D!Record, DP!Record, D!Addrs, DP!Addrs

(* D and DP mean the same. *)
LEMMA SamePool ==
  /\ D!Addrs = DP!Addrs /\ D!base = DP!base /\ D!max = DP!max
  /\ D!space = DP!space /\ D!Indices = DP!Indices /\ D!PoolAddrs = DP!PoolAddrs
  /\ D!Never = DP!Never /\ D!threshold = DP!threshold /\ D!Record = DP!Record
  /\ D!NewFlags = DP!NewFlags
  /\ D!InitTable <=> DP!InitTable
BY DEF D!Addrs, DP!Addrs, D!base, DP!base, D!max, DP!max, D!space, DP!space,
       D!Indices, DP!Indices, D!PoolAddrs, DP!PoolAddrs, D!AddrOf, DP!AddrOf,
       D!Never, DP!Never, D!threshold, DP!threshold, D!Record, DP!Record,
       D!NewFlags, DP!NewFlags, D!Index, DP!Index, D!InitTable, DP!InitTable
LEMMA SameContains == \A ip : D!Contains(ip) <=> DP!Contains(ip)
BY SamePool DEF D!Contains, DP!Contains, D!Index, DP!Index
LEMMA SameState ==
  /\ D!Hijacked = DP!Hijacked /\ D!Expired = DP!Expired
  /\ D!tableVars = DP!tableVars
<1>1. D!Cardinality(D!Hijacked) = DP!Cardinality(DP!Hijacked)
  BY DEF D!Cardinality, DP!Cardinality, D!IsFiniteSet, DP!IsFiniteSet, D!Hijacked, DP!Hijacked
<1> QED
  BY <1>1, SamePool DEF D!Hijacked, DP!Hijacked, D!Expired, DP!Expired,
                        D!tableVars, DP!tableVars
LEMMA SameSteps ==
  /\ \A d : D!Get(d) <=> DP!Get(d)
  /\ \A ip : D!GetByIP(ip) <=> DP!GetByIP(ip)
  /\ \A d, proxy : D!SetNew(d, proxy) <=> DP!SetNew(d, proxy)
  /\ D!Tick <=> DP!Tick
  /\ D!ReadTick <=> DP!ReadTick
  /\ D!clearExpiredDomain <=> DP!clearExpiredDomain
  /\ D!clearExpiredNonProxyDomain <=> DP!clearExpiredNonProxyDomain
<1>1. \A d : D!Touched(d) = DP!Touched(d)
  BY SameState DEF D!Touched, DP!Touched
<1>2. \A d : D!Get(d) <=> DP!Get(d)
  BY <1>1 DEF D!Get, DP!Get
<1>3. \A ip : D!GetByIP(ip) <=> DP!GetByIP(ip)
  BY <1>1, SamePool DEF D!GetByIP, DP!GetByIP
<1>4. ASSUME NEW d, NEW proxy  PROVE D!SetNew(d, proxy) <=> DP!SetNew(d, proxy)
  <2>1. D!FreeIndices(flags) = DP!FreeIndices(flags)
    BY SamePool DEF D!FreeIndices, DP!FreeIndices
  <2>2. D!AllocIndex(flags, d) = DP!AllocIndex(flags, d)
    BY <2>1, SamePool DEF D!AllocIndex, DP!AllocIndex, D!HintIndex, DP!HintIndex, D!Min, DP!Min
  <2>3. D!AddrOf(D!AllocIndex(flags, d)) = DP!AddrOf(DP!AllocIndex(flags, d))
    BY <2>2, SamePool DEF D!AddrOf, DP!AddrOf
  <2> QED
    BY <2>1, <2>2, <2>3, SameState DEF D!SetNew, DP!SetNew
<1>5. D!Tick <=> DP!Tick
  BY SamePool DEF D!Tick, DP!Tick, D!tableVars, DP!tableVars
<1>6. D!ReadTick <=> DP!ReadTick
  BY SamePool DEF D!ReadTick, DP!ReadTick, D!tableVars, DP!tableVars
<1>7. D!clearExpiredDomain <=> DP!clearExpiredDomain
  <2>1. \A ips : D!Released(flags, ips) = DP!Released(flags, ips)
    BY SamePool DEF D!Released, DP!Released, D!Index, DP!Index
  <2> QED
    BY <2>1, SamePool, SameState DEF D!clearExpiredDomain, DP!clearExpiredDomain
<1>8. D!clearExpiredNonProxyDomain <=> DP!clearExpiredNonProxyDomain
  BY SamePool DEF D!clearExpiredNonProxyDomain, DP!clearExpiredNonProxyDomain
<1> QED
  BY <1>2, <1>3, <1>4, <1>5, <1>6, <1>7, <1>8
-----------------------------------------------------------------------------
(* The client's side in its type: the rest of PathTypeOK. *)
Answer    == [domain : Domains, ip : PoolAddrs, asked : Nat]
ConnTypes == /\ answer \in [Clients -> Answer \cup {NoAnswer}]
             /\ conn \in [Clients -> Conn \cup {NoConn}]

(* Every step is a step of the NAT or leaves it alone ... *)
LEMMA StepsOfNat ==
  ASSUME ConnTypes, [PathNext]_pathVars
  PROVE  [Next]_vars
<1>1. ASSUME NEW c \in Clients, Client(c) \/ RelaySide(c)
      PROVE  [Next]_vars
  <2>1. ASSUME NEW d \in Domains, Lookup(c, d)  PROVE UNCHANGED vars
    BY <2>1 DEF Lookup
  <2>2. CASE ConnectByName(c) \/ ConnectByAddr(c)
    BY <2>2 DEF ConnectByName, ConnectByAddr, Next
  <2>3. CASE Send(c)
    <3>1. conn[c].dst \in Dests
      BY <2>3 DEF Send, ConnTypes, Conn, NoConn
    <3> QED
      BY <2>3, <3>1 DEF Send, Next
  <2>4. CASE Ping(c) \/ Close(c) \/ FindRecord(c)
    BY <2>4 DEF Ping, Close, FindRecord
  <2>5. CASE Reply(c) \/ FindSession(c)
    <3>1. GetSession(conn[c].port) /\ conn[c].port \in PeerPorts
      BY <2>5 DEF Reply, FindSession, GetSession
    <3> QED
      BY <3>1 DEF Next
  <2> QED
    BY <1>1, <2>1, <2>2, <2>3, <2>4, <2>5 DEF Client, RelaySide
<1>2. CASE Allocating \/ Redirect
  BY <1>2 DEF Allocating, Redirect, Next
<1>3. CASE Sweep \/ Pass
  BY <1>3 DEF Sweep, Pass, Next
<1>4. CASE UNCHANGED pathVars
  BY <1>4 DEF pathVars
<1>5. CASE DirectPeer
  BY <1>5 DEF DirectPeer, GetSession, Next
<1> QED
  BY <1>1, <1>2, <1>3, <1>4, <1>5 DEF PathNext

(* ... and a step of the table, or leaves that alone. *)
LEMMA StepsOfTable ==
  ASSUME [PathNext]_pathVars
  PROVE  [DP!Next]_(DP!vars)
<1> USE DEF DP!vars, DP!tableVars, DP!clockVars
<1>1. ASSUME NEW c \in Clients, NEW d \in Domains, Lookup(c, d)
      PROVE  DP!Next
  <2>1. UNCHANGED DP!clockVars
    BY <1>1 DEF Lookup, vars
  <2>2. ProxyOf[d] \in Proxies
    BY PathAssumption
  <2>3. DP!Get(d) \/ DP!SetNew(d, ProxyOf[d])
    BY <1>1, SameSteps DEF Lookup
  <2> QED
    BY <2>1, <2>2, <2>3 DEF DP!Next
<1>2. ASSUME NEW c \in Clients, FindRecord(c)
      PROVE  [DP!Next]_(DP!vars)
  <2>1. UNCHANGED DP!clockVars
    BY <1>2 DEF FindRecord, vars
  <2>2. DP!GetByIP(conn[c].host)
    BY <1>2, SameSteps DEF FindRecord
  <2>3. CASE conn[c].host \in DP!PoolAddrs
    BY <2>1, <2>2, <2>3 DEF DP!Next
  <2>4. CASE conn[c].host \notin DP!PoolAddrs
    BY <2>1, <2>2, <2>4 DEF DP!GetByIP
  <2> QED
    BY <2>3, <2>4
<1>3. CASE Sweep
  BY <1>3, SameSteps DEF Sweep, DP!Next
<1>4. CASE Pass
  BY <1>4, SameSteps DEF Pass, DP!Next
<1>5. ASSUME UNCHANGED tableVars, UNCHANGED now
      PROVE  UNCHANGED DP!vars
  BY <1>5 DEF tableVars
<1>6. ASSUME NEW c \in Clients,
             \/ ConnectByName(c) \/ ConnectByAddr(c) \/ Send(c) \/ Ping(c)
             \/ Close(c) \/ Reply(c) \/ FindSession(c)
      PROVE  UNCHANGED tableVars /\ UNCHANGED now
  BY <1>6 DEF ConnectByName, ConnectByAddr, Send, Ping, Close, Reply, FindSession,
              AllocBegin, GetSession, vars
<1>7. ASSUME Allocating \/ Redirect \/ UNCHANGED pathVars
      PROVE  UNCHANGED tableVars /\ UNCHANGED now
  BY <1>7 DEF Allocating, Redirect, pathVars, vars, ClearExpired, MapSkip,
              MapPanic, MapKnown, MapNew, MapFull
<1>8. CASE DirectPeer
  <2>1. ASSUME NEW port \in DirectPorts, GetSession(port), UNCHANGED tableVars
        PROVE  UNCHANGED DP!vars
    BY <1>5, <2>1 DEF GetSession
  <2>2. ASSUME UNCHANGED <<vars, ticks, cleaner>>,
               NEW ip \in PoolAddrs, D!GetByIP(ip)
        PROVE  DP!Next
    <3>1. UNCHANGED DP!clockVars
      BY <2>2 DEF vars
    <3>2. ip \in DP!PoolAddrs /\ DP!GetByIP(ip)
      BY <2>2, SamePool, SameSteps DEF PoolAddrs
    <3> QED
      BY <3>1, <3>2 DEF DP!Next
  <2> QED
    BY <1>8, <2>1, <2>2 DEF DirectPeer
<1> QED
  BY <1>1, <1>2, <1>3, <1>4, <1>5, <1>6, <1>7, <1>8 DEF PathNext, Client, RelaySide

LEMMA InitOfTable == PathInit => DP!Init
BY SamePool, NatAssumption DEF PathInit, Init, DP!Init, DP!InitClock
-----------------------------------------------------------------------------
(* A client that holds a port has a session of its own there. *)
OwnSessions ==
  \A c \in Clients :
    LET p == h2Port[hashAddr(c)]
    IN  p # NoPort => /\ p \in From .. To - 1 /\ Slot(p) \in Slots
                      /\ sessions[Slot(p)] \in NatSession
                      /\ sessions[Slot(p)] # NoSession
                      /\ sessions[Slot(p)].src = c

LEMMA OwnSession == IInv => OwnSessions
<1> SUFFICES ASSUME IInv, NEW c \in Clients, h2Port[hashAddr(c)] # NoPort
             PROVE  LET p == h2Port[hashAddr(c)]
                    IN  /\ p \in From .. To - 1 /\ Slot(p) \in Slots
                        /\ sessions[Slot(p)] \in NatSession
                        /\ sessions[Slot(p)] # NoSession
                        /\ sessions[Slot(p)].src = c
  BY DEF OwnSessions
<1> USE DEF IInv
<1> DEFINE h == hashAddr(c)
           p == h2Port[h]
<1>1. h \in Hashes /\ p \in From .. To - 1
  BY DEF Hashes, TypeOK
<1>2. Slot(p) \in Slots /\ p = From + Slot(p)
  BY <1>1, PortHasSlot
<1>3. mapped[Slot(p)]
  BY <1>1, <1>2 DEF MappedIffLeased
<1>4. sessions[Slot(p)] # NoSession /\ sessions[Slot(p)] \in NatSession
  BY <1>2, <1>3 DEF SessionOwnsPort, TypeOK
<1>5. sessions[Slot(p)].src \in Clients /\ h2Port[hashAddr(sessions[Slot(p)].src)] = p
  BY <1>2, <1>4 DEF SessionOwnsPort, NatSession
<1>6. hashAddr(sessions[Slot(p)].src) = h
  BY <1>1, <1>5 DEF LeasesDisjoint, Hashes
<1> QED
  BY <1>1, <1>2, <1>4, <1>5, <1>6, HashInjective

LEMMA OwnSessionNext == IInv' => OwnSessions'
BY OwnSession, PTL

(* The packets' ends and the addresses that records and sessions have. *)
LEMMA Ends ==
  /\ D!Addrs = 0 .. AddrSpace - 1 /\ 0 \in D!Addrs
  /\ PoolAddrs \subseteq D!Addrs /\ PoolAddrs = DP!PoolAddrs
  /\ \A dst \in Dests : /\ dst.ip \in D!Addrs /\ dst.ip \in PoolAddrs \cup RealHosts
                        /\ dst.port = Service
  /\ \A ip \in PoolAddrs : D!Contains(ip)
<1>1. D!Addrs = 0 .. AddrSpace - 1 /\ 0 \in D!Addrs
  BY TablesAssumption DEF D!PoolAssumption, D!Addrs
<1>2. \A i \in DP!Indices : DP!AddrOf(i) \in DP!Addrs /\ DP!Index(DP!AddrOf(i)) = i
  BY DP!AddrOfIndex, TableAssumptions
<1>3. PoolAddrs \subseteq D!Addrs /\ PoolAddrs = DP!PoolAddrs
  BY <1>2, SamePool DEF PoolAddrs, DP!PoolAddrs
<1>4. ASSUME NEW ip \in PoolAddrs  PROVE D!Contains(ip)
  <2>1. PICK i \in DP!Indices : ip = DP!AddrOf(i)
    BY <1>3, <1>4 DEF DP!PoolAddrs
  <2>2. DP!Index(ip) = i /\ i < DP!space
    BY <1>2, <2>1, DP!PoolShape, TableAssumptions DEF DP!Indices
  <2> QED
    BY <2>2, SameContains DEF DP!Contains
<1>5. ASSUME NEW dst \in Dests
      PROVE  dst.ip \in PoolAddrs \cup RealHosts /\ dst.port = Service
  BY PathAssumption
<1> QED
  BY <1>1, <1>3, <1>4, <1>5, PathAssumption

LEMMA SameTypes == D!TypeOK <=> DP!TypeOK
BY SamePool DEF D!TypeOK, DP!TypeOK

(* The invariant of the composition: those of the two tables, and types.   *)
Joint == IInv /\ SweepJustified /\ DP!IInv /\ ConnTypes

(* What the relay's goroutine finds: the destination of a session ...      *)
LEMMA SessionFound ==
  ASSUME Joint, NEW port \in PeerPorts, GetSession(port), ~ panicked',
         SessionAt(port) # NoSession
  PROVE  /\ Slot(port) \in Slots /\ SessionAt(port) \in NatSession
         /\ SessionAt(port).dst.ip \in D!Addrs
         /\ SessionAt(port).dst.ip \in PoolAddrs \cup RealHosts
<1>1. Slot(port) \in Slots
  BY DEF GetSession
<1>2. SessionAt(port) \in NatSession
  BY <1>1 DEF Joint, IInv, TypeOK, SessionAt
<1>3. SessionAt(port).dst \in Dests
  BY <1>2 DEF NatSession
<1> QED
  BY <1>1, <1>2, <1>3, Ends

(* ... and the record of that.                                             *)
LEMMA RecordFound ==
  ASSUME Joint, NEW ip \in PoolAddrs, ip2Domain[ip] # NoDomain
  PROVE  /\ ip2Domain[ip] \in Domains
         /\ records[ip2Domain[ip]] # NoRecord
         /\ records[ip2Domain[ip]] \in DP!Record
         /\ records[ip2Domain[ip]].ip = ip
         /\ records[ip2Domain[ip]].proxy \in Proxies
<1>1. ip \in DP!PoolAddrs
  BY Ends
<1> QED
  BY <1>1 DEF Joint, DP!IInv, DP!TypeOK, DP!MapsAgree, DP!Hijacked, DP!Record

(* A forged answer has the address of the record. *)
LEMMA AnswerGiven ==
  ASSUME DP!IInv, DP!IInv', NEW c \in Clients, NEW d \in Domains, Lookup(c, d)
  PROVE  /\ records'[d] # NoRecord /\ records'[d].ip \in PoolAddrs
         /\ records'[d].expires = now - StartTime + Ttl
<1> DEFINE life == now - StartTime + Ttl
<1>1. CASE d \in D!Hijacked /\ D!Get(d)
  <2>1. records' = [records EXCEPT ![d].expires = life]
    BY <1>1 DEF D!Get, D!Touched
  <2>2. records[d] \in DP!Record /\ records \in [Domains -> DP!Record \cup {NoRecord}]
    BY <1>1 DEF D!Hijacked, DP!IInv, DP!TypeOK
  <2>3. records'[d] = [records[d] EXCEPT !.expires = life]
    BY <2>1, <2>2
  <2>4. records'[d].expires = life /\ records'[d].ip = records[d].ip
    BY <2>2, <2>3 DEF DP!Record
  <2>5. records[d].ip \in PoolAddrs
    BY <1>1, Ends DEF D!Hijacked, DP!IInv, DP!MapsAgree, DP!Hijacked
  <2>6. DP!SamePlaces
    BY <1>1, SameSteps, DP!TouchKeepsPlaces, TableAssumptions DEF DP!Get
  <2>7. records'[d] # NoRecord
    BY <1>1, <2>6 DEF DP!SamePlaces, D!Hijacked
  <2> QED
    BY <2>4, <2>5, <2>7
<1>2. CASE D!SetNew(d, ProxyOf[d])
  <2>1. DP!SetNew(d, ProxyOf[d]) /\ ProxyOf[d] \in Proxies
    BY <1>2, SameSteps, PathAssumption
  <2>2. d \in DP!Hijacked'
    BY <2>1, DP!SetNewRecords, TableAssumptions
  <2>3. records'[d] # NoRecord /\ records'[d].ip \in DP!PoolAddrs
    BY <2>2 DEF DP!Hijacked, DP!IInv, DP!MapsAgree
  <2>4. records \in [Domains -> DP!Record \cup {NoRecord}]
    BY DEF DP!IInv, DP!TypeOK
  <2>5. records'[d].expires = life
    BY <2>1, <2>4 DEF DP!SetNew
  <2> QED
    BY <2>3, <2>5, Ends
<1> QED
  BY <1>1, <1>2 DEF Lookup

(* A port that allocSession returns has a session of the packet's client.  *)
LEMMA PortAllocated ==
  ASSUME Joint, IInv', MapKnown \/ MapNew \/ MapFull
  PROVE  /\ alloc # Idle /\ alloc.src \in Clients /\ alloc.dst \in Dests
         /\ alloc' = Idle /\ now' = now
         /\ AllocPort \in 0 .. Word - 1
         /\ AllocPort # 0 =>
              /\ Slot(AllocPort) \in Slots
              /\ sessions'[Slot(AllocPort)] \in NatSession
              /\ sessions'[Slot(AllocPort)] # NoSession
              /\ sessions'[Slot(AllocPort)].src = alloc.src
<1>1. alloc # Idle /\ alloc' = Idle /\ now' = now
  BY DEF MapKnown, MapNew, MapFull, Searching, Idle
<1>2. alloc.src \in Clients /\ alloc.dst \in Dests
  BY <1>1 DEF Joint, IInv, TypeOK, Calls
<1>3. OwnSessions'
  BY OwnSessionNext
<1> DEFINE p == h2Port'[hashAddr(alloc.src)]
<1>4. p # NoPort => /\ p \in From .. To - 1 /\ Slot(p) \in Slots
                    /\ sessions'[Slot(p)] \in NatSession
                    /\ sessions'[Slot(p)] # NoSession
                    /\ sessions'[Slot(p)].src = alloc.src
  BY <1>2, <1>3 DEF OwnSessions
<1>5. AllocPort = IF p = NoPort THEN 0 ELSE p
  BY DEF AllocPort
<1> HIDE DEF p
<1>6. 0 \in 0 .. Word - 1 /\ (p # NoPort => p \in 0 .. Word - 1)
  BY <1>4, NatAssumption
<1> QED
  BY <1>1, <1>2, <1>4, <1>5, <1>6

LEMMA TouchTypes ==
  ASSUME NEW k \in Conn, now \in Nat
  PROVE  Touch(k) \in Conn
<1>1. now + SessionLife \in Nat
  BY NatAssumption
<1> QED
  BY <1>1 DEF Touch, Conn

LEMMA AcceptedTypes ==
  ASSUME NEW k \in Conn, NEW port \in 0 .. Word - 1,
         port # 0 => sessions'[Slot(port)] \in NatSession
  PROVE  Accepted(k, port) \in Conn
<1>1. CASE port = 0
  <2>1. Accepted(k, port) = [k EXCEPT !.pc = "accept"]
    BY <1>1 DEF Accepted
  <2> QED
    BY <2>1 DEF Conn
<1>2. CASE port # 0
  <2> DEFINE until == sessions'[Slot(port)].lastTouch + SessionLife
             live == sessions'[Slot(port)].dst = k.dst
  <2>1. until \in Nat /\ live \in BOOLEAN
    BY <1>2, NatAssumption DEF NatSession
  <2>2. Accepted(k, port) = [k EXCEPT !.pc = "accept", !.port = port,
                                      !.until = until, !.live = live]
    BY <1>2 DEF Accepted
  <2> HIDE DEF until, live
  <2> QED
    BY <2>1, <2>2 DEF Conn
<1> QED
  BY <1>1, <1>2

LEMMA Attempted ==
  ASSUME NEW dst \in Dests, NEW want \in Domains \cup RealHosts, NEW due \in Nat
  PROVE  Attempt(dst, want, due) \in Conn
<1>1. 0 \in 0 .. Word - 1 /\ 0 \in Domains \cup D!Addrs
  BY NatAssumption, Ends
<1> QED
  BY <1>1 DEF Attempt, Conn

(* Every step keeps the types of the answers ... *)
LEMMA AnswerStep ==
  ASSUME Joint, DP!IInv', [PathNext]_pathVars
  PROVE  answer' \in [Clients -> Answer \cup {NoAnswer}]
<1>1. answer \in [Clients -> Answer \cup {NoAnswer}] /\ now \in Nat
  BY DEF Joint, ConnTypes, IInv, TypeOK
<1>2. ASSUME NEW c \in Clients, NEW d \in Domains, Lookup(c, d)
      PROVE  answer' \in [Clients -> Answer \cup {NoAnswer}]
  <2>1. records'[d].ip \in PoolAddrs
    BY <1>2, AnswerGiven DEF Joint
  <2>2. [domain |-> d, ip |-> records'[d].ip, asked |-> now] \in Answer
    BY <1>1, <2>1 DEF Answer
  <2> QED
    BY <1>1, <1>2, <2>2 DEF Lookup
<1>3. CASE Pass
  BY <1>1, <1>3 DEF Pass
<1>4. ASSUME NEW c \in Clients,
             \/ ConnectByName(c) \/ ConnectByAddr(c) \/ Send(c) \/ Ping(c)
             \/ Close(c) \/ RelaySide(c)
      PROVE  answer' = answer
  BY <1>4 DEF ConnectByName, ConnectByAddr, Send, Ping, Close, RelaySide, Reply,
              FindSession, FindRecord
<1>5. ASSUME \/ Allocating \/ Redirect \/ DirectPeer \/ Sweep
             \/ UNCHANGED pathVars
      PROVE  answer' = answer
  BY <1>5 DEF Allocating, Redirect, DirectPeer, Sweep, pathVars
<1>6. ASSUME NEW c \in Clients, Client(c) \/ RelaySide(c)
      PROVE  answer' \in [Clients -> Answer \cup {NoAnswer}]
  <2>1. (\E d \in Domains : Lookup(c, d)) \/ answer' = answer
    BY <1>4, <1>6 DEF Client
  <2> QED
    BY <1>1, <1>2, <2>1
<1>7. \/ \E c \in Clients : Client(c) \/ RelaySide(c)
      \/ Pass
      \/ Allocating \/ Redirect \/ DirectPeer \/ Sweep
      \/ UNCHANGED pathVars
  BY DEF PathNext
<1> QED
  BY <1>1, <1>3, <1>5, <1>6, <1>7

(* ... and of the connections.                                             *)
LEMMA ConnStep ==
  ASSUME Joint, IInv', [PathNext]_pathVars
  PROVE  conn' \in [Clients -> Conn \cup {NoConn}]
<1> DEFINE Typed == conn' \in [Clients -> Conn \cup {NoConn}]
<1>1. /\ answer \in [Clients -> Answer \cup {NoAnswer}]
      /\ conn \in [Clients -> Conn \cup {NoConn}]
      /\ now \in Nat /\ MaxTime \in Nat /\ Ttl \in Nat
  BY NatAssumption, TableAssumptions DEF Joint, ConnTypes, IInv, TypeOK, DP!TableAssumption
<1>2. ASSUME NEW c \in Clients, ConnectByName(c)
      PROVE  Typed
  <2>1. answer[c].domain \in Domains /\ answer[c].asked + Ttl \in Nat
    BY <1>1, <1>2 DEF ConnectByName, Answer
  <2>2. PICK dst \in Dests :
          conn' = [conn EXCEPT ![c] = Attempt(dst, answer[c].domain, answer[c].asked + Ttl)]
    BY <1>2 DEF ConnectByName
  <2> QED
    BY <1>1, <2>1, <2>2, Attempted
<1>3. ASSUME NEW c \in Clients, ConnectByAddr(c)
      PROVE  Typed
  <2>1. PICK dst \in Dests : /\ dst.ip \in RealHosts
                             /\ conn' = [conn EXCEPT ![c] = Attempt(dst, dst.ip, MaxTime)]
    BY <1>3 DEF ConnectByAddr
  <2> QED
    BY <1>1, <2>1, Attempted
<1>4. CASE Redirect
  <2>1. MapKnown \/ MapNew \/ MapFull
    BY <1>4 DEF Redirect
  <2> DEFINE c == alloc.src
             k == Accepted(conn[c], AllocPort)
  <2>2. c \in Clients /\ conn' \in {conn, [conn EXCEPT ![c] = k]}
    BY <1>4, <2>1, PortAllocated DEF Redirect
  <2>3. CASE conn[c].pc = "syn"
    <3>1. conn[c] \in Conn
      BY <1>1, <2>2, <2>3 DEF NoConn
    <3>2. k \in Conn
      BY <2>1, <3>1, PortAllocated, AcceptedTypes
    <3> QED
      BY <1>1, <2>2, <3>2
  <2>4. CASE conn[c].pc # "syn"
    BY <1>1, <1>4, <2>4 DEF Redirect
  <2> QED
    BY <2>3, <2>4
<1>5. ASSUME NEW c \in Clients, Reply(c)
      PROVE  Typed
  <2>1. conn' = conn \/ conn' = [conn EXCEPT ![c] = Touch(conn[c])]
    BY <1>5 DEF Reply
  <2>2. conn[c] \in Conn
    BY <1>1, <1>5 DEF Reply, Has, NoConn
  <2> QED
    BY <1>1, <2>1, <2>2, TouchTypes
<1>6. ASSUME NEW c \in Clients, FindSession(c)
      PROVE  Typed
  <2> DEFINE k == [conn[c] EXCEPT !.live = conn[c].live /\ now < conn[c].until]
             s == SessionAt(k.port)
  <2>1. conn[c] \in Conn /\ conn[c].live \in BOOLEAN
    BY <1>1, <1>6 DEF FindSession, Has, NoConn, Conn
  <2>2. k \in Conn /\ k.port = conn[c].port
    BY <2>1 DEF Conn
  <2>3. CASE panicked'
    BY <1>1, <1>6, <2>3 DEF FindSession
  <2>4. CASE ~ panicked' /\ s = NoSession
    <3>1. conn' = [conn EXCEPT ![c] = [k EXCEPT !.pc = "refused"]]
      BY <1>6, <2>4 DEF FindSession
    <3>2. [k EXCEPT !.pc = "refused"] \in Conn
      BY <2>2 DEF Conn
    <3> HIDE DEF k
    <3> QED
      BY <1>1, <3>1, <3>2
  <2>5. CASE ~ panicked' /\ s # NoSession
    <3>1. conn' = [conn EXCEPT ![c] = [Touch(k) EXCEPT !.pc = "record", !.host = s.dst.ip]]
      BY <1>6, <2>5 DEF FindSession
    <3>2. s.dst.ip \in Domains \cup D!Addrs
      BY <1>6, <2>2, <2>5, SessionFound DEF FindSession, GetSession
    <3>3. Touch(k) \in Conn
      BY <1>1, <2>2, TouchTypes
    <3> HIDE DEF k, s
    <3>4. [Touch(k) EXCEPT !.pc = "record", !.host = s.dst.ip] \in Conn
      BY <3>2, <3>3 DEF Conn
    <3> QED
      BY <1>1, <3>1, <3>4
  <2> QED
    BY <2>3, <2>4, <2>5
<1>7. ASSUME NEW c \in Clients, FindRecord(c)
      PROVE  Typed
  <2> DEFINE k == [conn[c] EXCEPT !.live = conn[c].live /\ now <= conn[c].due]
  <2>1. conn[c] \in Conn
    BY <1>1, <1>7 DEF FindRecord, Has, NoConn
  <2>2. k \in Conn
    BY <2>1 DEF Conn
  <2>3. conn' = [conn EXCEPT ![c] = RealHost(k)]
    BY <1>7 DEF FindRecord
  <2> HIDE DEF k
  <2>4. CASE k.host \in PoolAddrs /\ ip2Domain[k.host] # NoDomain
    <3>1. ip2Domain[k.host] \in Domains /\ records[ip2Domain[k.host]].proxy \in Proxies
      BY <2>4, RecordFound
    <3> QED
      BY <1>1, <2>2, <2>3, <2>4, <3>1 DEF RealHost, Conn
  <2>5. CASE ~ (k.host \in PoolAddrs /\ ip2Domain[k.host] # NoDomain)
    BY <1>1, <2>2, <2>3, <2>5 DEF RealHost, Conn
  <2> QED
    BY <2>4, <2>5
<1>8. ASSUME NEW c \in Clients,
             (\E d \in Domains : Lookup(c, d)) \/ Send(c) \/ Ping(c) \/ Close(c)
      PROVE  Typed
  <2>1. conn' = conn \/ conn' = [conn EXCEPT ![c] = NoConn]
    BY <1>8 DEF Lookup, Send, Ping, Close
  <2> QED
    BY <1>1, <2>1
<1>9. CASE Allocating \/ DirectPeer \/ Sweep \/ Pass \/ UNCHANGED pathVars
  <2>1. conn' = conn
    BY <1>9 DEF Allocating, DirectPeer, Sweep, Pass, pathVars
  <2> QED
    BY <1>1, <2>1
<1> HIDE DEF Typed
<1>10. ASSUME NEW c \in Clients, Client(c) \/ RelaySide(c)
       PROVE  Typed
  BY <1>2, <1>3, <1>5, <1>6, <1>7, <1>8, <1>10 DEF Client, RelaySide
<1> QED
  BY <1>4, <1>9, <1>10 DEF PathNext, Typed

LEMMA JointInit == PathInit => Joint
<1> SUFFICES ASSUME PathInit  PROVE Joint
  OBVIOUS
<1>1. IInv
  BY InitEstablishes DEF PathInit
<1>2. SweepJustified
  BY DEF PathInit, Init, SweepJustified, Idle
<1>3. DP!IInv
  BY InitOfTable, DP!InitEstablishes, TableAssumptions
<1>4. ConnTypes
  BY DEF PathInit, ConnTypes
<1> QED
  BY <1>1, <1>2, <1>3, <1>4 DEF Joint

LEMMA JointStep == Joint /\ [PathNext]_pathVars => Joint'
<1> SUFFICES ASSUME Joint, [PathNext]_pathVars  PROVE Joint'
  OBVIOUS
<1>1. [Next]_vars /\ [DP!Next]_(DP!vars)
  BY StepsOfNat, StepsOfTable DEF Joint
<1>2. IInv' /\ SweepJustified'
  BY <1>1, StepKeeps, SweepStep DEF Joint
<1>3. DP!IInv'
  BY <1>1, DP!StepKeeps, TableAssumptions DEF Joint
<1>4. ConnTypes'
  BY <1>2, <1>3, AnswerStep, ConnStep DEF ConnTypes
<1> QED
  BY <1>2, <1>3, <1>4 DEF Joint

LEMMA JointInvariance == PathSpec => []Joint
BY JointInit, JointStep, PTL DEF PathSpec

(* Every variable of the path keeps its type. *)
THEOREM PathTypeCorrect == PathSpec => []PathTypeOK
<1>1. Joint => PathTypeOK
  BY SameTypes DEF Joint, IInv, DP!IInv, ConnTypes, Answer, PathTypeOK
<1> QED
  BY <1>1, JointInvariance, PTL

(* The tun's and the relay's goroutines call the NAT as NatTable has it:   *)
(* what is proved of it holds on the path (allocSession, getSession).      *)
THEOREM ImplementsNat == PathSpec => Spec
<1>1. Joint /\ [PathNext]_pathVars => [Next]_vars
  BY StepsOfNat DEF Joint
<1>2. PathInit => Init
  BY DEF PathInit
<1> QED
  BY <1>1, <1>2, JointInvariance, PTL DEF PathSpec, Spec

(* And the table of domains as DnsTable has it (Get, GetByIP, Set, Serve). *)
THEOREM ImplementsTable == PathSpec => DP!Spec
<1>1. [PathNext]_pathVars => [DP!Next]_(DP!vars)
  BY StepsOfTable
<1> QED
  BY <1>1, InitOfTable, PTL DEF PathSpec, DP!Spec
-----------------------------------------------------------------------------
(* The packets that the filters make are of those whose sums are bounded.  *)
LEMMA PacketEnds ==
  /\ Short = Word
  /\ \A c \in Clients : c \in [ip : Ips, port : ShortWords]
  /\ \A dst \in Dests : dst \in [ip : Ips, port : ShortWords]
  /\ \A port \in 0 .. Word - 1, ip \in D!Addrs :
       [ip |-> ip, port |-> port] \in [ip : Ips, port : ShortWords]
  /\ Relay \in [ip : Ips, port : ShortWords]
  /\ \A rest \in Rests : rest \in Sums
<1>1. \A ip \in D!Addrs : ip \in Ips
  <2>1. PICK square \in Nat : square = Short * Short
    BY WordSize
  <2>2. AddrSpace <= square /\ AddrSpace \in Nat
    BY <2>1, PathAssumption, TablesAssumption DEF D!PoolAssumption
  <2> QED
    BY <2>1, <2>2, Ends DEF Ips
<1>2. Word = Short /\ ShortWords = 0 .. Word - 1
  BY PathAssumption DEF ShortWords
<1>3. ASSUME NEW c \in Clients
      PROVE  c \in [ip : Ips, port : ShortWords]
  <2>1. c \in [ip : Nat, port : 0 .. Word - 1] /\ c.ip \in D!Addrs
    BY NatAssumption, PathAssumption
  <2> QED
    BY <1>1, <1>2, <2>1
<1>4. ASSUME NEW dst \in Dests
      PROVE  dst \in [ip : Ips, port : ShortWords]
  <2>1. dst \in [ip : PoolAddrs \cup RealHosts, port : {Service}]
    BY PathAssumption
  <2>2. dst.ip \in Ips /\ dst.port \in ShortWords
    BY <1>1, <1>2, Ends, PathAssumption
  <2> QED
    BY <2>1, <2>2
<1>5. Relay \in [ip : Ips, port : ShortWords]
  <2>1. TunIP \in D!Addrs /\ RelayPort \in 0 .. Word - 1
    BY Ends, PathAssumption, TablesAssumption DEF D!PoolAssumption
  <2> QED
    BY <1>1, <1>2, <2>1 DEF Relay
<1>6. \A rest \in Rests : rest \in Sums
  BY PathAssumption DEF Sums
<1> QED
  BY <1>1, <1>2, <1>3, <1>4, <1>5, <1>6

LEMMA FromTun ==
  ASSUME NEW from \in [ip : Ips, port : ShortWords],
         NEW to \in [ip : Ips, port : ShortWords], NEW rest \in Sums
  PROVE  TCPPacket(from, to, rest) \in TCPPackets
<1> DEFINE p == [proto |-> TCP, src |-> from.ip, dst |-> to.ip,
                 sport |-> from.port, dport |-> to.port, len |-> 20,
                 rest |-> rest, head |-> rest, check |-> 0, ipcheck |-> 0]
<1>1. p \in TCPPackets
  BY DEF TCPPackets
<1>2. TCPPacket(from, to, rest) = ResetChecksum(p)
  BY DEF TCPPacket
<1> QED
  BY <1>1, <1>2, ResetStays

(* What is written to the tun is nothing, or a packet that verifies.       *)
LEMMA PacketsStep ==
  ASSUME Joint, Joint', [PathNext]_pathVars, PacketsVerify
  PROVE  PacketsVerify'
<1> DEFINE Good == wire' = NoPacket \/ Verifies(wire')
<1>1. CASE Redirect
  <2>1. /\ MapKnown \/ MapNew \/ MapFull
        /\ \E rest \in Rests :
             wire' = Rewritten(TCPPacket(alloc.src, alloc.dst, rest),
                               [ip |-> alloc.dst.ip, port |-> AllocPort], Relay)
    BY <1>1 DEF Redirect
  <2>2. PICK rest \in Rests :
          wire' = Rewritten(TCPPacket(alloc.src, alloc.dst, rest),
                            [ip |-> alloc.dst.ip, port |-> AllocPort], Relay)
    BY <2>1
  <2>3. alloc.src \in Clients /\ alloc.dst \in Dests /\ AllocPort \in 0 .. Word - 1
    BY <2>1, PortAllocated DEF Joint
  <2>4. alloc.dst.ip \in D!Addrs
    BY <2>3, Ends
  <2>5. /\ TCPPacket(alloc.src, alloc.dst, rest) \in TCPPackets
        /\ [ip |-> alloc.dst.ip, port |-> AllocPort] \in [ip : Ips, port : ShortWords]
        /\ Relay \in [ip : Ips, port : ShortWords]
    BY <2>3, <2>4, PacketEnds, FromTun
  <2> QED
    BY <2>2, <2>5, RewrittenVerifies DEF PacketsVerify
<1>2. ASSUME NEW c \in Clients, Reply(c)
      PROVE  Good
  <2>1. conn[c] \in Conn
    BY <1>2 DEF Reply, Has, NoConn, Joint, ConnTypes
  <2>2. CASE panicked' \/ SessionAt(conn[c].port) = NoSession
    BY <1>2, <2>2 DEF Reply, Silent
  <2>3. CASE ~ (panicked' \/ SessionAt(conn[c].port) = NoSession)
    <3> DEFINE s == SessionAt(conn[c].port)
               from == [ip |-> conn[c].dst.ip, port |-> conn[c].port]
    <3>1. PICK rest \in Rests :
            wire' = Rewritten(TCPPacket(Relay, from, rest), s.dst, s.src)
      BY <1>2, <2>3 DEF Reply
    <3>2. s \in NatSession
      BY <1>2, <2>3, SessionFound DEF Reply, GetSession
    <3>3. s.dst \in Dests /\ s.src \in Clients
      BY <3>2 DEF NatSession
    <3>4. conn[c].dst.ip \in D!Addrs /\ conn[c].port \in 0 .. Word - 1
      BY <2>1, Ends DEF Conn
    <3>5. /\ s.dst \in [ip : Ips, port : ShortWords]
          /\ s.src \in [ip : Ips, port : ShortWords]
          /\ TCPPacket(Relay, from, rest) \in TCPPackets
      BY <3>3, <3>4, PacketEnds, FromTun
    <3> HIDE DEF s, from
    <3> QED
      BY <3>1, <3>5, RewrittenVerifies
  <2> QED
    BY <2>2, <2>3
<1>3. ASSUME NEW c \in Clients, Ping(c)
      PROVE  Good
  <2>1. PICK ip \in PoolAddrs, rest \in Rests :
          wire' = EchoReply(ResetChecksum(
            [proto |-> ICMP, src |-> c.ip, dst |-> ip, type |-> ICMPRequest,
             code |-> 0, rest |-> rest, head |-> rest, check |-> 0, ipcheck |-> 0]))
    BY <1>3 DEF Ping
  <2> DEFINE p == [proto |-> ICMP, src |-> c.ip, dst |-> ip, type |-> ICMPRequest,
                   code |-> 0, rest |-> rest, head |-> rest, check |-> 0, ipcheck |-> 0]
  <2>2. c.ip \in Ips /\ rest \in Sums
    BY PacketEnds
  <2>3. ip \in Ips
    <3>1. [ip |-> ip, port |-> 0] \in [ip : Ips, port : ShortWords]
      BY Ends, PacketEnds, NatAssumption
    <3> QED
      BY <3>1
  <2>4. p \in ICMPPackets
    BY <2>2, <2>3 DEF ICMPPackets
  <2>5. ResetChecksum(p) \in ICMPPackets
    BY <2>4, ResetStays
  <2> QED
    BY <2>1, <2>5, EchoVerifies
<1>4. ASSUME NEW c \in Clients, Client(c) \/ RelaySide(c)
      PROVE  Good
  <2>1. ASSUME \/ \E d \in Domains : Lookup(c, d)
               \/ ConnectByName(c) \/ ConnectByAddr(c) \/ Send(c) \/ Close(c)
               \/ FindSession(c) \/ FindRecord(c)
        PROVE  wire' = NoPacket
    BY <2>1 DEF Lookup, ConnectByName, ConnectByAddr, Send, Close, FindSession,
                FindRecord, Silent
  <2> QED
    BY <1>2, <1>3, <1>4, <2>1 DEF Client, RelaySide
<1>5. CASE Allocating \/ DirectPeer \/ Sweep \/ Pass
  BY <1>5 DEF Allocating, DirectPeer, Sweep, Pass, Silent, PacketsVerify
<1>6. CASE UNCHANGED pathVars
  BY <1>6 DEF pathVars, PacketsVerify
<1>7. Good => PacketsVerify'
  BY DEF PacketsVerify
<1> QED
  BY <1>1, <1>4, <1>5, <1>6, <1>7 DEF PathNext

(* Every packet that is written to the tun has the checksums that its      *)
(* receiver expects (ResetChecksum, Filter, icmpFilterFunc).               *)
THEOREM PacketsAlwaysVerify == PathSpec => []PacketsVerify
<1>1. PathInit => PacketsVerify
  BY DEF PathInit, PacketsVerify
<1>2. Joint /\ Joint' /\ [PathNext]_pathVars /\ PacketsVerify => PacketsVerify'
  BY PacketsStep
<1> QED
  BY <1>1, <1>2, JointInvariance, PTL DEF PathSpec
-----------------------------------------------------------------------------
(* What a session that may not be swept yet gives its connection.          *)
TouchedBefore ==
  \A s \in Slots : sessions[s] # NoSession => sessions[s].lastTouch <= now

Kept(slot, src, until) ==
  /\ slot \in Slots /\ sessions[slot] # NoSession /\ sessions[slot].src = src
  /\ until <= sessions[slot].lastTouch + SessionLife
  /\ alloc.pc = "clear" => slot \notin alloc.expired

(* SessionKept is inductive with this: the session is not in the list of a *)
(* sweep under way, and was touched late enough.                           *)
ConnKept ==
  \A c \in Clients :
    /\ conn[c].pc = "syn" => conn[c].until = 0
    /\ Open(c) /\ now < conn[c].until =>
         /\ Kept(Slot(conn[c].port), c, conn[c].until)
         /\ conn[c].live => SessionAt(conn[c].port).dst = conn[c].dst

LEMMA TouchedStep ==
  ASSUME IInv, SweepJustified, TouchedBefore, [Next]_vars
  PROVE  TouchedBefore'
<1> USE DEF IInv
<1>1. ASSUME UNCHANGED <<sessions, now>>
      PROVE  TouchedBefore'
  BY <1>1 DEF TouchedBefore
<1>2. CASE ClearExpired
  BY <1>2 DEF ClearExpired, TouchedBefore
<1>3. CASE MapNew
  <2>1. /\ alloc # Idle /\ alloc.now \in Nat /\ alloc.now <= now
        /\ Slot(candidate) \in Slots /\ now' = now
    BY <1>3 DEF MapNew, Searching, Idle, TypeOK, Calls, SweepJustified
  <2> DEFINE new == [src |-> alloc.src, dst |-> alloc.dst, lastTouch |-> alloc.now]
  <2>2. sessions' = [sessions EXCEPT ![Slot(candidate)] = new] /\ new.lastTouch <= now
    BY <1>3, <2>1 DEF MapNew
  <2> QED
    BY <2>1, <2>2 DEF TouchedBefore, TypeOK
<1>4. ASSUME NEW port \in PeerPorts, GetSession(port)
      PROVE  TouchedBefore'
  <2>1. now \in Nat /\ now' = now /\ sessions \in [Slots -> NatSession \cup {NoSession}]
    BY <1>4 DEF GetSession, TypeOK
  <2>2. CASE sessions' = sessions
    BY <1>1, <2>1, <2>2
  <2>3. CASE sessions' # sessions
    <3>1. /\ Slot(port) \in Slots /\ sessions[Slot(port)] # NoSession
          /\ sessions' = [sessions EXCEPT ![Slot(port)].lastTouch = now]
      BY <1>4, <2>3 DEF GetSession
    <3>2. \A s \in Slots : \/ sessions'[s] = sessions[s]
                           \/ sessions'[s].lastTouch = now
      BY <2>1, <3>1 DEF NatSession
    <3> QED
      BY <2>1, <3>2 DEF TouchedBefore
  <2> QED
    BY <2>2, <2>3
<1>5. CASE Tick
  <2>1. sessions' = sessions /\ now' = now + 1 /\ now \in Nat
    BY <1>5 DEF Tick, TypeOK
  <2> QED
    BY <2>1 DEF TouchedBefore, TypeOK, NatSession
<1>6. ASSUME NEW src \in Clients, NEW dst \in Dests, AllocBegin(src, dst)
      PROVE  UNCHANGED <<sessions, now>>
  BY <1>6 DEF AllocBegin
<1>7. ASSUME MapKnown \/ MapSkip \/ MapFull \/ MapPanic \/ UNCHANGED vars
      PROVE  UNCHANGED <<sessions, now>>
  BY <1>7 DEF MapKnown, MapSkip, MapFull, MapPanic, vars
<1> QED
  BY <1>1, <1>2, <1>3, <1>4, <1>5, <1>6, <1>7 DEF Next

(* A session that is kept is kept by every step until its time is over. *)
LEMMA KeptStep ==
  ASSUME IInv, TouchedBefore, [Next]_vars,
         NEW slot, NEW src, NEW until \in Nat, Kept(slot, src, until), now < until
  PROVE  /\ sessions'[slot] # NoSession /\ sessions'[slot].src = src
         /\ sessions'[slot].dst = sessions[slot].dst
         /\ until <= sessions'[slot].lastTouch + SessionLife
         /\ alloc'.pc = "clear" => slot \notin alloc'.expired
<1> USE DEF IInv, Kept
<1>1. /\ slot \in Slots /\ sessions[slot] # NoSession /\ sessions[slot] \in NatSession
      /\ sessions[slot].lastTouch \in Nat /\ sessions[slot].lastTouch <= now
      /\ now \in Nat /\ SessionLife \in Nat
  BY NatAssumption DEF TypeOK, NatSession, TouchedBefore
<1>2. sessions'[slot] = NoSession => ClearExpired /\ slot \in alloc.expired
  BY <1>1, SessionSteps
<1>3. /\ sessions'[slot] # NoSession /\ sessions'[slot].src = src
      /\ sessions'[slot].dst = sessions[slot].dst
  BY <1>1, <1>2, SessionSteps DEF ClearExpired
<1>4. \/ sessions'[slot] = sessions[slot]
      \/ sessions'[slot].lastTouch = now
  <2>1. ASSUME UNCHANGED sessions
        PROVE  sessions'[slot] = sessions[slot]
    BY <2>1
  <2>2. CASE ClearExpired
    BY <1>1, <1>2, <1>3, <2>2 DEF ClearExpired
  <2>3. CASE MapNew
    <3>1. slot # Slot(candidate)
      <4>1. h2Port[hashAddr(sessions[slot].src)] = From + slot
        BY <1>1 DEF SessionOwnsPort
      <4>2. mapped[slot]
        BY <1>1, <4>1 DEF MappedIffLeased, NatSession, Hashes
      <4> QED
        BY <2>3, <4>2 DEF MapNew
    <3> QED
      BY <1>1, <2>3, <3>1 DEF MapNew, TypeOK
  <2>4. ASSUME NEW port \in PeerPorts, GetSession(port)
        PROVE  \/ sessions'[slot] = sessions[slot]
               \/ sessions'[slot].lastTouch = now
    BY <1>1, <2>4 DEF GetSession, TypeOK, NatSession
  <2>5. ASSUME NEW s \in Clients, NEW dst \in Dests, AllocBegin(s, dst)
        PROVE  UNCHANGED sessions
    BY <2>5 DEF AllocBegin
  <2>6. ASSUME MapKnown \/ MapSkip \/ MapFull \/ MapPanic \/ Tick \/ UNCHANGED vars
        PROVE  UNCHANGED sessions
    BY <2>6 DEF MapKnown, MapSkip, MapFull, MapPanic, Tick, vars
  <2> QED
    BY <2>1, <2>2, <2>3, <2>4, <2>5, <2>6 DEF Next
<1>5. until <= sessions'[slot].lastTouch + SessionLife
  BY <1>1, <1>4
<1>6. ASSUME alloc'.pc = "clear"
      PROVE  slot \notin alloc'.expired
  <2>1. ASSUME NEW s \in Clients, NEW dst \in Dests, AllocBegin(s, dst)
        PROVE  slot \notin alloc'.expired
    BY <1>1, <2>1 DEF AllocBegin, IsExpired
  <2>2. ASSUME UNCHANGED alloc
        PROVE  slot \notin alloc'.expired
    BY <1>6, <2>2
  <2>3. ASSUME ClearExpired \/ MapSkip
        PROVE  alloc'.pc = "map"
    BY <2>3 DEF ClearExpired, MapSkip, Searching, TypeOK, Calls, Idle
  <2>4. ASSUME MapKnown \/ MapNew \/ MapFull
        PROVE  alloc'.pc = "idle"
    BY <2>4 DEF MapKnown, MapNew, MapFull, Idle
  <2>5. ASSUME NEW port \in PeerPorts, GetSession(port)
        PROVE  UNCHANGED alloc
    BY <2>5 DEF GetSession
  <2>6. ASSUME MapPanic \/ Tick \/ UNCHANGED vars
        PROVE  UNCHANGED alloc
    BY <2>6 DEF MapPanic, Tick, vars
  <2> QED
    BY <1>6, <2>1, <2>2, <2>3, <2>4, <2>5, <2>6 DEF Next
<1> QED
  BY <1>3, <1>5, <1>6

LEMMA TimeGoesOn ==
  ASSUME IInv, [Next]_vars
  PROVE  now \in Nat /\ now' \in Nat /\ now <= now'
<1>1. now \in Nat
  BY DEF IInv, TypeOK
<1>2. now' = now \/ now' = now + 1
  BY DEF Next, AllocBegin, ClearExpired, MapKnown, MapSkip, MapNew, MapFull,
         MapPanic, GetSession, Tick, vars
<1> QED
  BY <1>1, <1>2

(* The steps of a connection, other than the relay's goroutine's. *)
LEMMA ConnSteps ==
  ASSUME ConnTypes, [PathNext]_pathVars, NEW c \in Clients
  PROVE  \/ conn'[c] = conn[c]
         \/ conn'[c] = NoConn
         \/ ConnectByName(c) \/ ConnectByAddr(c)
         \/ Redirect /\ alloc.src = c /\ conn[c].pc = "syn"
         \/ RelaySide(c)
<1>1. conn \in [Clients -> Conn \cup {NoConn}]
  BY DEF ConnTypes
<1>2. ASSUME NEW e \in Clients, Client(e) \/ RelaySide(e), e # c
      PROVE  conn'[c] = conn[c]
  <2>1. conn' = conn \/ \E k : conn' = [conn EXCEPT ![e] = k]
    <3>1. ASSUME ConnectByName(e) \/ ConnectByAddr(e) \/ Close(e)
          PROVE  \E k : conn' = [conn EXCEPT ![e] = k]
      BY <3>1 DEF ConnectByName, ConnectByAddr, Close
    <3>2. ASSUME RelaySide(e)
          PROVE  conn' = conn \/ \E k : conn' = [conn EXCEPT ![e] = k]
      <4>1. ASSUME Reply(e)
            PROVE  conn' = conn \/ \E k : conn' = [conn EXCEPT ![e] = k]
        BY <4>1 DEF Reply
      <4>2. ASSUME FindSession(e)
            PROVE  conn' = conn \/ \E k : conn' = [conn EXCEPT ![e] = k]
        BY <4>2 DEF FindSession
      <4>3. ASSUME FindRecord(e)
            PROVE  conn' = conn \/ \E k : conn' = [conn EXCEPT ![e] = k]
        BY <4>3 DEF FindRecord
      <4> QED
        BY <3>2, <4>1, <4>2, <4>3 DEF RelaySide
    <3>3. ASSUME (\E d \in Domains : Lookup(e, d)) \/ Send(e) \/ Ping(e)
          PROVE  conn' = conn
      BY <3>3 DEF Lookup, Send, Ping
    <3> QED
      BY <1>2, <3>1, <3>2, <3>3 DEF Client
  <2> QED
    BY <1>1, <1>2, <2>1
<1>3. CASE Client(c)
  <2>1. ASSUME (\E d \in Domains : Lookup(c, d)) \/ Send(c) \/ Ping(c)
        PROVE  conn' = conn
    BY <2>1 DEF Lookup, Send, Ping
  <2>2. ASSUME Close(c)
        PROVE  conn'[c] = NoConn
    BY <1>1, <2>2 DEF Close
  <2> QED
    BY <1>3, <2>1, <2>2 DEF Client
<1>4. CASE Redirect
  BY <1>1, <1>4 DEF Redirect
<1>5. ASSUME Allocating \/ DirectPeer \/ Sweep \/ Pass \/ UNCHANGED pathVars
      PROVE  conn' = conn
  BY <1>5 DEF Allocating, DirectPeer, Sweep, Pass, pathVars
<1> QED
  BY <1>2, <1>3, <1>4, <1>5 DEF PathNext

(* getSession gives the session of a port another life. *)
LEMMA Renewed ==
  ASSUME IInv, NEW port \in PeerPorts, GetSession(port), ~ panicked',
         SessionAt(port) # NoSession
  PROVE  /\ sessions'[Slot(port)].lastTouch = now
         /\ alloc' = alloc /\ now' = now
<1>1. /\ Slot(port) \in Slots /\ alloc' = alloc /\ now' = now
      /\ sessions' = [sessions EXCEPT ![Slot(port)].lastTouch = now]
  BY DEF GetSession, SessionAt
<1>2. sessions[Slot(port)] \in NatSession
  BY <1>1 DEF IInv, TypeOK, SessionAt
<1> QED
  BY <1>1, <1>2 DEF IInv, TypeOK, NatSession

LEMMA ConnKeptStep ==
  ASSUME Joint, Joint', TouchedBefore, ConnKept, [PathNext]_pathVars
  PROVE  ConnKept'
<1> SUFFICES ASSUME NEW c \in Clients
    PROVE  LET slot == Slot(conn'[c].port)
           IN  /\ conn'[c].pc = "syn" => conn'[c].until = 0
               /\ /\ conn'[c].pc \in {"accept", "record", "dialled"}
                  /\ now' < conn'[c].until
                  => /\ slot \in Slots /\ sessions'[slot] # NoSession
                     /\ sessions'[slot].src = c
                     /\ conn'[c].until <= sessions'[slot].lastTouch + SessionLife
                     /\ alloc'.pc = "clear" => slot \notin alloc'.expired
                     /\ conn'[c].live => sessions'[slot].dst = conn'[c].dst
  BY DEF ConnKept, Kept, Open, SessionAt
<1>1. /\ IInv /\ IInv' /\ SweepJustified /\ [Next]_vars
      /\ now \in Nat /\ now' \in Nat /\ now <= now'
      /\ SessionLife \in Nat
      /\ conn \in [Clients -> Conn \cup {NoConn}]
  BY StepsOfNat, TimeGoesOn, NatAssumption DEF Joint, ConnTypes
(* A connection that stays open keeps what it has. *)
<1> DEFINE slot == Slot(conn[c].port)
           until == conn[c].until
<1>2. ASSUME Open(c), now < conn[c].until
      PROVE  /\ slot \in Slots /\ sessions'[slot] # NoSession
             /\ sessions'[slot].src = c
             /\ sessions[slot] # NoSession
             /\ sessions'[slot].dst = sessions[slot].dst
             /\ until <= sessions'[slot].lastTouch + SessionLife
             /\ alloc'.pc = "clear" => slot \notin alloc'.expired
             /\ conn[c].live => sessions'[slot].dst = conn[c].dst
  <2>1. conn[c].until \in Nat
    BY <1>1, <1>2 DEF Open, NoConn, Conn
  <2>2. /\ Kept(Slot(conn[c].port), c, conn[c].until)
        /\ conn[c].live => SessionAt(conn[c].port).dst = conn[c].dst
    BY <1>2 DEF ConnKept
  <2>3. slot \in Slots /\ sessions[slot] # NoSession
    BY <2>2 DEF Kept
  <2> QED
    BY <1>1, <1>2, <2>1, <2>2, <2>3, KeptStep DEF SessionAt
<1>3. CASE conn'[c] = conn[c]
  BY <1>1, <1>2, <1>3 DEF ConnKept, Open, Conn, NoConn
<1>4. CASE conn'[c] = NoConn
  BY <1>4 DEF NoConn
<1>5. CASE ConnectByName(c) \/ ConnectByAddr(c)
  <2>1. \E dst, want, due : conn' = [conn EXCEPT ![c] = Attempt(dst, want, due)]
    BY <1>5 DEF ConnectByName, ConnectByAddr
  <2>2. conn'[c].pc = "syn" /\ conn'[c].until = 0
    BY <1>1, <2>1 DEF Attempt
  <2> QED
    BY <2>2
<1>6. CASE Redirect /\ alloc.src = c /\ conn[c].pc = "syn"
  <2>1. /\ MapKnown \/ MapNew \/ MapFull
        /\ conn'[c] = Accepted(conn[c], AllocPort)
    BY <1>1, <1>6 DEF Redirect
  <2>2. conn[c] \in Conn /\ conn[c].until = 0
    BY <1>1, <1>6 DEF NoConn, ConnKept
  <2>3. CASE AllocPort = 0
    <3>1. conn'[c] = [conn[c] EXCEPT !.pc = "accept"]
      BY <2>1, <2>3 DEF Accepted
    <3>2. conn'[c].pc = "accept" /\ conn'[c].until = 0
      BY <2>2, <3>1 DEF Conn
    <3> QED
      BY <1>1, <3>2
  <2>4. CASE AllocPort # 0
    <3> DEFINE q == AllocPort
    <3>1. /\ Slot(q) \in Slots /\ sessions'[Slot(q)] \in NatSession
          /\ sessions'[Slot(q)] # NoSession /\ sessions'[Slot(q)].src = c
          /\ alloc' = Idle
      BY <1>1, <1>6, <2>1, <2>4, PortAllocated
    <3>2. conn'[c] = [conn[c] EXCEPT !.pc = "accept", !.port = q,
                        !.until = sessions'[Slot(q)].lastTouch + SessionLife,
                        !.live = sessions'[Slot(q)].dst = conn[c].dst]
      BY <2>1, <2>4 DEF Accepted
    <3>3. /\ conn'[c].pc = "accept" /\ conn'[c].port = q
          /\ conn'[c].until = sessions'[Slot(q)].lastTouch + SessionLife
          /\ conn'[c].live = (sessions'[Slot(q)].dst = conn[c].dst)
          /\ conn'[c].dst = conn[c].dst
      BY <2>2, <3>2 DEF Conn
    <3>4. sessions'[Slot(q)].lastTouch + SessionLife \in Nat
      BY <1>1, <3>1 DEF NatSession
    <3> HIDE DEF q
    <3>5. conn'[c].live => sessions'[Slot(q)].dst = conn'[c].dst
      BY <3>3, Zenon
    <3>6. alloc'.pc # "clear"
      BY <3>1 DEF Idle
    <3>7. conn'[c].until <= sessions'[Slot(q)].lastTouch + SessionLife
      BY <1>1, <3>3, <3>4
    <3> QED
      BY <3>1, <3>3, <3>5, <3>6, <3>7
  <2> QED
    BY <2>3, <2>4
(* getSession is called: the session lives on, and so does "until".        *)
<1>7. ASSUME Open(c), GetSession(conn[c].port), ~ panicked',
             SessionAt(conn[c].port) # NoSession,
             conn'[c].pc # "syn",
             conn'[c].port = conn[c].port, conn'[c].dst = conn[c].dst,
             conn'[c].live => conn[c].live,
             conn'[c].until = IF now < conn[c].until THEN now + SessionLife
                                                     ELSE conn[c].until
      PROVE  now' < conn'[c].until =>
               /\ slot \in Slots /\ sessions'[slot] # NoSession
               /\ sessions'[slot].src = c
               /\ conn'[c].until <= sessions'[slot].lastTouch + SessionLife
               /\ alloc'.pc = "clear" => slot \notin alloc'.expired
               /\ conn'[c].live => sessions'[slot].dst = conn'[c].dst
  <2>1. sessions'[slot].lastTouch = now /\ now' = now
    BY <1>1, <1>7, Renewed DEF GetSession
  <2>2. CASE now < conn[c].until
    BY <1>1, <1>2, <1>7, <2>1, <2>2
  <2>3. CASE ~ (now < conn[c].until)
    BY <1>7, <2>1, <2>3
  <2> QED
    BY <2>2, <2>3
<1>8. CASE Reply(c)
  <2>1. conn[c] \in Conn /\ Open(c) /\ GetSession(conn[c].port)
    BY <1>1, <1>8 DEF Reply, Has, Open, NoConn
  <2>2. CASE panicked' \/ SessionAt(conn[c].port) = NoSession
    <3>1. conn'[c] = conn[c]
      BY <1>8, <2>2 DEF Reply
    <3> QED
      BY <1>3, <3>1
  <2>3. CASE ~ (panicked' \/ SessionAt(conn[c].port) = NoSession)
    <3>1. conn'[c] = Touch(conn[c])
      BY <1>1, <1>8, <2>3 DEF Reply
    <3>2. /\ conn'[c].pc = conn[c].pc
          /\ conn'[c].port = conn[c].port /\ conn'[c].dst = conn[c].dst
          /\ conn'[c].live = conn[c].live
          /\ conn'[c].until = IF now < conn[c].until THEN now + SessionLife
                                                     ELSE conn[c].until
      BY <2>1, <3>1 DEF Touch, Conn
    <3> QED
      BY <1>7, <2>1, <2>3, <3>2 DEF Open
  <2> QED
    BY <2>2, <2>3
<1>9. CASE FindSession(c)
  <2> DEFINE k == [conn[c] EXCEPT !.live = conn[c].live /\ now < conn[c].until]
  <2>1. conn[c] \in Conn /\ Open(c) /\ GetSession(conn[c].port)
    BY <1>1, <1>9 DEF FindSession, Has, Open, NoConn
  <2>2. /\ k \in Conn /\ k.port = conn[c].port /\ k.until = conn[c].until
        /\ k.dst = conn[c].dst /\ (k.live => conn[c].live)
    BY <2>1 DEF Conn
  <2>3. CASE panicked'
    <3>1. conn'[c] = conn[c]
      BY <1>9, <2>3 DEF FindSession
    <3> QED
      BY <1>3, <3>1
  <2>4. CASE ~ panicked' /\ SessionAt(k.port) = NoSession
    <3>1. conn' = [conn EXCEPT ![c] = [k EXCEPT !.pc = "refused"]]
      BY <1>9, <2>4 DEF FindSession
    <3>2. [k EXCEPT !.pc = "refused"].pc = "refused"
      BY <2>2 DEF Conn
    <3> HIDE DEF k
    <3> QED
      BY <1>1, <3>1, <3>2
  <2>5. CASE ~ panicked' /\ SessionAt(k.port) # NoSession
    <3> DEFINE host == SessionAt(k.port).dst.ip
    <3>1. conn' = [conn EXCEPT ![c] = [Touch(k) EXCEPT !.pc = "record", !.host = host]]
      BY <1>9, <2>5 DEF FindSession
    <3> HIDE DEF k, host
    <3>2. conn'[c] = [Touch(k) EXCEPT !.pc = "record", !.host = host]
      BY <1>1, <3>1
    <3>3. /\ Touch(k) \in Conn /\ Touch(k).port = k.port /\ Touch(k).dst = k.dst
          /\ Touch(k).live = k.live
          /\ Touch(k).until = IF now < k.until THEN now + SessionLife ELSE k.until
      BY <1>1, <2>2, TouchTypes DEF Touch, Conn
    <3>4. /\ conn'[c].pc = "record" /\ conn'[c].port = k.port /\ conn'[c].dst = k.dst
          /\ conn'[c].live = k.live /\ conn'[c].until = Touch(k).until
      BY <3>2, <3>3 DEF Conn
    <3> QED
      BY <1>7, <2>1, <2>2, <2>5, <3>3, <3>4
  <2> QED
    BY <2>3, <2>4, <2>5
<1>10. CASE FindRecord(c)
  <2> DEFINE k == [conn[c] EXCEPT !.live = conn[c].live /\ now <= conn[c].due]
  <2>1. conn[c] \in Conn /\ Open(c)
    BY <1>1, <1>10 DEF FindRecord, Has, Open, NoConn
  <2>2. /\ k \in Conn /\ k.port = conn[c].port /\ k.until = conn[c].until
        /\ k.dst = conn[c].dst /\ (k.live => conn[c].live)
    BY <2>1 DEF Conn
  <2>3. conn'[c] = RealHost(k)
    BY <1>1, <1>10 DEF FindRecord
  <2> HIDE DEF k
  <2>4. /\ conn'[c].port = conn[c].port /\ conn'[c].until = conn[c].until
        /\ conn'[c].dst = conn[c].dst /\ (conn'[c].live => conn[c].live)
        /\ conn'[c].pc \in {"dialled", "refused"}
    BY <2>2, <2>3 DEF RealHost, Conn
  <2>5. conn[c].until \in Nat
    BY <2>1 DEF Conn
  <2> QED
    BY <1>1, <1>2, <2>1, <2>4, <2>5
<1> QED
  BY <1>3, <1>4, <1>5, <1>6, <1>8, <1>9, <1>10, ConnSteps DEF RelaySide, Joint

(* A connection keeps its session until a SessionLife after the last       *)
(* look-up, and the session is that of its client and its destination      *)
(* (allocSession, getSession and the sweep, from Filter and from the relay *)
(* alike).                                                                 *)
THEOREM SessionsKept == PathSpec => []SessionKept
<1>1. PathInit => TouchedBefore /\ ConnKept
  BY DEF PathInit, Init, TouchedBefore, ConnKept, NoConn, Open
<1>2. Joint /\ Joint' /\ TouchedBefore /\ ConnKept /\ [PathNext]_pathVars
        => TouchedBefore' /\ ConnKept'
  BY TouchedStep, ConnKeptStep, StepsOfNat DEF Joint
<1>3. ConnKept => SessionKept
  BY DEF ConnKept, SessionKept, Kept, SessionAt
<1> QED
  BY <1>1, <1>2, <1>3, JointInvariance, PTL DEF PathSpec
-----------------------------------------------------------------------------
(* The record of a domain has the address ip, and lives up to "until".     *)
Found(d, ip, until) ==
  /\ records[d] # NoRecord /\ records[d].ip = ip
  /\ until <= records[d].expires + StartTime

(* RoutedAsAsked is inductive with these: the records that clients rely on *)
(* are there, and have the right proxies, and the relay's goroutine has    *)
(* the right destination so far.                                           *)
AnswersGood ==
  \A c \in Clients : answer[c] # NoAnswer /\ now <= answer[c].asked + Ttl =>
    Found(answer[c].domain, answer[c].ip, answer[c].asked + Ttl)

RightProxies ==
  \A d \in Domains : records[d] # NoRecord => records[d].proxy = ProxyOf[d]

Arrived(k) ==
  /\ k.pc = "dialled" /\ k.host = k.want
  /\ k.proxy = IF k.want \in Domains THEN ProxyOf[k.want] ELSE NoProxy

OnTheWay ==
  \A c \in Clients : conn[c] # NoConn =>
    /\ conn[c].want \in Domains /\ now <= conn[c].due =>
         Found(conn[c].want, conn[c].dst.ip, conn[c].due)
    /\ conn[c].want \notin Domains =>
         conn[c].want = conn[c].dst.ip /\ conn[c].want \in RealHosts
    /\ conn[c].pc \in {"syn", "accept", "record"} => conn[c].proxy = NoProxy
    /\ conn[c].pc = "record" /\ conn[c].live => conn[c].host = conn[c].dst.ip
    /\ conn[c].pc \in {"dialled", "refused"} /\ conn[c].live => Arrived(conn[c])

(* A record that somebody relies on is still there after a step. *)
LEMMA RecordKept ==
  ASSUME Joint, [PathNext]_pathVars, NEW d \in Domains, NEW ip, NEW until \in Nat,
         Found(d, ip, until), now <= until
  PROVE  /\ records'[d] # NoRecord /\ records'[d].ip = ip
         /\ until <= records'[d].expires + StartTime
<1>1. [DP!Next]_(DP!vars)
  BY StepsOfTable
<1>2. /\ records[d] # NoRecord /\ records[d].ip = ip
      /\ until <= records[d].expires + StartTime
      /\ now \in Nat /\ StartTime \in Nat
  BY NatAssumption DEF Found, Joint, IInv, TypeOK
<1>3. DP!IInv /\ DP!IInv'
  BY <1>1, DP!StepKeeps, TableAssumptions DEF Joint
<1>4. records[d] \in DP!Record /\ records[d].expires \in Nat /\ d \in DP!Hijacked
  BY <1>2, <1>3 DEF DP!IInv, DP!TypeOK, DP!Record, DP!Hijacked
<1>5. d \in DP!Hijacked'
  <2>1. d \notin DP!Hijacked' => records[d].expires < now - StartTime
    BY <1>1, <1>3, <1>4, DP!RecordEnds, TableAssumptions
  <2> QED
    BY <1>2, <1>4, <2>1
<1>6. /\ records'[d].ip = records[d].ip
      /\ records'[d].expires >= records[d].expires
  BY <1>1, <1>3, <1>4, <1>5, DP!RecordStays, TableAssumptions
<1>7. records'[d] # NoRecord /\ records'[d].expires \in Nat
  BY <1>3, <1>5 DEF DP!IInv, DP!TypeOK, DP!Record, DP!Hijacked
<1> QED
  BY <1>2, <1>4, <1>6, <1>7

LEMMA ProxiesStep ==
  ASSUME Joint, RightProxies, [PathNext]_pathVars
  PROVE  RightProxies'
<1>1. /\ DP!IInv /\ records \in [Domains -> DP!Record \cup {NoRecord}]
      /\ [DP!Next]_(DP!vars)
  BY StepsOfTable DEF Joint, DP!IInv, DP!TypeOK
<1>2. CASE DP!SamePlaces
  BY <1>2 DEF DP!SamePlaces, RightProxies
<1>3. ASSUME NEW c \in Clients, NEW d \in Domains, Lookup(c, d)
      PROVE  RightProxies'
  <2>1. CASE D!Get(d)
    <3>1. DP!SamePlaces
      BY <1>1, <2>1, SameSteps, DP!TouchKeepsPlaces, TableAssumptions DEF DP!Get
    <3> QED
      BY <1>2, <3>1
  <2>2. CASE D!SetNew(d, ProxyOf[d])
    <3> DEFINE r == [ip |-> D!AddrOf(D!AllocIndex(flags, d)), proxy |-> ProxyOf[d],
                     expires |-> now - StartTime + Ttl]
    <3>1. records' = [records EXCEPT ![d] = r] /\ r.proxy = ProxyOf[d]
      BY <2>2 DEF D!SetNew
    <3> HIDE DEF r
    <3> QED
      BY <1>1, <3>1 DEF RightProxies
  <2> QED
    BY <1>3, <2>1, <2>2 DEF Lookup
<1>4. ASSUME NEW ip, D!GetByIP(ip)
      PROVE  RightProxies'
  <2>1. DP!GetByIP(ip)
    BY <1>4, SameSteps
  <2>2. \/ records' = records
        \/ \E d \in Domains : records' = DP!Touched(d)
    BY <1>1, <2>1 DEF DP!GetByIP, DP!IInv, DP!TypeOK
  <2>3. CASE records' = records
    BY <2>3 DEF RightProxies
  <2>4. CASE \E d \in Domains : records' = DP!Touched(d)
    <3>1. DP!SamePlaces
      BY <1>1, <2>4, DP!TouchKeepsPlaces, TableAssumptions
    <3> QED
      BY <1>2, <3>1
  <2> QED
    BY <2>2, <2>3, <2>4
<1>5. CASE Sweep
  <2>1. \A d \in Domains : records'[d] \in {NoRecord, records[d]}
    BY <1>1, <1>5 DEF Sweep, D!ReadTick, D!clearExpiredDomain,
                      D!clearExpiredNonProxyDomain, D!tableVars
  <2> QED
    BY <2>1 DEF RightProxies
<1>6. ASSUME UNCHANGED records
      PROVE  RightProxies'
  BY <1>6 DEF RightProxies
<1>7. ASSUME NEW c \in Clients,
             \/ ConnectByName(c) \/ ConnectByAddr(c) \/ Send(c) \/ Ping(c)
             \/ Close(c) \/ Reply(c) \/ FindSession(c)
      PROVE  UNCHANGED records
  BY <1>7 DEF ConnectByName, ConnectByAddr, Send, Ping, Close, Reply, FindSession,
              tableVars
<1>8. ASSUME Allocating \/ Redirect \/ Pass \/ UNCHANGED pathVars
      PROVE  UNCHANGED records
  BY <1>8 DEF Allocating, Redirect, Pass, D!Tick, D!tableVars, pathVars, tableVars
<1>9. ASSUME NEW c \in Clients, FindRecord(c)
      PROVE  RightProxies'
  BY <1>4, <1>9 DEF FindRecord
<1>10. CASE DirectPeer
  <2>1. (\E ip : D!GetByIP(ip)) \/ UNCHANGED records
    BY <1>10 DEF DirectPeer, tableVars
  <2> QED
    BY <1>4, <1>6, <2>1
<1> QED
  BY <1>3, <1>5, <1>6, <1>7, <1>8, <1>9, <1>10 DEF PathNext, Client, RelaySide

LEMMA AnswersStep ==
  ASSUME Joint, Joint', AnswersGood, [PathNext]_pathVars
  PROVE  AnswersGood'
<1> SUFFICES ASSUME NEW c \in Clients, answer'[c] # NoAnswer,
                    now' <= answer'[c].asked + Ttl
             PROVE  /\ records'[answer'[c].domain] # NoRecord
                    /\ records'[answer'[c].domain].ip = answer'[c].ip
                    /\ answer'[c].asked + Ttl
                         <= records'[answer'[c].domain].expires + StartTime
  BY DEF AnswersGood, Found
<1>1. /\ answer \in [Clients -> Answer \cup {NoAnswer}]
      /\ now \in Nat /\ now' \in Nat /\ now <= now' /\ Ttl \in Nat /\ StartTime \in Nat
  BY StepsOfNat, TimeGoesOn, NatAssumption, TableAssumptions
     DEF Joint, ConnTypes, DP!TableAssumption
<1>2. CASE answer'[c] = answer[c]
  <2>1. /\ answer[c].domain \in Domains /\ answer[c].asked + Ttl \in Nat
        /\ now <= answer[c].asked + Ttl
    BY <1>1, <1>2 DEF Answer
  <2>2. Found(answer[c].domain, answer[c].ip, answer[c].asked + Ttl)
    BY <1>1, <1>2, <2>1 DEF AnswersGood
  <2> QED
    BY <1>2, <2>1, <2>2, RecordKept
<1>3. ASSUME NEW e \in Clients, NEW d \in Domains, Lookup(e, d), e # c
      PROVE  answer'[c] = answer[c]
  BY <1>1, <1>3 DEF Lookup
<1>4. CASE Pass
  <2>1. answer'[c] \in {answer[c], NoAnswer}
    BY <1>4 DEF Pass
  <2> QED
    BY <1>2, <2>1
<1>5. ASSUME NEW e \in Clients,
             \/ ConnectByName(e) \/ ConnectByAddr(e) \/ Send(e) \/ Ping(e)
             \/ Close(e) \/ RelaySide(e)
      PROVE  answer' = answer
  BY <1>5 DEF ConnectByName, ConnectByAddr, Send, Ping, Close, RelaySide, Reply,
              FindSession, FindRecord
<1>6. ASSUME \/ Allocating \/ Redirect \/ DirectPeer \/ Sweep
             \/ UNCHANGED pathVars
      PROVE  answer' = answer
  BY <1>6 DEF Allocating, Redirect, DirectPeer, Sweep, pathVars
<1>7. ASSUME NEW d \in Domains, Lookup(c, d)
      PROVE  /\ records'[answer'[c].domain] # NoRecord
             /\ records'[answer'[c].domain].ip = answer'[c].ip
             /\ answer'[c].asked + Ttl
                  <= records'[answer'[c].domain].expires + StartTime
  <2>1. /\ answer'[c].domain = d /\ answer'[c].asked = now
        /\ answer'[c].ip = records'[d].ip
    <3>1. answer'[c] = [domain |-> d, ip |-> records'[d].ip, asked |-> now]
      BY <1>1, <1>7 DEF Lookup
    <3> QED
      BY <3>1
  <2>2. records'[d] # NoRecord /\ records'[d].expires = now - StartTime + Ttl
    <3>1. DP!IInv /\ DP!IInv'
      BY StepsOfTable, DP!StepKeeps, TableAssumptions DEF Joint
    <3> QED
      BY <1>7, <3>1, AnswerGiven
  <2>3. now + Ttl <= now - StartTime + Ttl + StartTime
    BY <1>1
  <2> QED
    BY <2>1, <2>2, <2>3
<1>8. \/ \E d \in Domains : Lookup(c, d)
      \/ Pass
      \/ answer'[c] = answer[c]
  BY <1>3, <1>5, <1>6 DEF PathNext, Client
<1> QED
  BY <1>2, <1>4, <1>7, <1>8

(* A connection's target is not lost on the way. *)
LEMMA WayKept ==
  ASSUME Joint, OnTheWay, [PathNext]_pathVars, NEW c \in Clients, conn[c] # NoConn,
         conn'[c].want = conn[c].want, conn'[c].dst = conn[c].dst,
         conn'[c].due = conn[c].due
  PROVE  /\ conn'[c].want \in Domains /\ now' <= conn'[c].due =>
              /\ records'[conn'[c].want] # NoRecord
              /\ records'[conn'[c].want].ip = conn'[c].dst.ip
              /\ conn'[c].due <= records'[conn'[c].want].expires + StartTime
         /\ conn'[c].want \notin Domains =>
              conn'[c].want = conn'[c].dst.ip /\ conn'[c].want \in RealHosts
<1>1. conn[c] \in Conn /\ conn[c].due \in Nat
  BY DEF Joint, ConnTypes, Conn
<1>2. now \in Nat /\ now' \in Nat /\ now <= now'
  BY StepsOfNat, TimeGoesOn DEF Joint
<1>3. ASSUME conn[c].want \in Domains, now' <= conn[c].due
      PROVE  /\ records'[conn[c].want] # NoRecord
             /\ records'[conn[c].want].ip = conn[c].dst.ip
             /\ conn[c].due <= records'[conn[c].want].expires + StartTime
  <2>1. now <= conn[c].due
    BY <1>1, <1>2, <1>3
  <2>2. Found(conn[c].want, conn[c].dst.ip, conn[c].due)
    BY <1>3, <2>1 DEF OnTheWay
  <2> QED
    BY <1>1, <1>3, <2>1, <2>2, RecordKept
<1>4. conn[c].want \notin Domains =>
        conn[c].want = conn[c].dst.ip /\ conn[c].want \in RealHosts
  BY DEF OnTheWay
<1> QED
  BY <1>3, <1>4

LEMMA OnTheWayStep ==
  ASSUME Joint, Joint', ConnKept, AnswersGood, RightProxies, OnTheWay,
         [PathNext]_pathVars
  PROVE  OnTheWay'
<1> SUFFICES ASSUME NEW c \in Clients, conn'[c] # NoConn
    PROVE  /\ conn'[c].want \in Domains /\ now' <= conn'[c].due =>
                /\ records'[conn'[c].want] # NoRecord
                /\ records'[conn'[c].want].ip = conn'[c].dst.ip
                /\ conn'[c].due <= records'[conn'[c].want].expires + StartTime
           /\ conn'[c].want \notin Domains =>
                conn'[c].want = conn'[c].dst.ip /\ conn'[c].want \in RealHosts
           /\ conn'[c].pc \in {"syn", "accept", "record"} => conn'[c].proxy = NoProxy
           /\ conn'[c].pc = "record" /\ conn'[c].live =>
                conn'[c].host = conn'[c].dst.ip
           /\ conn'[c].pc \in {"dialled", "refused"} /\ conn'[c].live =>
                Arrived(conn'[c])
  BY DEF OnTheWay, Found, Arrived
<1>1. /\ conn \in [Clients -> Conn \cup {NoConn}]
      /\ answer \in [Clients -> Answer \cup {NoAnswer}]
      /\ now \in Nat /\ now' \in Nat /\ now <= now'
      /\ IInv /\ IInv' /\ DP!IInv /\ [Next]_vars /\ Ttl \in Nat
  BY StepsOfNat, TimeGoesOn, TableAssumptions DEF Joint, ConnTypes, DP!TableAssumption
<1>2. ASSUME conn[c] # NoConn
      PROVE  /\ conn[c] \in Conn
             /\ conn[c].pc \in {"syn", "accept", "record"} => conn[c].proxy = NoProxy
             /\ conn[c].pc = "record" /\ conn[c].live => conn[c].host = conn[c].dst.ip
             /\ conn[c].pc \in {"dialled", "refused"} /\ conn[c].live => Arrived(conn[c])
  BY <1>1, <1>2 DEF OnTheWay
<1>3. CASE conn'[c] = conn[c]
  BY <1>2, <1>3, WayKept
<1>4. CASE ConnectByName(c)
  <2> DEFINE d == answer[c].domain
             due == answer[c].asked + Ttl
  <2>1. PICK dst \in Dests : /\ dst.ip = answer[c].ip
                             /\ conn' = [conn EXCEPT ![c] = Attempt(dst, d, due)]
    BY <1>4 DEF ConnectByName
  <2>2. /\ answer[c] # NoAnswer /\ now <= due /\ d \in Domains /\ due \in Nat
    BY <1>1, <1>4 DEF ConnectByName, Answer
  <2>3. Found(d, dst.ip, due)
    BY <2>1, <2>2 DEF AnswersGood
  <2>4. /\ records'[d] # NoRecord /\ records'[d].ip = dst.ip
        /\ due <= records'[d].expires + StartTime
    BY <2>2, <2>3, RecordKept
  <2>5. conn'[c] = Attempt(dst, d, due)
    BY <1>1, <2>1
  <2> HIDE DEF d, due
  <2>6. /\ conn'[c].want = d /\ conn'[c].dst = dst /\ conn'[c].due = due
        /\ conn'[c].pc = "syn" /\ conn'[c].proxy = NoProxy
    BY <2>5 DEF Attempt
  <2> QED
    BY <2>2, <2>4, <2>6
<1>5. CASE ConnectByAddr(c)
  <2>1. PICK dst \in Dests : /\ dst.ip \in RealHosts
                             /\ conn' = [conn EXCEPT ![c] = Attempt(dst, dst.ip, MaxTime)]
    BY <1>5 DEF ConnectByAddr
  <2>2. conn'[c] = Attempt(dst, dst.ip, MaxTime)
    BY <1>1, <2>1
  <2>3. /\ conn'[c].want = dst.ip /\ conn'[c].dst = dst
        /\ conn'[c].pc = "syn" /\ conn'[c].proxy = NoProxy
    BY <2>2 DEF Attempt
  <2>4. dst.ip \notin Domains
    BY <2>1, PathAssumption
  <2> QED
    BY <2>1, <2>3, <2>4
<1>6. CASE Redirect /\ alloc.src = c /\ conn[c].pc = "syn"
  <2>1. conn[c] \in Conn /\ conn[c] # NoConn /\ conn'[c] = Accepted(conn[c], AllocPort)
    BY <1>1, <1>6 DEF Redirect, NoConn
  <2>2. /\ conn'[c].want = conn[c].want /\ conn'[c].dst = conn[c].dst
        /\ conn'[c].due = conn[c].due
        /\ conn'[c].pc = "accept" /\ conn'[c].proxy = conn[c].proxy
    BY <2>1 DEF Accepted, Conn
  <2> QED
    BY <1>2, <1>6, <2>1, <2>2, WayKept
<1>7. CASE Reply(c)
  <2>1. conn[c] \in Conn /\ conn[c] # NoConn
    BY <1>1, <1>7 DEF Reply, Has, NoConn
  <2>2. conn'[c] = conn[c] \/ conn'[c] = Touch(conn[c])
    BY <1>1, <1>7 DEF Reply
  <2>3. /\ conn'[c].want = conn[c].want /\ conn'[c].dst = conn[c].dst
        /\ conn'[c].due = conn[c].due /\ conn'[c].pc = conn[c].pc
        /\ conn'[c].proxy = conn[c].proxy /\ conn'[c].host = conn[c].host
        /\ conn'[c].live = conn[c].live
    BY <2>1, <2>2 DEF Touch, Conn
  <2>4. Arrived(conn[c]) => Arrived(conn'[c])
    BY <2>3 DEF Arrived
  <2> QED
    BY <1>2, <2>1, <2>3, <2>4, WayKept
<1>8. CASE FindSession(c)
  <2> DEFINE k == [conn[c] EXCEPT !.live = conn[c].live /\ now < conn[c].until]
  <2>1. /\ conn[c] \in Conn /\ conn[c] # NoConn /\ Open(c) /\ conn[c].pc = "accept"
        /\ conn[c].proxy = NoProxy /\ GetSession(conn[c].port)
    BY <1>1, <1>2, <1>8 DEF FindSession, Has, Open, NoConn
  <2>2. /\ k \in Conn /\ k.port = conn[c].port /\ k.want = conn[c].want
        /\ k.dst = conn[c].dst /\ k.due = conn[c].due /\ k.proxy = NoProxy
    BY <2>1 DEF Conn
  <2>3. k.live => conn[c].live /\ now < conn[c].until
    BY <2>1 DEF Conn
  <2>4. k.live => SessionAt(k.port) # NoSession /\ SessionAt(k.port).dst = k.dst
    BY <2>1, <2>2, <2>3 DEF ConnKept, Kept, SessionAt
  <2>5. CASE panicked'
    <3>1. conn'[c] = conn[c]
      BY <1>8, <2>5 DEF FindSession
    <3> QED
      BY <1>3, <3>1
  <2>6. CASE ~ panicked' /\ SessionAt(k.port) = NoSession
    <3>1. conn' = [conn EXCEPT ![c] = [k EXCEPT !.pc = "refused"]]
      BY <1>8, <2>6 DEF FindSession
    <3> HIDE DEF k
    <3>2. conn'[c] = [k EXCEPT !.pc = "refused"]
      BY <1>1, <3>1
    <3>3. /\ conn'[c].want = k.want /\ conn'[c].dst = k.dst /\ conn'[c].due = k.due
          /\ conn'[c].pc = "refused" /\ conn'[c].live = k.live
      BY <2>2, <3>2 DEF Conn
    <3>4. ~ conn'[c].live
      BY <2>4, <2>6, <3>3
    <3> QED
      BY <2>1, <2>2, <3>3, <3>4, WayKept
  <2>7. CASE ~ panicked' /\ SessionAt(k.port) # NoSession
    <3> DEFINE host == SessionAt(k.port).dst.ip
    <3>1. conn' = [conn EXCEPT ![c] = [Touch(k) EXCEPT !.pc = "record", !.host = host]]
      BY <1>8, <2>7 DEF FindSession
    <3> HIDE DEF k, host
    <3>2. conn'[c] = [Touch(k) EXCEPT !.pc = "record", !.host = host]
      BY <1>1, <3>1
    <3>3. /\ Touch(k) \in Conn /\ Touch(k).want = k.want /\ Touch(k).dst = k.dst
          /\ Touch(k).due = k.due /\ Touch(k).live = k.live /\ Touch(k).proxy = k.proxy
      BY <1>1, <2>2, TouchTypes DEF Touch, Conn
    <3>4. /\ conn'[c].want = k.want /\ conn'[c].dst = k.dst /\ conn'[c].due = k.due
          /\ conn'[c].pc = "record" /\ conn'[c].live = k.live
          /\ conn'[c].proxy = k.proxy /\ conn'[c].host = host
      BY <3>2, <3>3 DEF Conn
    <3>5. conn'[c].live => conn'[c].host = conn'[c].dst.ip
      BY <2>4, <3>4 DEF host
    <3> QED
      BY <2>1, <2>2, <3>4, <3>5, WayKept
  <2> QED
    BY <2>5, <2>6, <2>7
<1>9. CASE FindRecord(c)
  <2> DEFINE k == [conn[c] EXCEPT !.live = conn[c].live /\ now <= conn[c].due]
  <2>1. /\ conn[c] \in Conn /\ conn[c] # NoConn /\ conn[c].pc = "record"
        /\ conn[c].proxy = NoProxy
    BY <1>1, <1>2, <1>9 DEF FindRecord, Has, NoConn
  <2>2. /\ k \in Conn /\ k.want = conn[c].want /\ k.host = conn[c].host
        /\ k.dst = conn[c].dst /\ k.due = conn[c].due /\ k.proxy = NoProxy
    BY <2>1 DEF Conn
  <2>3. k.live => conn[c].live /\ now <= conn[c].due
    BY <2>1 DEF Conn
  <2>4. k.live => k.host = k.dst.ip
    BY <1>2, <2>1, <2>2, <2>3
  <2>5. conn'[c] = RealHost(k)
    BY <1>1, <1>9 DEF FindRecord
  <2>6. /\ k.want \in Domains /\ k.live => Found(k.want, k.dst.ip, k.due)
        /\ k.want \notin Domains => k.want = k.dst.ip /\ k.want \in RealHosts
    BY <2>1, <2>2, <2>3 DEF OnTheWay
  <2> HIDE DEF k
  <2>7. /\ conn'[c].want = k.want /\ conn'[c].dst = k.dst /\ conn'[c].due = k.due
        /\ conn'[c].pc \in {"dialled", "refused"} /\ conn'[c].live = k.live
    BY <2>2, <2>5 DEF RealHost, Conn
  <2>8. ASSUME k.live, k.want \in Domains
        PROVE  Arrived(conn'[c])
    <3>1. records[k.want] # NoRecord /\ records[k.want].ip = k.host
      BY <2>4, <2>6, <2>8 DEF Found
    <3>2. k.host \in PoolAddrs /\ ip2Domain[k.host] = k.want
      BY <1>1, <2>8, <3>1, Ends DEF DP!IInv, DP!MapsAgree, DP!Hijacked
    <3>3. k.want # NoDomain
      BY <2>8, TableAssumptions DEF DP!TableAssumption
    <3>4. conn'[c] = [k EXCEPT !.pc = "dialled", !.host = k.want,
                               !.proxy = records[k.want].proxy]
      BY <2>5, <3>2, <3>3 DEF RealHost
    <3>5. records[k.want].proxy = ProxyOf[k.want]
      BY <2>8, <3>1 DEF RightProxies
    <3> QED
      BY <2>2, <2>8, <3>4, <3>5 DEF Arrived, Conn
  <2>9. ASSUME k.live, k.want \notin Domains
        PROVE  Arrived(conn'[c])
    <3>1. k.host = k.want /\ k.host \in RealHosts
      BY <2>4, <2>6, <2>9
    <3>2. ~ D!Contains(k.host) /\ k.host \notin PoolAddrs
      BY <3>1, PathAssumption, Ends
    <3>3. conn'[c] = [k EXCEPT !.pc = "dialled"]
      BY <2>5, <3>2 DEF RealHost
    <3> QED
      BY <2>2, <2>9, <3>1, <3>3 DEF Arrived, Conn
  <2>10. conn'[c].live => Arrived(conn'[c])
    BY <2>7, <2>8, <2>9
  <2> QED
    BY <2>1, <2>2, <2>7, <2>10, WayKept
<1> QED
  BY <1>3, <1>4, <1>5, <1>6, <1>7, <1>8, <1>9, ConnSteps DEF RelaySide, Joint

(* A connection gets to the domain its client has asked about, through the *)
(* proxy of that domain, or to the address it named, when its session and  *)
(* its record are looked up in time (realRemoteHost).                      *)
THEOREM ConnectionsArrive == PathSpec => []RoutedAsAsked
<1>1. PathInit => /\ TouchedBefore /\ ConnKept
                  /\ AnswersGood /\ RightProxies /\ OnTheWay
  BY DEF PathInit, Init, TouchedBefore, ConnKept, NoConn, Open, AnswersGood,
         RightProxies, OnTheWay, D!InitTable
<1>2. Joint /\ Joint' /\ [PathNext]_pathVars
        /\ TouchedBefore /\ ConnKept /\ AnswersGood /\ RightProxies /\ OnTheWay
        => TouchedBefore' /\ ConnKept'
           /\ AnswersGood' /\ RightProxies' /\ OnTheWay'
  BY TouchedStep, ConnKeptStep, AnswersStep, ProxiesStep, OnTheWayStep, StepsOfNat
     DEF Joint
<1>3. OnTheWay => RoutedAsAsked
  BY DEF OnTheWay, RoutedAsAsked, Arrived, NoConn
<1> QED
  BY <1>1, <1>2, <1>3, JointInvariance, PTL DEF PathSpec
=============================================================================
