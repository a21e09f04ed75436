------------------------------- MODULE TCPPath -------------------------------
(***************************************************************************)
(* The path of a TCP connection through KONE: the client's query, the      *)
(* packets that the tun goroutine rewrites (k1/tun.go, Filter of           *)
(* k1/tcp_relay.go, icmpFilterFunc), the NAT, and the relay's goroutine    *)
(* that finds out where the client wanted to go (realRemoteHost).  The NAT *)
(* is NatTable's, the table of domains DnsTable's; they share the clock.   *)
(***************************************************************************)
EXTENDS NatTable, Packets

CONSTANTS
  AddrSpace, SubnetIP, HostMask, TunIP, MaxSpace, Domains, NameSum,
  Proxies, NoDomain, NoRecord, Ttl, TickPeriod, MinRecords,
               \* as in DnsIPPool and DnsTable; NameSum is its Checksum
  ProxyOf,     \* domain -> its proxy by the rule; all of them are proxied
  NoProxy,     \* the empty proxy name
  Service,     \* the port that clients connect to
  RealHosts,   \* addresses that are used without asking for a name, ...
  Knowing,     \* ... by these clients
  RelayPort,   \* the port of the relay, at the tun's own address
  Rests        \* bound: the sums of the words that the code leaves alone

VARIABLES
  flags, records, ip2Domain, ticks, cleaner,   \* DnsTable's
  answer,   \* client -> the answer it has in its cache
  conn,     \* client -> the connection from its address
  wire      \* the packet that this step has written to the tun

tableVars == <<flags, records, ip2Domain, ticks, cleaner>>
pathVars  == <<vars, tableVars, answer, conn, wire>>

(* The queries here are for proxied domains: no domain is ever marked. *)
D == INSTANCE DnsTable
       WITH Checksum <- NameSum, AnswerTtls <- {}, nonProxy <- [d \in Domains |-> -1],
            now <- now - StartTime, MaxTime <- MaxTime - StartTime

PoolAddrs == D!PoolAddrs   \* the fake addresses
Relay == [ip |-> TunIP, port |-> RelayPort]

ASSUME TablesAssumption ==
  D!PoolAssumption /\ D!TableAssumption /\ D!NoRecordAssumption

ASSUME PathAssumption ==
  /\ Dests = [ip : PoolAddrs \cup RealHosts, port : {Service}]
  /\ \A ip \in RealHosts : ip \in D!Addrs /\ ~ D!Contains(ip)
  /\ \A c \in Clients : c.ip \in D!Addrs
  /\ Relay \notin Clients /\ Service \in 0 .. Word - 1 /\ RelayPort \in 0 .. Word - 1
  /\ ProxyOf \in [Domains -> Proxies] /\ NoProxy \notin Proxies
  /\ Domains \cap D!Addrs = {}
  /\ Word = Short /\ AddrSpace <= Short * Short
  /\ \A rest \in Rests : rest \in Nat /\ rest + 16 * Short <= Short * Short

NoAnswer == [asked |-> 0]
NoConn   == [pc |-> "none"]
NoPacket == [proto |-> 0]

(* What is done to a connection in time: "until" is when its session may   *)
(* be swept, "due" when the answer is no longer to be used, "live" whether *)
(* nothing came too late so far.  host is the address that the session     *)
(* gives at first, and what is dialled in the end.                         *)
PathInit ==
  /\ Init
  /\ D!InitTable /\ ticks = D!Never /\ cleaner = [pc |-> "wait", at |-> 0]
  /\ answer = [c \in Clients |-> NoAnswer]
  /\ conn = [c \in Clients |-> NoConn]
  /\ wire = NoPacket

Silent == wire' = NoPacket
-----------------------------------------------------------------------------
(* The query of a client without a connection: Get, or Set when there is   *)
(* no record.                                                              *)
Lookup(c, d) ==
  /\ ~ panicked /\ conn[c] = NoConn /\ UNCHANGED vars
  /\ \/ d \in D!Hijacked /\ D!Get(d)
     \/ D!SetNew(d, ProxyOf[d])
  /\ answer' = [answer EXCEPT ![c] =
       [domain |-> d, ip |-> records'[d].ip, asked |-> now]]
  /\ UNCHANGED <<ticks, cleaner, conn>> /\ Silent

(* Filter for a packet that is not from the relay begins with allocSession *)
(* for its ends.  The first packet of a connection goes to the address of  *)
(* an answer that is still good, or to one the client knows.               *)
Attempt(dst, want, due) ==
  [pc |-> "syn", dst |-> dst, want |-> want, due |-> due,
   port |-> 0, until |-> 0, live |-> FALSE, host |-> 0, proxy |-> NoProxy]

ConnectByName(c) ==
  LET a == answer[c]
  IN  /\ conn[c] = NoConn /\ a # NoAnswer /\ now <= a.asked + Ttl
      /\ \E dst \in Dests :
           /\ dst.ip = a.ip
           /\ AllocBegin(c, dst)
           /\ conn' = [conn EXCEPT ![c] = Attempt(dst, a.domain, a.asked + Ttl)]
      /\ UNCHANGED <<tableVars, answer>> /\ Silent

ConnectByAddr(c) ==
  /\ conn[c] = NoConn /\ c \in Knowing
  /\ \E dst \in Dests :
       /\ dst.ip \in RealHosts
       /\ AllocBegin(c, dst)
       /\ conn' = [conn EXCEPT ![c] = Attempt(dst, dst.ip, MaxTime)]
  /\ UNCHANGED <<tableVars, answer>> /\ Silent

(* A later packet of a connection. *)
Send(c) ==
  /\ conn[c].pc \notin {"none", "refused"}
  /\ AllocBegin(c, conn[c].dst)
  /\ UNCHANGED <<tableVars, answer, conn>> /\ Silent

Allocating ==
  /\ ClearExpired \/ MapSkip \/ MapPanic
  /\ UNCHANGED <<tableVars, answer, conn>> /\ Silent
-----------------------------------------------------------------------------
(* Packets as they come from the tun: their checksums are right.           *)
TCPPacket(from, to, rest) ==
  ResetChecksum([proto |-> TCP, src |-> from.ip, dst |-> to.ip,
                   sport |-> from.port, dport |-> to.port, len |-> 20,
                   rest |-> rest, head |-> rest, check |-> 0, ipcheck |-> 0])

(* The port that allocSession returns; 0 if there is none. *)
AllocPort == LET p == h2Port'[hashAddr(alloc.src)] IN IF p = NoPort THEN 0 ELSE p

(* The relay's system sees a connection from the port, and accepts it.     *)
Accepted(k, port) ==
  IF port = 0 THEN [k EXCEPT !.pc = "accept"]
  ELSE [k EXCEPT !.pc = "accept", !.port = port,
          !.until = sessions'[Slot(port)].lastTouch + SessionLife,
          !.live = sessions'[Slot(port)].dst = k.dst]

(* allocSession returns and the packet is written back, for the relay.     *)
Redirect ==
  LET c == alloc.src
  IN  /\ MapKnown \/ MapNew \/ MapFull
      /\ conn' = IF conn[c].pc = "syn"
                 THEN [conn EXCEPT ![c] = Accepted(conn[c], AllocPort)] ELSE conn
      /\ \E rest \in Rests :
           wire' = Rewritten(TCPPacket(c, alloc.dst, rest),
                               [ip |-> alloc.dst.ip, port |-> AllocPort], Relay)
      /\ UNCHANGED <<tableVars, answer>>

SessionAt(port) == sessions[Slot(port)]

(* getSession for the relay's side of a connection has found its session:  *)
(* if that was in time the session lives on.                               *)
Touch(k) == IF now < k.until THEN [k EXCEPT !.until = now + SessionLife] ELSE k

Has(c, pcs) == ~ panicked /\ conn[c].pc \in pcs

(* Filter for a packet from the relay, which its system sends for c: the   *)
(* session of the port says where it goes and where it seems to come from. *)
Reply(c) ==
  /\ Has(c, {"accept", "record", "dialled"}) /\ alloc = Idle
  /\ GetSession(conn[c].port)
  /\ IF panicked' \/ SessionAt(conn[c].port) = NoSession
     THEN UNCHANGED conn /\ Silent
     ELSE LET s == SessionAt(conn[c].port)
          IN  /\ conn' = [conn EXCEPT ![c] = Touch(conn[c])]
              /\ \E rest \in Rests :
                   wire' = Rewritten(
                     TCPPacket(Relay, [ip |-> conn[c].dst.ip, port |-> conn[c].port], rest),
                     s.dst, s.src)
  /\ UNCHANGED <<tableVars, answer>>

(* icmpFilterFunc for an echo request, which changes the packet alone; so  *)
(* one at the start stands for all.                                        *)
Ping(c) ==
  /\ ~ panicked /\ alloc = Idle /\ now = StartTime
  /\ \E ip \in PoolAddrs, rest \in Rests :
       LET p == [proto |-> ICMP, src |-> c.ip, dst |-> ip, type |-> ICMPRequest,
                 code |-> 0, rest |-> rest, head |-> rest, check |-> 0, ipcheck |-> 0]
       IN  IsEchoRequest(p) /\ wire' = EchoReply(ResetChecksum(p))
  /\ UNCHANGED <<vars, tableVars, answer, conn>>
-----------------------------------------------------------------------------
(* realRemoteHost: the session of the port first, ...                      *)
FindSession(c) ==
  /\ Has(c, {"accept"})
  /\ GetSession(conn[c].port)
  /\ conn' = IF panicked' THEN conn
             ELSE LET k == [conn[c] EXCEPT !.live = conn[c].live /\ now < conn[c].until]
                  IN  [conn EXCEPT ![c] =
                         IF SessionAt(k.port) = NoSession
                         THEN [k EXCEPT !.pc = "refused"]
                         ELSE [Touch(k) EXCEPT !.pc = "record",
                                               !.host = SessionAt(k.port).dst.ip]]
  /\ UNCHANGED <<tableVars, answer>> /\ Silent

(* ... then the record of its destination, which is dialled as it is if it *)
(* is no address of the pool.                                              *)
RealHost(k) ==
  LET known == k.host \in PoolAddrs /\ ip2Domain[k.host] # NoDomain
      d     == ip2Domain[k.host]
  IN  IF known THEN [k EXCEPT !.pc = "dialled", !.host = d, !.proxy = records[d].proxy]
      ELSE IF D!Contains(k.host) THEN [k EXCEPT !.pc = "refused"]
      ELSE [k EXCEPT !.pc = "dialled"]

FindRecord(c) ==
  /\ Has(c, {"record"}) /\ UNCHANGED vars
  /\ D!GetByIP(conn[c].host)
  /\ LET k == [conn[c] EXCEPT !.live = conn[c].live /\ now <= conn[c].due]
     IN  conn' = [conn EXCEPT ![c] = RealHost(k)]
  /\ UNCHANGED <<ticks, cleaner, answer>> /\ Silent

(* A connection to the relay that KONE has not redirected: from a port     *)
(* that may be leased, free or none of the range, looked up as it is; then *)
(* the record of the session's address, late, so of any address.           *)
DirectPeer ==
  /\ \/ (\E port \in DirectPorts : GetSession(port)) /\ UNCHANGED tableVars
     \/ /\ ~ panicked /\ (\E ip \in PoolAddrs : D!GetByIP(ip))
        /\ UNCHANGED <<vars, ticks, cleaner>>
  /\ UNCHANGED <<answer, conn>> /\ Silent

(* Either end closes the connection, or it fails. *)
Close(c) ==
  /\ ~ panicked /\ conn[c] # NoConn
  /\ conn' = [conn EXCEPT ![c] = NoConn]
  /\ UNCHANGED <<vars, tableVars, answer>> /\ Silent
-----------------------------------------------------------------------------
Sweep ==
  /\ ~ panicked /\ UNCHANGED vars
  /\ D!ReadTick \/ D!clearExpiredDomain \/ D!clearExpiredNonProxyDomain
  /\ UNCHANGED <<answer, conn>> /\ Silent

Pass ==
  /\ Tick /\ D!Tick
  /\ answer' = [c \in Clients |->
       IF answer[c] # NoAnswer /\ now' <= answer[c].asked + Ttl THEN answer[c] ELSE NoAnswer]
  /\ UNCHANGED conn /\ Silent

Client(c) ==
  \/ \E d \in Domains : Lookup(c, d)
  \/ ConnectByName(c)
  \/ ConnectByAddr(c)
  \/ Send(c)
  \/ Ping(c)
  \/ Close(c)

RelaySide(c) == Reply(c) \/ FindSession(c) \/ FindRecord(c)

PathNext ==
  \/ \E c \in Clients : Client(c) \/ RelaySide(c)
  \/ Allocating
  \/ Redirect
  \/ DirectPeer
  \/ Sweep
  \/ Pass

PathSpec == PathInit /\ [][PathNext]_pathVars
-----------------------------------------------------------------------------
Conn == [pc : {"syn", "accept", "record", "dialled", "refused"}, dst : Dests,
         want : Domains \cup RealHosts, due : Nat, port : 0 .. Word - 1,
         until : Nat, live : BOOLEAN, host : Domains \cup D!Addrs,
         proxy : Proxies \cup {NoProxy}]

(* Every variable keeps its type: the ends of the connections' packets are *)
(* clients, fake addresses and known ones, whatever is read late.          *)
PathTypeOK ==
  /\ TypeOK /\ D!TypeOK
  /\ answer \in [Clients ->
       [domain : Domains, ip : PoolAddrs, asked : Nat] \cup {NoAnswer}]
  /\ conn \in [Clients -> Conn \cup {NoConn}]

(* A connection keeps its port: until a SessionLife after its session was  *)
(* looked up last, counted from the first packet of the port on, there is  *)
(* a session, and it is the client's, whatever other clients, sweeps and   *)
(* the relay's goroutines do meanwhile; so the packets of the relay go to  *)
(* that client and seem to come from the address it has dialled.           *)
Open(c) == conn[c].pc \in {"accept", "record", "dialled"}

SessionKept ==
  \A c \in Clients : Open(c) /\ now < conn[c].until =>
    LET s == sessions[Slot(conn[c].port)]
    IN  /\ s # NoSession /\ s.src = c
        /\ conn[c].live => s.dst = conn[c].dst

(* A connection gets where its client wants to go: the domain it has asked *)
(* about, through the proxy the rule has for it, or the address it named,  *)
(* and it is not refused.  The session must be looked up before it may be  *)
(* swept, and the record before the ttl of the answer is over, and the     *)
(* client's port must not have a session for another destination.          *)
RoutedAsAsked ==
  \A c \in Clients : conn[c].pc \in {"dialled", "refused"} /\ conn[c].live =>
    /\ conn[c].pc = "dialled" /\ conn[c].host = conn[c].want
    /\ conn[c].proxy = IF conn[c].want \in Domains THEN ProxyOf[conn[c].want]
                                                   ELSE NoProxy

(* The packets that are written to the tun have the checksums that their   *)
(* receivers expect, although they are rewritten after they were made.     *)
PacketsVerify == wire # NoPacket => Verifies(wire)
=============================================================================
