------------------------------ MODULE UDPRelay ------------------------------
(***************************************************************************)
(* The UDP relay (k1/udp_relay.go) over its NAT.  The tun goroutine        *)
(* redirects each packet of a client to the relay's socket, with the       *)
(* address of the destination and the port of the NAT as its source; a     *)
(* program may also send there by itself.  For each packet that arrives a  *)
(* goroutine looks for the tunnel of its source, or makes one, under the   *)
(* lock of the tunnels, which it holds while a proxy is dialled.  Each     *)
(* tunnel has a goroutine, Pump, that sends what the proxy returns back    *)
(* through the tun and takes the tunnel away in the end.                   *)
(***************************************************************************)
EXTENDS NatTable

CONSTANTS
  Handlers,    \* bound: the goroutines that handle packets at a time
  MaxTunnels,  \* bound: the tunnels there are at a time
  FakeIPs,     \* the destinations whose record in the DNS table may expire
  DirectPeers  \* programs that send to the relay's socket by themselves

ASSUME UDPAssumption ==
  /\ Dests \subseteq [ip : Nat, port : 0 .. Word - 1]
  /\ MaxTunnels \in Nat \ {0}
  /\ FakeIPs \subseteq Nat
  /\ DirectPeers \subseteq [ip : Nat, port : DirectPorts]

Ports   == From .. To - 1
Keys    == [ip : {d.ip : d \in Dests}, port : Ports \cup {0}] \cup DirectPeers
Tunnels == 1 .. MaxTunnels
Nobody  == 0      \* no handler, no tunnel
ASSUME NobodyAssumption == Nobody \notin Handlers

VARIABLES
  packets,  \* handler -> the packet it handles: where it came from
  lock,     \* the handler that dials with the lock held, or Nobody
  tunnels,  \* UDPRelay.tunnels: source of the packets -> tunnel, or Nobody
  tunnel,   \* tunnel -> the UDPTunnel and how far its goroutine is
  crashed   \* a nil pointer has been read, which ends the process

relayVars == <<packets, lock, tunnels, tunnel, crashed>>
udpVars   == <<vars, relayVars>>

NoPacket == [pc |-> "idle"]
NoTunnel == [pc |-> "off"]

UDPInit ==
  /\ Init
  /\ packets = [h \in Handlers |-> NoPacket]
  /\ lock = Nobody
  /\ tunnels = [k \in Keys |-> Nobody]
  /\ tunnel = [t \in Tunnels |-> NoTunnel]
  /\ crashed = FALSE

At(h, pc) == packets[h].pc = pc

Alive == ~ panicked /\ ~ crashed
-----------------------------------------------------------------------------
(* Filter: allocSession is under way on the tun goroutine.                 *)
Redirecting ==
  /\ ~ crashed
  /\ \/ \E src \in Clients, dst \in Dests : AllocBegin(src, dst)
     \/ ClearExpired \/ MapSkip \/ MapPanic
  /\ UNCHANGED relayVars

(* Mutation: the source port of the packet stays as it is. *)
RelaySourceOwnPort == [ip |-> alloc.dst.ip, port |-> alloc.src.port]

(* The source a redirected packet gets: its destination's address, and the *)
(* port of its sender in the NAT, or 0.                                    *)
RelaySource ==
  LET p == h2Port'[hashAddr(alloc.src)]
  IN  [ip |-> alloc.dst.ip, port |-> IF p = NoPort THEN 0 ELSE p]

(* allocSession ends, and the packet is written back to the tun.  It gets  *)
(* to the relay's socket, and a goroutine of its own, or is lost.          *)
Redirect ==
  /\ ~ crashed
  /\ MapKnown \/ MapNew \/ MapFull
  /\ \/ UNCHANGED packets
     \/ \E h \in Handlers :
          /\ At(h, "idle")
          /\ packets' = [packets EXCEPT ![h] =
                           [pc |-> "grab", key |-> RelaySource]]
  /\ UNCHANGED <<lock, tunnels, tunnel, crashed>>

(* A packet that KONE has not redirected gets to the relay's socket: it    *)
(* says of its source what the program that has sent it is bound to.       *)
DirectPacket ==
  /\ Alive
  /\ \E h \in Handlers, peer \in DirectPeers :
       /\ At(h, "idle")
       /\ packets' = [packets EXCEPT ![h] = [pc |-> "grab", key |-> peer]]
  /\ UNCHANGED <<vars, lock, tunnels, tunnel, crashed>>

(* A packet from the relay, sent by Pump some time ago: its session says   *)
(* which client it goes to.                                                *)
FilterReply ==
  /\ ~ crashed
  /\ alloc = Idle
  /\ \E port \in PeerPorts \cap Ports : GetSession(port)
  /\ UNCHANGED <<packets, lock, tunnels, tunnel, crashed>>
-----------------------------------------------------------------------------
(* grabTunnel.  The lock is free, and held until the last step of it.      *)
Grabbing(h) == Alive /\ At(h, "grab") /\ lock = Nobody

Done(h) == packets' = [packets EXCEPT ![h] = NoPacket]

(* There is a tunnel, whose goroutine may have left Pump: the packet is    *)
(* written to it, and the session not looked up.                           *)
GrabKnown(h) ==
  /\ Grabbing(h)
  /\ tunnels[packets[h].key] # Nobody
  /\ Done(h)
  /\ UNCHANGED <<vars, lock, tunnels, tunnel, crashed>>

GrabNew(h) == Grabbing(h) /\ tunnels[packets[h].key] = Nobody

(* The lookup is out of range: the port is 0, or a direct peer's.          *)
GrabPanics(h) ==
  /\ GrabNew(h)
  /\ Slot(packets[h].key.port) \notin Slots
  /\ GetSession(packets[h].key.port)
  /\ UNCHANGED relayVars

SessionOf(h) == sessions[Slot(packets[h].key.port)]

(* There is no session, and the message that says so reads its fields.     *)
GrabNoSession(h) ==
  /\ GrabNew(h)
  /\ Slot(packets[h].key.port) \in Slots
  /\ SessionOf(h) = NoSession
  /\ crashed' = TRUE
  /\ UNCHANGED <<vars, packets, lock, tunnels, tunnel>>

(* The record of the fake address has expired: no tunnel.                  *)
GrabExpired(h) ==
  /\ GrabNew(h)
  /\ Slot(packets[h].key.port) \in Slots
  /\ SessionOf(h) # NoSession
  /\ SessionOf(h).dst.ip \in FakeIPs
  /\ GetSession(packets[h].key.port)
  /\ Done(h)
  /\ UNCHANGED <<lock, tunnels, tunnel, crashed>>

(* Mutation: the lock is not held while the proxy is dialled. *)
DialUnlocked(h) ==
  /\ GrabNew(h)
  /\ Slot(packets[h].key.port) \in Slots
  /\ SessionOf(h) # NoSession
  /\ GetSession(packets[h].key.port)
  /\ packets' = [packets EXCEPT ![h].pc = "dial"]
  /\ UNCHANGED <<lock, tunnels, tunnel, crashed>>

Dial(h) ==
  /\ GrabNew(h)
  /\ Slot(packets[h].key.port) \in Slots
  /\ SessionOf(h) # NoSession
  /\ GetSession(packets[h].key.port)
  /\ lock' = h
  /\ packets' = [packets EXCEPT ![h].pc = "dial"]
  /\ UNCHANGED <<tunnels, tunnel, crashed>>

(* Mutation: the early return leaves the lock held. *)
DialFailsLocked(h) ==
  /\ Alive /\ At(h, "dial")
  /\ Done(h)
  /\ UNCHANGED <<vars, lock, tunnels, tunnel, crashed>>

DialFails(h) ==
  /\ Alive /\ At(h, "dial")
  /\ lock' = Nobody
  /\ Done(h)
  /\ UNCHANGED <<vars, tunnels, tunnel, crashed>>

(* The proxy is reached but answers the UDP request with an error, which   *)
(* is not looked at: the reply, that there is none of, is read.            *)
RequestFails(h) ==
  /\ Alive /\ At(h, "dial")
  /\ crashed' = TRUE
  /\ UNCHANGED <<vars, packets, lock, tunnels, tunnel>>

(* The tunnel is made and its goroutine started.                           *)
DialSucceeds(h) ==
  /\ Alive /\ At(h, "dial")
  /\ \E t \in Tunnels :
       /\ tunnel[t].pc = "off"
       /\ \A u \in 1 .. t - 1 : tunnel[u].pc # "off"
       /\ tunnel' = [tunnel EXCEPT ![t] = [pc |-> "pump",
                                           key |-> packets[h].key]]
       /\ tunnels' = [tunnels EXCEPT ![packets[h].key] = t]
  /\ lock' = Nobody
  /\ Done(h)
  /\ UNCHANGED <<vars, crashed>>
-----------------------------------------------------------------------------
(* Pump returns: at the deadline that grabTunnel has set, on an error, or  *)
(* with the first answer of a name server.  close closes the connections,  *)
(* and waits for the lock.                                                 *)
PumpReturns(t) ==
  /\ Alive /\ tunnel[t].pc = "pump"
  /\ tunnel' = [tunnel EXCEPT ![t].pc = "close"]
  /\ UNCHANGED <<vars, packets, lock, tunnels, crashed>>

(* Mutation: the entry stays. *)
CloseKeepsEntry(t) ==
  /\ Alive /\ tunnel[t].pc = "close" /\ lock = Nobody
  /\ tunnel' = [tunnel EXCEPT ![t] = NoTunnel]
  /\ UNCHANGED <<vars, packets, lock, tunnels, crashed>>

(* The entry is deleted by the source, whichever tunnel stands there.      *)
Close(t) ==
  /\ Alive /\ tunnel[t].pc = "close" /\ lock = Nobody
  /\ tunnels' = [tunnels EXCEPT ![tunnel[t].key] = Nobody]
  /\ tunnel' = [tunnel EXCEPT ![t] = NoTunnel]
  /\ UNCHANGED <<vars, packets, lock, crashed>>
-----------------------------------------------------------------------------
Grab(h) ==
  \/ GrabKnown(h) \/ GrabPanics(h) \/ GrabNoSession(h)
  \/ GrabExpired(h) \/ Dial(h)

DialEnds(h) == DialFails(h) \/ RequestFails(h) \/ DialSucceeds(h)

TimePasses == Tick /\ ~ crashed /\ UNCHANGED relayVars

UDPNext ==
  \/ Redirecting
  \/ Redirect
  \/ DirectPacket
  \/ FilterReply
  \/ \E h \in Handlers : Grab(h) \/ DialEnds(h)
  \/ \E t \in Tunnels : PumpReturns(t) \/ Close(t)
  \/ TimePasses

UDPSpec == UDPInit /\ [][UDPNext]_udpVars

(* The lock is a sync.Mutex: whoever waits for it gets it in the end if it *)
(* is free again and again.  That a dial ends is not assumed: the proxy is *)
(* asked, and its answer read, without a deadline, which comes only with   *)
(* the tunnel.                                                             *)
Fairness == \A h \in Handlers : SF_udpVars(Grab(h))

FairUDPSpec == UDPSpec /\ Fairness
-----------------------------------------------------------------------------
Packet == [pc : {"grab", "dial"}, key : Keys]

UDPTunnel == [pc : {"pump", "close"}, key : Keys]

UDPTypeOK ==
  /\ packets \in [Handlers -> Packet \cup {NoPacket}]
  /\ lock \in Handlers \cup {Nobody}
  /\ tunnels \in [Keys -> Tunnels \cup {Nobody}]
  /\ tunnel \in [Tunnels -> UDPTunnel \cup {NoTunnel}]
  /\ crashed \in BOOLEAN

(* Every tunnel that can be found has a goroutine that will take it away,  *)
(* and every such goroutine is the one of the tunnel under its source,     *)
(* although it deletes by the source and after it has let others in: no    *)
(* goroutine takes another's tunnel away or leaves connections behind.     *)
TunnelsHavePumps ==
  /\ \A k \in Keys : tunnels[k] # Nobody =>
       tunnel[tunnels[k]].pc # "off" /\ tunnel[tunnels[k]].key = k
  /\ \A t \in Tunnels : tunnel[t].pc # "off" => tunnels[tunnel[t].key] = t

(* The lock is held while a proxy is dialled and at no other time: no      *)
(* return of grabTunnel leaves it to a goroutine that is gone.             *)
LockHeldToDial == \A h \in Handlers : At(h, "dial") <=> lock = h

(* If the proxies let every dial come to an end, with a tunnel or without, *)
(* every packet is done with in the end, although its goroutine waits for  *)
(* a lock that others dial with and closing tunnels wait for as well; or   *)
(* the process has ended.  (A proxy that accepts and is silent stops the   *)
(* relay: see the hazards.)                                                *)
DialsEnd == \A h \in Handlers : []<> ~ At(h, "dial")

EveryPacketHandled ==
  DialsEnd => \A h \in Handlers : []<>(At(h, "idle") \/ panicked \/ crashed)
-----------------------------------------------------------------------------
(* "no session" is a message and "return nil" what follows                 *)
(* (udp_relay.go:99-100): a packet without a session is given up, and the  *)
(* relay goes on.                                                          *)
NoSessionIsNoCrash ==
  [][\A h \in Handlers :
       GrabNew(h) /\ Slot(packets[h].key.port) \in Slots
                 /\ SessionOf(h) = NoSession => ~ crashed']_udpVars
=============================================================================
