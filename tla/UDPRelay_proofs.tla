-------------------------- MODULE UDPRelay_proofs ---------------------------
(***************************************************************************)
(* Proofs about UDPRelay, for any number of goroutines and tunnels: the    *)
(* relay uses its NAT as the NAT's specification allows, so all that is    *)
(* proved of the NAT holds in the relay; its lock and its tunnels are in   *)
(* order.                                                                  *)
(***************************************************************************)
EXTENDS UDPRelay, NatTable_proofs

(* Every step of the relay is a step of the NAT or leaves it alone.        *)
LEMMA StepsOfNat == UDPNext => [Next]_vars
<1>1. Redirecting => Next
  BY DEF Redirecting, Next
<1>2. Redirect => Next
  BY DEF Redirect, Next
<1>3. FilterReply => Next
  BY DEF FilterReply, Next
<1>4. ASSUME NEW h \in Handlers, Grab(h) \/ DialEnds(h)
      PROVE  [Next]_vars
  <2>1. CASE GrabPanics(h) \/ GrabExpired(h) \/ Dial(h)
    BY <2>1 DEF GrabPanics, GrabExpired, Dial, GetSession, Next
  <2>2. CASE GrabKnown(h) \/ GrabNoSession(h) \/ DialEnds(h)
    BY <2>2 DEF GrabKnown, GrabNoSession, DialEnds, DialFails, RequestFails,
                DialSucceeds
  <2> QED
    BY <1>4, <2>1, <2>2 DEF Grab
<1>5. ASSUME NEW t \in Tunnels, PumpReturns(t) \/ Close(t)
      PROVE  UNCHANGED vars
  BY <1>5 DEF PumpReturns, Close
<1>6. TimePasses => Next
  BY DEF TimePasses, Next
<1>7. DirectPacket => UNCHANGED vars
  BY DEF DirectPacket
<1> QED
  BY <1>1, <1>2, <1>3, <1>4, <1>5, <1>6, <1>7 DEF UDPNext

(* The relay implements the NAT's specification: its handlers, their lock  *)
(* and their tunnels change the NAT by its operations only.                *)
THEOREM ImplementsNat == UDPSpec => Spec
<1>1. UDPInit => Init
  BY DEF UDPInit
<1>2. [UDPNext]_udpVars => [Next]_vars
  BY StepsOfNat DEF udpVars
<1> QED
  BY <1>1, <1>2, PTL DEF UDPSpec, Spec
-----------------------------------------------------------------------------
LEMMA KeysOfTheNat ==
  ASSUME TypeOK, TypeOK', alloc.pc = "map"
  PROVE  RelaySource \in Keys
<1> alloc \in Calls
  BY DEF TypeOK, Idle
<1>1. alloc.dst \in Dests /\ alloc.src \in Clients
  BY DEF Calls
<1>2. hashAddr(alloc.src) \in Hashes
  BY <1>1 DEF Hashes
<1>3. h2Port'[hashAddr(alloc.src)] \in (From .. To - 1) \cup {NoPort}
  BY <1>2 DEF TypeOK
<1>4. alloc.dst.ip \in {d.ip : d \in Dests}
  BY <1>1
<1> QED
  BY <1>3, <1>4 DEF RelaySource, Keys, Ports

(* A step keeps the relay's part of the state in its type. *)
LEMMA UDPTypeStep ==
  ASSUME UDPTypeOK, TypeOK, TypeOK', [UDPNext]_udpVars
  PROVE  UDPTypeOK'
<1> USE DEF UDPTypeOK
<1>1. CASE Redirecting \/ FilterReply \/ TimePasses
  BY <1>1 DEF Redirecting, FilterReply, TimePasses, relayVars
<1>2. CASE Redirect
  <2>1. alloc.pc = "map"
    BY <1>2 DEF Redirect, MapKnown, MapNew, MapFull, Searching
  <2>2. [pc |-> "grab", key |-> RelaySource] \in Packet
    BY <2>1, KeysOfTheNat DEF Packet
  <2> QED
    BY <1>2, <2>2 DEF Redirect
<1>3. ASSUME NEW h \in Handlers, Grab(h)
      PROVE  UDPTypeOK'
  <2>1. CASE GrabKnown(h) \/ GrabPanics(h) \/ GrabNoSession(h) \/ GrabExpired(h)
    BY <2>1 DEF GrabKnown, GrabPanics, GrabNoSession, GrabExpired, Done,
                relayVars
  <2>2. CASE Dial(h)
    <3>1. At(h, "grab")
      BY <2>2 DEF Dial, GrabNew, Grabbing
    <3>2. [packets[h] EXCEPT !.pc = "dial"] \in Packet
      BY <3>1 DEF At, Packet, NoPacket
    <3> QED
      BY <2>2, <3>2 DEF Dial
  <2> QED
    BY <1>3, <2>1, <2>2 DEF Grab
<1>4. ASSUME NEW h \in Handlers, DialEnds(h)
      PROVE  UDPTypeOK'
  <2>1. CASE DialFails(h) \/ RequestFails(h)
    BY <2>1 DEF DialFails, RequestFails, Done
  <2>2. CASE DialSucceeds(h)
    <3>1. packets[h].key \in Keys
      BY <2>2 DEF DialSucceeds, At, NoPacket, Packet
    <3> QED
      BY <2>2, <3>1 DEF DialSucceeds, Done, UDPTunnel
  <2> QED
    BY <1>4, <2>1, <2>2 DEF DialEnds
<1>5. ASSUME NEW t \in Tunnels, PumpReturns(t) \/ Close(t)
      PROVE  UDPTypeOK'
  <2>1. tunnel[t] \in UDPTunnel
    BY <1>5 DEF PumpReturns, Close, NoTunnel
  <2>2. CASE PumpReturns(t)
    <3>1. [tunnel[t] EXCEPT !.pc = "close"] \in UDPTunnel
      BY <2>1 DEF UDPTunnel
    <3> QED
      BY <2>2, <3>1 DEF PumpReturns
  <2>3. CASE Close(t)
    BY <2>1, <2>3 DEF Close, UDPTunnel
  <2> QED
    BY <1>5, <2>2, <2>3
<1>6. CASE UNCHANGED udpVars
  BY <1>6 DEF udpVars, relayVars
<1>7. CASE DirectPacket
  <2>1. \A peer \in DirectPeers : [pc |-> "grab", key |-> peer] \in Packet
    BY DEF Packet, Keys
  <2> QED
    BY <1>7, <2>1 DEF DirectPacket
<1> QED
  BY <1>1, <1>2, <1>3, <1>4, <1>5, <1>6, <1>7 DEF UDPNext

LEMMA UDPInitType == UDPInit => UDPTypeOK
BY DEF UDPInit, UDPTypeOK

(* The relay's variables keep their types: the source of every packet and  *)
(* of every tunnel is an address of a destination with a port of the NAT,  *)
(* or 0, or that of a program which sends to the relay by itself           *)
(* (UDPRelay.Filter, Serve, grabTunnel).                                   *)
THEOREM UDPTypeCorrect == UDPSpec => []UDPTypeOK
<1>1. UDPSpec => []TypeOK
  BY ImplementsNat, TypeCorrect, PTL
<1> QED
  BY <1>1, UDPInitType, UDPTypeStep, PTL DEF UDPSpec
-----------------------------------------------------------------------------
(* The inductive invariant.  TunnelsHavePumps rests on LockHeldToDial: a   *)
(* dial ends with a source that has no tunnel only because whoever gave it *)
(* one would have held the lock meanwhile.                                 *)
DialledIsNew ==
  \A h \in Handlers : At(h, "dial") => tunnels[packets[h].key] = Nobody

RelayInv == LockHeldToDial /\ DialledIsNew /\ TunnelsHavePumps

LEMMA RelayInit == UDPInit => RelayInv
BY NobodyAssumption DEF UDPInit, RelayInv, LockHeldToDial, DialledIsNew,
   TunnelsHavePumps, At, NoPacket, NoTunnel, Nobody

LEMMA RelayStep ==
  ASSUME UDPTypeOK, UDPTypeOK', RelayInv, [UDPNext]_udpVars
  PROVE  RelayInv'
<1> USE NobodyAssumption, UDPAssumption
<1>1. CASE Redirecting \/ FilterReply \/ TimePasses \/ UNCHANGED udpVars
  BY <1>1 DEF Redirecting, FilterReply, TimePasses, relayVars, udpVars,
     RelayInv, LockHeldToDial, DialledIsNew, TunnelsHavePumps, At
<1>2. CASE Redirect
  BY <1>2 DEF Redirect, RelayInv, LockHeldToDial, DialledIsNew,
     TunnelsHavePumps, At, UDPTypeOK
<1>3. ASSUME NEW h \in Handlers, Grab(h)
      PROVE  RelayInv'
  <2>1. lock = Nobody /\ At(h, "grab")
    BY <1>3 DEF Grab, GrabKnown, GrabPanics, GrabNoSession, GrabExpired, Dial,
                GrabNew, Grabbing
  <2>2. \A g \in Handlers : ~ At(g, "dial")
    BY <2>1 DEF RelayInv, LockHeldToDial
  <2>3. CASE GrabKnown(h) \/ GrabPanics(h) \/ GrabNoSession(h) \/ GrabExpired(h)
    BY <2>2, <2>3 DEF GrabKnown, GrabPanics, GrabNoSession, GrabExpired, Done,
       relayVars, NoPacket, RelayInv, LockHeldToDial, DialledIsNew,
       TunnelsHavePumps, At, UDPTypeOK
  <2>4. CASE Dial(h)
    <3>1. packets' = [packets EXCEPT ![h].pc = "dial"] /\ lock' = h
      BY <2>4 DEF Dial
    <3>2. LockHeldToDial'
      BY <2>2, <3>1 DEF LockHeldToDial, At, UDPTypeOK
    <3>3. packets'[h].key = packets[h].key
      BY <2>1, <3>1 DEF UDPTypeOK, At, NoPacket, Packet
    <3>4. DialledIsNew'
      BY <2>2, <2>4, <3>1, <3>3 DEF DialledIsNew, Dial, GrabNew, At, UDPTypeOK
    <3> QED
      BY <2>4, <3>2, <3>4 DEF Dial, RelayInv, TunnelsHavePumps
  <2> QED
    BY <1>3, <2>3, <2>4 DEF Grab
<1>4. ASSUME NEW h \in Handlers, DialEnds(h)
      PROVE  RelayInv'
  <2>1. At(h, "dial") /\ lock = h /\ tunnels[packets[h].key] = Nobody
    BY <1>4 DEF DialEnds, DialFails, RequestFails, DialSucceeds, RelayInv,
                LockHeldToDial, DialledIsNew
  <2>2. \A g \in Handlers : At(g, "dial") <=> g = h
    BY <2>1 DEF RelayInv, LockHeldToDial
  <2>3. CASE RequestFails(h)
    BY <2>3 DEF RequestFails, RelayInv, LockHeldToDial, DialledIsNew,
                TunnelsHavePumps, At
  <2>4. ASSUME lock' = Nobody, Done(h)
        PROVE  LockHeldToDial' /\ DialledIsNew'
    BY <2>2, <2>4 DEF Done, NoPacket, LockHeldToDial, DialledIsNew, At,
                      UDPTypeOK
  <2>5. CASE DialFails(h)
    BY <2>4, <2>5 DEF DialFails, RelayInv, TunnelsHavePumps
  <2>6. CASE DialSucceeds(h)
    <3>1. PICK t \in Tunnels :
            /\ tunnel[t].pc = "off"
            /\ tunnel' = [tunnel EXCEPT ![t] = [pc |-> "pump",
                                                key |-> packets[h].key]]
            /\ tunnels' = [tunnels EXCEPT ![packets[h].key] = t]
      BY <2>6 DEF DialSucceeds
    <3>2. packets[h].key \in Keys
      BY <2>1 DEF UDPTypeOK, At, NoPacket, Packet
    <3>3. \A k \in Keys : tunnels[k] # t
      BY <3>1 DEF RelayInv, TunnelsHavePumps, Nobody, Tunnels
    <3>4. TunnelsHavePumps'
      <4>1. ASSUME NEW k \in Keys, tunnels'[k] # Nobody
            PROVE  /\ tunnel'[tunnels'[k]].pc # "off"
                   /\ tunnel'[tunnels'[k]].key = k
        <5>1. CASE k = packets[h].key
          BY <3>1, <5>1 DEF UDPTypeOK
        <5>2. CASE k # packets[h].key
          <6>1. tunnels'[k] = tunnels[k] /\ tunnels[k] \in Tunnels
            BY <3>1, <4>1, <5>2 DEF UDPTypeOK
          <6>2. tunnel'[tunnels[k]] = tunnel[tunnels[k]]
            BY <3>1, <3>3, <6>1 DEF UDPTypeOK
          <6> QED
            BY <4>1, <6>1, <6>2 DEF RelayInv, TunnelsHavePumps
        <5> QED
          BY <5>1, <5>2
      <4>2. ASSUME NEW u \in Tunnels, tunnel'[u].pc # "off"
            PROVE  tunnels'[tunnel'[u].key] = u
        <5>1. CASE u = t
          BY <3>1, <3>2, <5>1 DEF UDPTypeOK
        <5>2. CASE u # t
          <6>1. tunnel'[u] = tunnel[u]
            BY <3>1, <5>2 DEF UDPTypeOK
          <6>2. tunnels[tunnel[u].key] = u
            BY <4>2, <6>1 DEF RelayInv, TunnelsHavePumps
          <6>3. tunnel[u].key # packets[h].key
            BY <2>1, <6>2 DEF Nobody, Tunnels
          <6> QED
            BY <3>1, <6>1, <6>2, <6>3 DEF UDPTypeOK
        <5> QED
          BY <5>1, <5>2
      <4> QED
        BY <4>1, <4>2 DEF TunnelsHavePumps
    <3> QED
      BY <2>4, <2>6, <3>4 DEF DialSucceeds, RelayInv
  <2> QED
    BY <1>4, <2>3, <2>5, <2>6 DEF DialEnds
<1>5. ASSUME NEW t \in Tunnels, PumpReturns(t)
      PROVE  RelayInv'
  <2>1. /\ tunnel' = [tunnel EXCEPT ![t].pc = "close"]
        /\ tunnel[t].pc = "pump"
        /\ UNCHANGED <<packets, lock, tunnels>>
    BY <1>5 DEF PumpReturns
  <2>2. \A u \in Tunnels : /\ tunnel'[u].pc # "off" <=> tunnel[u].pc # "off"
                           /\ tunnel[u].pc # "off" =>
                                tunnel'[u].key = tunnel[u].key
    BY <2>1 DEF UDPTypeOK, UDPTunnel, NoTunnel
  <2>3. TunnelsHavePumps'
    BY <2>1, <2>2 DEF RelayInv, TunnelsHavePumps, UDPTypeOK
  <2> QED
    BY <2>1, <2>3 DEF RelayInv, LockHeldToDial, DialledIsNew, At
<1>6. ASSUME NEW t \in Tunnels, Close(t)
      PROVE  RelayInv'
  <2>1. /\ tunnels' = [tunnels EXCEPT ![tunnel[t].key] = Nobody]
        /\ tunnel' = [tunnel EXCEPT ![t] = NoTunnel]
        /\ tunnel[t].pc = "close"
        /\ lock = Nobody
        /\ UNCHANGED <<packets, lock>>
    BY <1>6 DEF Close
  <2>2. \A h \in Handlers : ~ At(h, "dial")
    BY <2>1 DEF RelayInv, LockHeldToDial
  <2>3. tunnels[tunnel[t].key] = t
    BY <2>1 DEF RelayInv, TunnelsHavePumps
  <2>4. \A k \in Keys : tunnels'[k] # Nobody =>
          /\ tunnels'[k] = tunnels[k]
          /\ tunnel'[tunnels[k]] = tunnel[tunnels[k]]
    <3> SUFFICES ASSUME NEW k \in Keys, tunnels'[k] # Nobody
                 PROVE  /\ tunnels'[k] = tunnels[k]
                        /\ tunnel'[tunnels[k]] = tunnel[tunnels[k]]
      OBVIOUS
    <3>1. k # tunnel[t].key /\ tunnels'[k] = tunnels[k]
      BY <2>1 DEF UDPTypeOK
    <3>2. tunnels[k] # t /\ tunnels[k] \in Tunnels
      BY <3>1 DEF RelayInv, TunnelsHavePumps, UDPTypeOK
    <3> QED
      BY <2>1, <3>1, <3>2 DEF UDPTypeOK
  <2>5. \A u \in Tunnels : tunnel'[u].pc # "off" =>
          /\ tunnel'[u] = tunnel[u]
          /\ tunnels'[tunnel[u].key] = tunnels[tunnel[u].key]
    <3> SUFFICES ASSUME NEW u \in Tunnels, tunnel'[u].pc # "off"
                 PROVE  /\ tunnel'[u] = tunnel[u]
                        /\ tunnels'[tunnel[u].key] = tunnels[tunnel[u].key]
      OBVIOUS
    <3>1. u # t /\ tunnel'[u] = tunnel[u]
      BY <2>1 DEF UDPTypeOK, NoTunnel
    <3>2. tunnels[tunnel[u].key] = u
      BY <3>1 DEF RelayInv, TunnelsHavePumps
    <3> QED
      BY <2>1, <2>3, <3>1, <3>2 DEF UDPTypeOK
  <2>6. TunnelsHavePumps'
    BY <2>4, <2>5 DEF RelayInv, TunnelsHavePumps
  <2> QED
    BY <2>1, <2>2, <2>6 DEF RelayInv, LockHeldToDial, DialledIsNew, At
<1>7. CASE DirectPacket
  BY <1>7 DEF DirectPacket, RelayInv, LockHeldToDial, DialledIsNew,
     TunnelsHavePumps, At, UDPTypeOK
<1> QED
  BY <1>1, <1>2, <1>3, <1>4, <1>5, <1>6, <1>7 DEF UDPNext

LEMMA RelayInvariant == UDPSpec => []RelayInv
BY RelayInit, RelayStep, UDPTypeCorrect, PTL DEF UDPSpec

(* The lock is held exactly while a proxy is dialled (grabTunnel).         *)
THEOREM LockOnlyToDial == UDPSpec => []LockHeldToDial
BY RelayInvariant, PTL DEF RelayInv

(* No goroutine takes another's tunnel out of the map, and none leaves its *)
(* own there (grabTunnel, close).                                          *)
THEOREM TunnelsInOrder == UDPSpec => []TunnelsHavePumps
BY RelayInvariant, PTL DEF RelayInv
=============================================================================
