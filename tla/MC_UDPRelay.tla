---------------------------- MODULE MC_UDPRelay ----------------------------
(***************************************************************************)
(* Clients and destinations for the runs of UDPRelay.                      *)
(***************************************************************************)
EXTENDS UDPRelay

TwoClients == {[ip |-> 1, port |-> 5], [ip |-> 2, port |-> 5]}

(* A host behind a fake address, and one that is not. *)
FakeHost == [ip |-> 9, port |-> 7]
RealHost == [ip |-> 8, port |-> 7]

BothDests == {FakeHost, RealHost}

(* A program whose own port is one of the NAT's. *)
MCDirectPeers == {[ip |-> 3, port |-> 10]}
NoPeers == {}
=============================================================================
