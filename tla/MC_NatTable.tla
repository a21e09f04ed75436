---------------------------- MODULE MC_NatTable ----------------------------
(***************************************************************************)
(* Clients, destinations and port ranges for the runs of NatTable.         *)
(***************************************************************************)
EXTENDS NatTable

(* Two hosts; the first one uses two source ports. *)
C1 == [ip |-> 1, port |-> 5]
C2 == [ip |-> 1, port |-> 6]
C3 == [ip |-> 2, port |-> 5]

TwoClients   == {C1, C2}
ThreeClients == {C1, C2, C3}
=============================================================================
