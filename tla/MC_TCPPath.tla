----------------------------- MODULE MC_TCPPath -----------------------------
(***************************************************************************)
(* Clients, domains and packets for the run of TCPPath.                    *)
(***************************************************************************)
EXTENDS TCPPath, TLC

CONSTANTS d1, d2, pA, pB

(* A program on the machine of the tun itself, and one elsewhere. *)
MCClients == {[ip |-> 529, port |-> 5], [ip |-> 592, port |-> 5]}

MCKnowing == {[ip |-> 592, port |-> 5]}

MCDests == [ip : {529, 530, 867}, port : {7}]

MCNameSum == d1 :> 3 @@ d2 :> 3
MCProxyOf == d1 :> pA @@ d2 :> pB
=============================================================================
