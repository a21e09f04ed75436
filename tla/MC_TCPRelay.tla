---------------------------- MODULE MC_TCPRelay ----------------------------
(***************************************************************************)
(* Connections for the run of TCPRelay: of one host to one website, one    *)
(* through a dialer whose connections are half-closed and one not.         *)
(***************************************************************************)
EXTENDS TCPRelay

CONSTANTS c1, c2

TwoConns == {c1, c2}

MCRoute ==
  [c \in TwoConns |-> [src |-> "host", dst |-> "site",
                       proxy |-> IF c = c1 THEN "A" ELSE "", half |-> c = c1]]

MCBytes ==
  [c \in TwoConns |-> [w \in Ways |-> IF c = c2 /\ w = "up" THEN 0 ELSE 1]]
=============================================================================
