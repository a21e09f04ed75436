------------------------------- MODULE Lease -------------------------------
(***************************************************************************)
(* What a table of leases promises its callers, be it the ports of the NAT *)
(* or the fake addresses of the DNS table: every holder has at most one    *)
(* item, no item has two holders, a holder keeps its item until it is      *)
(* released, and only a free item is ever granted.                         *)
(***************************************************************************)
CONSTANTS
  Holders,  \* who may hold an item
  Items,    \* what may be leased
  Nothing   \* the item of a holder that has none

VARIABLE lease   \* lease[h]: the item h holds, or Nothing

TypeOK == lease \in [Holders -> Items \cup {Nothing}]

Init == lease = [h \in Holders |-> Nothing]

(* Item i, free until now, goes to holder h, who had none. *)
Grant(h, i) ==
  /\ lease[h] = Nothing
  /\ \A g \in Holders : lease[g] # i
  /\ lease' = [lease EXCEPT ![h] = i]

(* The holders in S lose their items together. *)
Release(S) ==
  /\ \A h \in S : lease[h] # Nothing
  /\ lease' = [h \in Holders |-> IF h \in S THEN Nothing ELSE lease[h]]

Next ==
  \/ \E h \in Holders, i \in Items : Grant(h, i)
  \/ \E S \in SUBSET Holders : Release(S)

Spec == Init /\ [][Next]_lease

=============================================================================
