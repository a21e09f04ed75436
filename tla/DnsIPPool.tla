----------------------------- MODULE DnsIPPool -----------------------------
(***************************************************************************)
(* The pool of fake addresses (k1/dns_ip_pool.go): an interval of the tun  *)
(* subnet with one "used" flag per address.  The pool is passive: its      *)
(* flags are a variable of DnsTable, whose lock protects them.  Addresses  *)
(* are uint32 numbers and AddrSpace is the number of values of uint32.     *)
(***************************************************************************)
EXTENDS Integers, FiniteSets, FiniteSetsExt

CONSTANTS
  AddrSpace,   \* arithmetic on addresses is modulo AddrSpace
  SubnetIP,    \* the network address of the tun's subnet
  HostMask,    \* the complement of the subnet's mask
  TunIP,       \* the address of the tun device itself
  MaxSpace,    \* DnsIPPoolMaxSpace
  Domains,     \* the host names that are looked up
  Checksum     \* Checksum[d]: the adler32 of the name d

(* The subnet has room for a host: Alloc divides by the size of the pool.  *)
ASSUME PoolAssumption ==
  /\ AddrSpace \in Nat /\ SubnetIP \in Nat /\ HostMask \in Nat
  /\ HostMask >= 2 /\ SubnetIP + HostMask < AddrSpace
  /\ TunIP \in 0 .. AddrSpace - 1
  /\ MaxSpace \in Nat \ {0}
  /\ Checksum \in [Domains -> Nat]

Addrs == 0 .. AddrSpace - 1
NoIP  == -1   \* the nil net.IP
-----------------------------------------------------------------------------
(* Mutation: the pool starts at the network address. *)
baseAtNetwork == SubnetIP

(* NewDnsIPPool: the first address after the network address, and as many  *)
(* as there are before the broadcast address, MaxSpace at most.            *)
base  == (SubnetIP + 1) % AddrSpace
max   == (base + HostMask - 1) % AddrSpace
space == LET n == (max - base) % AddrSpace
         IN  IF n > MaxSpace THEN MaxSpace ELSE n

Indices == 0 .. space - 1

Index(ip) == (ip - base) % AddrSpace

Contains(ip) == Index(ip) < space

(* The tun device uses its own address. *)
NewFlags == [i \in Indices |-> i = Index(TunIP)]

(* Alloc takes the index the name hashes to, so that a name tends to get   *)
(* the same address again, or else the first free one.                     *)
HintIndex(d) == Checksum[d] % space

FreeIndices(flags) == {i \in Indices : ~ flags[i]}

AllocIndex(flags, d) ==
  IF flags[HintIndex(d)] THEN Min(FreeIndices(flags)) ELSE HintIndex(d)

AddrOf(index) == (base + index) % AddrSpace

(* Mutation: addresses leak. *)
ReleasedNothing(flags, ips) == flags

(* Release clears the flag of the address, if it is one of the pool.       *)
Released(flags, ips) ==
  [i \in Indices |-> flags[i] /\ \A ip \in ips : Index(ip) # i]
=============================================================================
