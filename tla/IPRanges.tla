------------------------------ MODULE IPRanges ------------------------------
(***************************************************************************)
(* A pattern of the scheme IP-CIDR (k1/pattern.go): an array of ranges of  *)
(* addresses, built and sorted when the configuration is loaded, searched  *)
(* by halves for each address that the rule is asked about, and edited by  *)
(* the web API.  A call is one step: the code has no lock here, and what a *)
(* search sees of an edit under way is not modelled.                       *)
(***************************************************************************)
EXTENDS Integers, Sequences, Functions

CONSTANTS
  Bits,       \* the bits of an address (32)
  MaxConfig,  \* bound: how many values the configuration has
  MaxRanges   \* bound: how many ranges the API leaves in the array

ASSUME IPRangesAssumption ==
  Bits \in Nat \ {0} /\ MaxRanges \in Nat \ {0} /\ MaxConfig \in 0 .. MaxRanges

Seqs == INSTANCE SequencesExt

Space == 2 ^ Bits
Addrs == 0 .. Space - 1

(* What a value parses to, by the number of host bits: Add and Remove take *)
(* the masked address, and the sum of it and the inverted mask.            *)
Ranges ==
  UNION { { [start |-> n * 2 ^ host, end |-> n * 2 ^ host + 2 ^ host - 1] :
            n \in 0 .. 2 ^ (Bits - host) - 1 } : host \in 0 .. Bits }

VARIABLES
  vals,    \* IPCIDRPattern.vals
  config,  \* the values of the configuration, until the first edit
  edited   \* has the API edited the pattern?

vars == <<vals, config, edited>>
-----------------------------------------------------------------------------
(* sort.Search over 0 .. n-1, for the first range that ends at ip or later *)
(* if the array is in order; then a look at where that range begins.       *)
Search(a, ip) ==
  LET first[bounds \in (0 .. Len(a)) \X (0 .. Len(a))] ==
        LET lo == bounds[1]
            hi == bounds[2]
            h  == (lo + hi) \div 2
        IN  IF lo >= hi THEN lo
            ELSE IF a[h + 1].end >= ip THEN first[<<lo, h>>] ELSE first[<<h + 1, hi>>]
  IN  first[<<0, Len(a)>>]

(* Mutation: where the range begins is not looked at. *)
ContainsUpTo(a, ip) == Search(a, ip) < Len(a)

Contains(a, ip) ==
  LET i == Search(a, ip)
  IN  i < Len(a) /\ a[i + 1].start <= ip

(* Mutation: one address too many. *)
AddPastEnd(a, r) == Append(a, [r EXCEPT !.end = @ + 1])

(* A value is ignored when its second address or its last but one matches  *)
(* already; the sums are those of uint32.                                  *)
Add(a, r) ==
  IF \/ Contains(a, (r.start + 1) % Space)
     \/ Contains(a, (r.end - 1) % Space)
  THEN a ELSE Append(a, r)

(* Mutation: the last range takes the place of the one removed. *)
WithoutSwapped(a, k, n) == [a EXCEPT ![k] = a[n]]

(* The first n places of an array without the k-th: the rest moves up.     *)
Without(a, k, n) ==
  [j \in DOMAIN a |-> IF k <= j /\ j < n THEN a[j + 1] ELSE a[j]]

(* Remove's loop goes over the places the array had at first, while append *)
(* moves the ranges up under it.  To cut behind the end that is left is a  *)
(* panic, which ends the request and leaves the array as it is by then.    *)
Remove(a, r) ==
  LET Visit(s, k) ==
        IF s.panic \/ s.a[k] # r THEN s
        ELSE IF k > s.n THEN [s EXCEPT !.panic = TRUE]
        ELSE [s EXCEPT !.a = Without(s.a, k, s.n), !.n = @ - 1]
      s == Seqs!FoldLeft(Visit, [a |-> a, n |-> Len(a), panic |-> FALSE],
                         [k \in DOMAIN a |-> k])
  IN  SubSeq(s.a, 1, s.n)

Sorted(a) == \A i, j \in DOMAIN a : i < j => a[i].end <= a[j].end

(* Mutation: the array stays in the order of the configuration. *)
SortingsNone(a) == {a}

(* What sort.Sort may leave: ranges with one end come in any order.        *)
Sortings(a) ==
  {s \in {[i \in DOMAIN a |-> a[p[i]]] : p \in Bijection(DOMAIN a, DOMAIN a)} :
     Sorted(s)}

(* NewIPCIDRPattern *)
Init ==
  /\ config \in Seqs!BoundedSeq(Ranges, MaxConfig)
  /\ vals \in Sortings(Seqs!FoldLeft(Add, <<>>, config))
  /\ edited = FALSE
-----------------------------------------------------------------------------
(* The requests of the API. *)
Edit(a) ==
  /\ vals' = a
  /\ edited' = TRUE /\ config' = <<>>

Put == /\ Len(vals) < MaxRanges
       /\ \E r \in Ranges : Edit(Add(vals, r))

Delete == \E r \in Ranges : Edit(Remove(vals, r))

Next == Put \/ Delete

Spec == Init /\ [][Next]_vars
-----------------------------------------------------------------------------
TypeOK ==
  /\ vals \in Seqs!BoundedSeq(Ranges, MaxRanges)
  /\ config \in Seqs!BoundedSeq(Ranges, MaxConfig)
  /\ edited \in BOOLEAN

In(ip, a) == \E i \in DOMAIN a : a[i].start <= ip /\ ip <= a[i].end

(* Whatever order the edits leave the ranges in, an address that matches   *)
(* is one of the pattern's: only the other direction can fail.             *)
NothingElseMatches == \A ip \in Addrs : Contains(vals, ip) => In(ip, vals)

(* A pattern as it is loaded matches addresses of its configuration only, *)
(* and all those of a value that overlaps no other value, whatever the     *)
(* others do to each other, although each value is tested against an array *)
(* that is not in order yet.  Of a single address there must be no         *)
(* neighbour in the configuration, or Add ignores it.                      *)
Apart(a, r) ==
  \A i \in DOMAIN a : a[i] = r \/ a[i].end < r.start \/ r.end < a[i].start

Alone(a, r) ==
  r.start = r.end => /\ ~ In((r.start + 1) % Space, a)
                     /\ ~ In((r.end - 1) % Space, a)

ConfiguredMatch ==
  ~ edited => \A ip \in Addrs :
    /\ Contains(vals, ip) => In(ip, config)
    /\ \A i \in DOMAIN config :
         LET r == config[i]
         IN  /\ Apart(config, r) /\ Alone(config, r)
             /\ r.start <= ip /\ ip <= r.end
             => Contains(vals, ip)

(* "Find out whether it exists already; a record must not be added twice"  *)
(* (pattern.go:413): a value matches all its addresses if no value before  *)
(* it overlaps it, because those that follow inside of it are there        *)
(* already and are not added.                                              *)
FirstListedMatches ==
  ~ edited => \A i \in DOMAIN config :
    LET r      == config[i]
        before == SubSeq(config, 1, i - 1)
    IN  Apart(before, r) /\ Alone(before, r) =>
          \A ip \in r.start .. r.end : Contains(vals, ip)

(* No more than one value goes at a time, and the order of the others      *)
(* stays, as long as no value is there twice (then the loop runs over what *)
(* it has moved, and may fail half-way).                                   *)
RemovesOne ==
  [][Len(vals') < Len(vals) /\ (\A i, j \in DOMAIN vals : vals[i] = vals[j] => i = j)
       => \E k \in DOMAIN vals : vals' = Seqs!RemoveAt(vals, k)]_vars
=============================================================================
