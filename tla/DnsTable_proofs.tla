-------------------------- MODULE DnsTable_proofs --------------------------
(***************************************************************************)
(* Theorems about DnsTable for every subnet, tun address, set of domains   *)
(* and checksum function.                                                  *)
(***************************************************************************)
EXTENDS DnsTable, WellFoundedInduction, TLAPS

(* No record outlives the last look-up by more than Ttl, and the sweep     *)
(* goes by a time that has passed.                                         *)
TimesInOrder ==
  /\ ticks <= now /\ cleaner.at <= now
  /\ \A d \in Hijacked : records[d].expires <= now + Ttl

(* The inductive invariant.  MapsAgree needs FlagsExact: Alloc looks at    *)
(* the flags alone when it picks an address; FlagsExact needs              *)
(* FakeIPsAreHosts: a sweep clears the flags of the addresses it drops.    *)
IInv == TypeOK /\ MapsAgree /\ FlagsExact /\ FakeIPsAreHosts /\ TimesInOrder
-----------------------------------------------------------------------------
(* The geometry of the pool. *)
LEMMA PoolShape ==
  /\ base = SubnetIP + 1
  /\ space \in Nat /\ space >= 1 /\ space <= HostMask - 1
<1>1. base = SubnetIP + 1
  BY PoolAssumption DEF base
<1>2. max = SubnetIP + HostMask
  BY <1>1, PoolAssumption DEF max
<1>3. (max - base) % AddrSpace = HostMask - 1
  BY <1>1, <1>2, PoolAssumption
<1>. QED  BY <1>1, <1>3, PoolAssumption DEF space

(* Indices and addresses of the pool correspond one to one. *)
LEMMA AddrOfIndex ==
  ASSUME NEW i \in Indices
  PROVE  /\ AddrOf(i) = SubnetIP + 1 + i
         /\ AddrOf(i) \in SubnetIP + 1 .. SubnetIP + HostMask - 1
         /\ AddrOf(i) \in Addrs /\ AddrOf(i) \in PoolAddrs
         /\ AddrOf(i) # NoIP
         /\ Index(AddrOf(i)) = i
<1>1. i \in Nat /\ i < space
  BY PoolShape DEF Indices
<1>2. AddrOf(i) = SubnetIP + 1 + i
  BY <1>1, PoolShape, PoolAssumption DEF AddrOf
<1>3. Index(AddrOf(i)) = i
  BY <1>1, <1>2, PoolShape, PoolAssumption DEF Index
<1>. QED
  BY <1>1, <1>2, <1>3, PoolShape, PoolAssumption DEF Addrs, PoolAddrs, NoIP

LEMMA AddrOfInjective ==
  ASSUME NEW i \in Indices, NEW j \in Indices, AddrOf(i) = AddrOf(j)
  PROVE  i = j
BY AddrOfIndex

(* The index of an address marks it and no other address of the pool. *)
LEMMA IndexOfAddr ==
  ASSUME NEW ip \in Addrs, NEW i \in Indices
  PROVE  Index(ip) = i <=> AddrOf(i) = ip
<1>1. i \in Nat /\ i < space /\ AddrOf(i) = SubnetIP + 1 + i
  BY PoolShape, AddrOfIndex DEF Indices
<1>2. CASE ip >= base
  <2>1. Index(ip) = ip - base
    BY <1>2, PoolShape, PoolAssumption DEF Index, Addrs
  <2>. QED  BY <1>1, <2>1, PoolShape, PoolAssumption DEF Addrs
<1>3. CASE ip < base
  <2>1. Index(ip) = ip - base + AddrSpace
    BY <1>3, PoolShape, PoolAssumption DEF Index, Addrs
  <2>. QED  BY <1>1, <1>3, <2>1, PoolShape, PoolAssumption DEF Addrs
<1>. QED  BY <1>2, <1>3, PoolShape, PoolAssumption DEF Addrs

(* A set of indices that is not empty has a least one. *)
LEMMA LeastNumber ==
  ASSUME NEW S, S \subseteq Nat, S # {}
  PROVE  \E x \in S : \A y \in S : x <= y
<1>1. PICK x \in S : \A y \in S : <<y, x>> \notin OpToRel(<, Nat)
  BY NatLessThanWellFounded, WFMin
<1>2. \A y \in S : ~ (y < x)
  BY <1>1 DEF OpToRel
<1>. QED  BY <1>2

LEMMA LeastIndex ==
  ASSUME NEW S \in SUBSET Indices, S # {}
  PROVE  Min(S) \in S
<1>1. S \subseteq Nat
  BY PoolShape DEF Indices
<1>. QED  BY <1>1, LeastNumber DEF Min

(* Alloc gives an index that is free, if there is one. *)
LEMMA AllocIsFree ==
  ASSUME flags \in [Indices -> BOOLEAN], NEW d \in Domains,
         FreeIndices(flags) # {}
  PROVE  AllocIndex(flags, d) \in Indices /\ ~ flags[AllocIndex(flags, d)]
<1>1. HintIndex(d) \in Indices
  <2>1. Checksum[d] \in Nat
    BY PoolAssumption
  <2>. QED  BY <2>1, PoolShape DEF HintIndex, Indices
<1>2. Min(FreeIndices(flags)) \in FreeIndices(flags)
  BY LeastIndex DEF FreeIndices
<1>. QED  BY <1>1, <1>2 DEF AllocIndex, FreeIndices
-----------------------------------------------------------------------------
(* Each operation of the table keeps the invariant. *)
LEMMA InitEstablishes == Init => IInv
<1> SUFFICES ASSUME Init PROVE IInv
  OBVIOUS
<1> USE DEF Init, InitTable, InitClock
<1>1. TypeOK
  BY DEF TypeOK, NewFlags
<1>2. MapsAgree
  BY DEF MapsAgree, Hijacked
<1>3. FlagsExact
  BY IndexOfAddr, PoolAssumption DEF FlagsExact, Hijacked, NewFlags, Addrs
<1>4. TimesInOrder
  BY DEF TimesInOrder, Hijacked, Never
<1>5. FakeIPsAreHosts
  BY DEF FakeIPsAreHosts, Hijacked
<1>. QED  BY <1>1, <1>2, <1>3, <1>4, <1>5 DEF IInv

(* A look-up changes nothing but the time at which a record expires. *)
SamePlaces ==
  /\ records' \in [Domains -> Record \cup {NoRecord}]
  /\ \A d \in Hijacked' : records'[d].expires <= now + Ttl
  /\ \A d \in Domains :
       /\ records'[d] = NoRecord <=> records[d] = NoRecord
       /\ records'[d].ip = records[d].ip
       /\ records'[d].proxy = records[d].proxy
  /\ \A d \in Hijacked : records'[d].expires >= records[d].expires

LEMMA TouchKeepsPlaces ==
  ASSUME IInv, NEW d \in Domains, records' = Touched(d) \/ records' = records
  PROVE  SamePlaces
<1> USE DEF IInv, TimesInOrder
<1>1. CASE records' = records
  BY <1>1 DEF SamePlaces, TypeOK, Hijacked, Record
<1>2. CASE d \in Hijacked /\ records' = [records EXCEPT ![d].expires = now + Ttl]
  <2> DEFINE new == [records[d] EXCEPT !.expires = now + Ttl]
  <2>1. records[d] \in Record /\ now + Ttl \in Nat
    BY <1>2, TableAssumption DEF TypeOK, Hijacked
  <2>2. new \in Record /\ new # NoRecord /\ new.ip = records[d].ip
        /\ new.proxy = records[d].proxy /\ new.expires = now + Ttl
    BY <2>1, NoRecordAssumption DEF Record
  <2>3. records' = [records EXCEPT ![d] = new]
    BY <1>2
  <2> HIDE DEF new
  <2>4. \A e \in Hijacked : records[e].expires \in Nat
    BY DEF TypeOK, Hijacked, Record
  <2>. QED  BY <1>2, <2>1, <2>2, <2>3, <2>4 DEF SamePlaces, TypeOK, Hijacked
<1>. QED  BY <1>1, <1>2 DEF Touched

LEMMA PlacesKept ==
  ASSUME IInv, SamePlaces, UNCHANGED <<flags, ip2Domain>>, TypeOK',
         UNCHANGED clockVars
  PROVE  IInv'
<1>1. Hijacked' = Hijacked
  BY DEF SamePlaces, Hijacked
<1>2. \A d \in Hijacked : records'[d].ip = records[d].ip
  BY DEF SamePlaces, Hijacked
<1>3. TimesInOrder'
  BY DEF IInv, TimesInOrder, SamePlaces, clockVars
<1>. QED
  BY <1>1, <1>2, <1>3 DEF IInv, MapsAgree, FlagsExact, FakeIPsAreHosts, Hijacked

LEMMA LookUpKeeps ==
  ASSUME IInv, NEW d \in Domains, Get(d), UNCHANGED clockVars
  PROVE  IInv' /\ SamePlaces
<1>1. SamePlaces
  BY TouchKeepsPlaces DEF Get
<1>2. TypeOK'
  BY <1>1 DEF IInv, TypeOK, SamePlaces, Get, clockVars
<1>. QED  BY <1>1, <1>2, PlacesKept DEF Get

LEMMA LookUpByIPKeeps ==
  ASSUME IInv, NEW ip \in PoolAddrs, GetByIP(ip), UNCHANGED clockVars
  PROVE  IInv' /\ SamePlaces
<1>1. SamePlaces
  <2>1. CASE ip2Domain[ip] # NoDomain
    <3>1. ip2Domain[ip] \in Domains /\ records' = Touched(ip2Domain[ip])
      BY <2>1 DEF GetByIP, IInv, TypeOK
    <3>. QED  BY <3>1, TouchKeepsPlaces
  <2>2. CASE ip2Domain[ip] = NoDomain
    <3>1. records' = records
      BY <2>2 DEF GetByIP
    <3>. QED  BY <3>1 DEF SamePlaces, IInv, TypeOK, TimesInOrder, Hijacked, Record
  <2>. QED  BY <2>1, <2>2
<1>2. TypeOK'
  BY <1>1 DEF IInv, TypeOK, SamePlaces, GetByIP, clockVars
<1>. QED  BY <1>1, <1>2, PlacesKept DEF GetByIP

(* A new record takes an address that no record and not the tun has. *)
LEMMA SetNewKeeps ==
  ASSUME IInv, NEW d \in Domains, NEW proxy \in Proxies,
         SetNew(d, proxy), UNCHANGED clockVars
  PROVE  /\ IInv'
         /\ \A e \in Hijacked : records[e].ip # AddrOf(AllocIndex(flags, d))
<1> USE DEF IInv
<1> DEFINE i   == AllocIndex(flags, d)
           ip  == AddrOf(i)
           new == [ip |-> ip, proxy |-> proxy, expires |-> now + Ttl]
<1>1. i \in Indices /\ ~ flags[i]
  BY AllocIsFree DEF SetNew, TypeOK
<1>2. ip \in Addrs /\ ip \in PoolAddrs /\ ip # TunIP
  BY <1>1, AddrOfIndex DEF FlagsExact
<1>3. new \in Record /\ new # NoRecord /\ new.ip = ip /\ new.expires = now + Ttl
  BY <1>2, NoRecordAssumption, TableAssumption DEF Record, TypeOK
<1>4. \A e \in Hijacked : records[e].ip # ip
  BY <1>1 DEF FlagsExact
<1>5. /\ d \notin Hijacked /\ records[d] = NoRecord
      /\ flags' = [flags EXCEPT ![i] = TRUE]
      /\ records' = [records EXCEPT ![d] = new]
      /\ ip2Domain' = [ip2Domain EXCEPT ![ip] = d]
      /\ nonProxy' = nonProxy
  BY DEF SetNew, Hijacked
<1>6. \A j \in Indices : AddrOf(j) = ip <=> j = i
  BY <1>1, AddrOfInjective
<1> HIDE DEF i, ip, new
<1>7. TypeOK'
  BY <1>1, <1>2, <1>3, <1>5 DEF TypeOK, clockVars
<1>8. /\ Hijacked' = Hijacked \cup {d}
      /\ \A e \in Hijacked : records'[e] = records[e]
      /\ records'[d] = new
  BY <1>3, <1>5 DEF Hijacked, TypeOK
<1>9. MapsAgree'
  <2>1. \A e \in Hijacked : /\ records[e].ip \in PoolAddrs
                            /\ ip2Domain'[records[e].ip] = e
    BY <1>4, <1>5 DEF MapsAgree, TypeOK
  <2>2. ip2Domain'[ip] = d
    BY <1>2, <1>5 DEF TypeOK
  <2>3. ASSUME NEW a \in PoolAddrs, a # ip, ip2Domain'[a] # NoDomain
        PROVE  /\ ip2Domain'[a] \in Hijacked
               /\ records[ip2Domain'[a]].ip = a
    BY <1>5, <2>3 DEF MapsAgree, TypeOK
  <2>. QED  BY <1>2, <1>3, <1>8, <2>1, <2>2, <2>3 DEF MapsAgree
<1>10. FlagsExact'
  <2> SUFFICES ASSUME NEW j \in Indices
               PROVE  flags'[j] <=> \/ AddrOf(j) = TunIP
                                    \/ \E e \in Hijacked' : records'[e].ip = AddrOf(j)
    BY DEF FlagsExact
  <2>1. CASE j = i
    <3>1. flags'[j] /\ AddrOf(j) = ip
      BY <1>1, <1>5, <1>6, <2>1 DEF TypeOK
    <3>. QED  BY <1>3, <1>8, <3>1
  <2>2. CASE j # i
    <3>1. flags'[j] = flags[j] /\ AddrOf(j) # ip
      BY <1>5, <1>6, <2>2 DEF TypeOK
    <3>. QED  BY <1>3, <1>8, <3>1 DEF FlagsExact
  <2>. QED  BY <2>1, <2>2
<1>11. TimesInOrder'
  <2>1. now' = now /\ ticks' = ticks /\ cleaner' = cleaner
    BY DEF clockVars
  <2>2. \A e \in Hijacked' : records'[e].expires <= now + Ttl
    <3>1. now + Ttl \in Nat
      BY TableAssumption DEF TypeOK
    <3>. QED  BY <1>3, <1>8, <3>1 DEF TimesInOrder
  <2>. QED  BY <2>1, <2>2 DEF TimesInOrder
<1>12. FakeIPsAreHosts'
  <2>1. ip \in SubnetIP + 1 .. SubnetIP + HostMask - 1
    BY <1>1, AddrOfIndex DEF ip
  <2>. QED  BY <1>2, <1>3, <1>8, <2>1 DEF FakeIPsAreHosts
<1>. QED  BY <1>4, <1>7, <1>9, <1>10, <1>11, <1>12 DEF ip, i

LEMMA ClearKeeps ==
  ASSUME IInv, clearExpiredDomain
  PROVE  IInv'
<1> USE DEF IInv
<1> DEFINE ips == {records[d].ip : d \in Expired}
<1>1. /\ records' = [d \in Domains |->
            IF d \in Expired THEN NoRecord ELSE records[d]]
      /\ ip2Domain' = [ip \in PoolAddrs |->
            IF ip \in ips THEN NoDomain ELSE ip2Domain[ip]]
      /\ flags' = Released(flags, ips)
      /\ cleaner' = [cleaner EXCEPT !.pc = "nonproxy"]
      /\ UNCHANGED <<now, ticks, nonProxy>>
  BY DEF clearExpiredDomain
<1>2. Expired \subseteq Hijacked /\ Hijacked \subseteq Domains
  BY DEF Expired, Hijacked
<1>3. /\ Hijacked' = Hijacked \ Expired
      /\ \A d \in Hijacked' : records'[d] = records[d]
  BY <1>1, <1>2 DEF Hijacked
<1>4. \A d \in Hijacked : records[d].ip \in ips <=> d \in Expired
  BY <1>2 DEF MapsAgree
<1>5. cleaner'.at = cleaner.at /\ cleaner' \in [pc : {"wait", "domains", "nonproxy"}, at : Nat]
  BY <1>1 DEF TypeOK
<1> HIDE DEF ips
<1>6. flags' \in [Indices -> BOOLEAN]
  BY <1>1 DEF TypeOK, Released
<1>7. TypeOK'
  BY <1>1, <1>5, <1>6 DEF TypeOK
<1>8. MapsAgree'
  BY <1>1, <1>3, <1>4 DEF MapsAgree
<1>9. FlagsExact'
  <2> SUFFICES ASSUME NEW j \in Indices
               PROVE  flags'[j] <=> \/ AddrOf(j) = TunIP
                                    \/ \E e \in Hijacked' : records'[e].ip = AddrOf(j)
    BY DEF FlagsExact
  <2>1. \A d \in Hijacked : Index(records[d].ip) = j <=> AddrOf(j) = records[d].ip
    BY IndexOfAddr DEF TypeOK, Hijacked, Record
  <2>2. flags'[j] <=> flags[j] /\ \A d \in Expired : records[d].ip # AddrOf(j)
    BY <1>1, <1>2, <2>1 DEF Released, ips
  <2>3. \A d \in Expired : records[d].ip # TunIP
    BY <1>2 DEF FakeIPsAreHosts
  <2>. QED  BY <1>2, <1>3, <1>4, <2>2, <2>3 DEF FlagsExact, MapsAgree
<1>10. TimesInOrder'
  BY <1>1, <1>3, <1>5 DEF TimesInOrder
<1>11. FakeIPsAreHosts'
  BY <1>3 DEF FakeIPsAreHosts
<1>. QED  BY <1>7, <1>8, <1>9, <1>10, <1>11
-----------------------------------------------------------------------------
LEMMA StepKeeps == IInv /\ [Next]_vars => IInv'
<1> SUFFICES ASSUME IInv, [Next]_vars PROVE IInv'
  OBVIOUS
<1>1. ASSUME NEW d \in Domains, Get(d), UNCHANGED clockVars
      PROVE  IInv'
  BY <1>1, LookUpKeeps
<1>2. ASSUME NEW ip \in PoolAddrs, GetByIP(ip), UNCHANGED clockVars
      PROVE  IInv'
  BY <1>2, LookUpByIPKeeps
<1>3. ASSUME NEW d \in Domains, NEW proxy \in Proxies, SetNew(d, proxy),
             UNCHANGED clockVars
      PROVE  IInv'
  BY <1>3, SetNewKeeps
<1>4. ASSUME UNCHANGED tableVars, UNCHANGED clockVars
      PROVE  IInv'
  BY <1>4 DEF tableVars, clockVars, IInv, TypeOK, MapsAgree, FlagsExact,
              FakeIPsAreHosts, TimesInOrder, Hijacked
<1>5. ASSUME NEW d \in Domains, NEW ttl \in AnswerTtls,
             SetNonProxyDomain(d, ttl), UNCHANGED clockVars
      PROVE  IInv'
  <2>1. now + ttl \in Nat
    BY TableAssumption DEF IInv, TypeOK
  <2>2. nonProxy' \in [Domains -> Nat \cup {Never}]
    BY <1>5, <2>1 DEF SetNonProxyDomain, IInv, TypeOK
  <2>. QED  BY <1>5, <2>2
            DEF SetNonProxyDomain, clockVars, IInv, TypeOK, MapsAgree,
                FlagsExact, FakeIPsAreHosts, TimesInOrder, Hijacked
<1>6. ASSUME UNCHANGED tableVars, TypeOK', now <= now',
             ticks' <= now', cleaner'.at <= now'
      PROVE  IInv'
  <2>1. \A d \in Hijacked : records[d].expires \in Nat
    BY DEF IInv, TypeOK, Hijacked, Record
  <2>2. TimesInOrder'
    BY <1>6, <2>1, TableAssumption
       DEF tableVars, IInv, TimesInOrder, Hijacked, TypeOK
  <2>. QED  BY <1>6, <2>2 DEF tableVars, IInv, MapsAgree, FlagsExact,
                              FakeIPsAreHosts, Hijacked
<1>7. CASE Tick
  <2>1. now' \in Nat /\ now <= now' /\ (ticks' = now' \/ ticks' = ticks)
    BY <1>7 DEF Tick, IInv, TypeOK
  <2>2. ticks' <= now' /\ cleaner'.at <= now' /\ TypeOK'
    BY <1>7, <2>1 DEF Tick, IInv, TypeOK, TimesInOrder, tableVars, Never
  <2>. QED  BY <1>6, <1>7, <2>1, <2>2 DEF Tick
<1>8. CASE ReadTick
  <2>1. cleaner' = [pc |-> "domains", at |-> ticks] /\ ticks' = Never
        /\ now' = now /\ UNCHANGED tableVars /\ ticks \in Nat /\ now \in Nat
    BY <1>8 DEF ReadTick, IInv, TypeOK
  <2>2. TypeOK' /\ cleaner'.at = ticks
    BY <2>1 DEF IInv, TypeOK, tableVars, Never
  <2>. QED  BY <1>6, <2>1, <2>2 DEF IInv, TimesInOrder, Never
<1>9. CASE clearExpiredDomain
  BY <1>9, ClearKeeps
<1>10. CASE clearExpiredNonProxyDomain
  <2>1. cleaner' = [cleaner EXCEPT !.pc = "wait"]
        /\ UNCHANGED <<now, ticks, flags, records, ip2Domain>>
    BY <1>10 DEF clearExpiredNonProxyDomain
  <2>2. cleaner'.at = cleaner.at /\ TypeOK'
    BY <1>10, <2>1 DEF clearExpiredNonProxyDomain, IInv, TypeOK
  <2>. QED  BY <2>1, <2>2 DEF IInv, MapsAgree, FlagsExact, FakeIPsAreHosts,
                              TimesInOrder, Hijacked
<1>11. CASE UNCHANGED vars
  BY <1>4, <1>11 DEF vars
<1>. QED
  BY <1>1, <1>2, <1>3, <1>4, <1>5, <1>7, <1>8, <1>9, <1>10, <1>11
     DEF Next, SetKnown, SetFull

(* The maps, the flags and the times agree in every reachable state. *)
THEOREM Invariance == Spec => []IInv
BY InitEstablishes, StepKeeps, PTL DEF Spec

(* Every variable of the table keeps its type. *)
THEOREM TypeCorrect == Spec => []TypeOK
BY Invariance, PTL DEF IInv

(* records and ip2Domain are inverse to each other: a fake address leads   *)
(* back to the domain it was forged for.                                   *)
THEOREM FakeIPsResolve == Spec => []MapsAgree
BY Invariance, PTL DEF IInv

(* No address leaks from the pool and none is leased out twice.             *)
THEOREM PoolExact == Spec => []FlagsExact
BY Invariance, PTL DEF IInv

(* Only hosts of the tun's subnet, and never the tun itself, are forged.   *)
THEOREM OnlyHosts == Spec => []FakeIPsAreHosts
BY Invariance, PTL DEF IInv
-----------------------------------------------------------------------------
(* What a step may do to the records: one lemma for the action properties  *)
(* and the refinement.                                                     *)
LEMMA RecordSteps ==
  ASSUME IInv, [Next]_vars
  PROVE  \/ SamePlaces
         \/ \E d \in Domains, proxy \in Proxies :
              SetNew(d, proxy) /\ UNCHANGED clockVars
         \/ clearExpiredDomain
<1>1. ASSUME UNCHANGED records, UNCHANGED now  PROVE SamePlaces
  BY <1>1 DEF SamePlaces, IInv, TypeOK, TimesInOrder, Hijacked, Record
<1>2. ASSUME Tick  PROVE SamePlaces
  BY <1>2 DEF Tick, tableVars, SamePlaces, IInv, TypeOK, TimesInOrder,
              Hijacked, Record
<1>3. ASSUME NEW d \in Domains, Get(d), UNCHANGED clockVars
      PROVE  SamePlaces
  BY <1>3, LookUpKeeps
<1>4. ASSUME NEW ip \in PoolAddrs, GetByIP(ip), UNCHANGED clockVars
      PROVE  SamePlaces
  BY <1>4, LookUpByIPKeeps
<1>5. ReadTick \/ clearExpiredNonProxyDomain \/ UNCHANGED vars
        => UNCHANGED records /\ UNCHANGED now
  BY DEF ReadTick, clearExpiredNonProxyDomain, vars, tableVars, clockVars
<1>6. \A d \in Domains : SetKnown(d) \/ SetFull(d) => UNCHANGED records
  BY DEF SetKnown, SetFull, tableVars
<1>7. \A d \in Domains, ttl \in AnswerTtls :
        SetNonProxyDomain(d, ttl) => UNCHANGED records
  BY DEF SetNonProxyDomain
<1>8. UNCHANGED clockVars => UNCHANGED now
  BY DEF clockVars
<1>. QED
  BY <1>1, <1>2, <1>3, <1>4, <1>5, <1>6, <1>7, <1>8 DEF Next

LEMMA SetNewRecords ==
  ASSUME IInv, NEW d \in Domains, NEW proxy \in Proxies, SetNew(d, proxy)
  PROVE  /\ d \notin Hijacked
         /\ Hijacked' = Hijacked \cup {d}
         /\ \A e \in Hijacked : records'[e] = records[e]
         /\ records'[d].ip = AddrOf(AllocIndex(flags, d))
         /\ AddrOf(AllocIndex(flags, d)) \in PoolAddrs
<1> DEFINE i   == AllocIndex(flags, d)
           new == [ip |-> AddrOf(i), proxy |-> proxy, expires |-> now + Ttl]
<1>1. i \in Indices
  BY AllocIsFree DEF SetNew, IInv, TypeOK
<1>2. new \in Record /\ new # NoRecord /\ new.ip = AddrOf(i)
  BY <1>1, AddrOfIndex, NoRecordAssumption, TableAssumption DEF Record, IInv, TypeOK
<1>3. d \notin Hijacked /\ records' = [records EXCEPT ![d] = new]
  BY DEF SetNew
<1>4. AddrOf(i) \in PoolAddrs
  BY <1>1, AddrOfIndex
<1> HIDE DEF new
<1>. QED  BY <1>2, <1>3, <1>4 DEF Hijacked, IInv, TypeOK

LEMMA ClearRecords ==
  ASSUME IInv, clearExpiredDomain
  PROVE  /\ Hijacked' = Hijacked \ Expired
         /\ \A d \in Hijacked' : records'[d] = records[d]
         /\ \A d \in Expired : records[d].expires < now
<1>1. \A d \in Expired : d \in Hijacked /\ records[d].expires < cleaner.at
                         /\ records[d].expires \in Nat
  BY DEF Expired, Hijacked, IInv, TypeOK, Record
<1>2. cleaner.at <= now /\ cleaner.at \in Nat /\ now \in Nat
  BY DEF IInv, TimesInOrder, TypeOK
<1>3. records' = [d \in Domains |-> IF d \in Expired THEN NoRecord ELSE records[d]]
  BY DEF clearExpiredDomain
<1>. QED  BY <1>1, <1>2, <1>3 DEF Hijacked

LEMMA RecordStays ==
  ASSUME IInv, [Next]_vars, NEW d \in Domains, d \in Hijacked, d \in Hijacked'
  PROVE  /\ records'[d].ip = records[d].ip
         /\ records'[d].proxy = records[d].proxy
         /\ records'[d].expires >= records[d].expires
<1>1. CASE SamePlaces
  BY <1>1 DEF SamePlaces
<1>2. CASE records'[d] = records[d]
  BY <1>2 DEF IInv, TypeOK, Hijacked, Record
<1>. QED  BY <1>1, <1>2, RecordSteps, SetNewRecords, ClearRecords

LEMMA RecordEnds ==
  ASSUME IInv, [Next]_vars, NEW d \in Domains, d \in Hijacked, d \notin Hijacked'
  PROVE  records[d].expires < now
<1>1. ~ SamePlaces
  BY DEF SamePlaces, Hijacked
<1>. QED  BY <1>1, RecordSteps, SetNewRecords, ClearRecords

LEMMA RecordBegins ==
  ASSUME IInv, [Next]_vars, NEW d \in Domains, d \notin Hijacked, d \in Hijacked'
  PROVE  /\ UNCHANGED clockVars
         /\ \E proxy \in Proxies : SetNew(d, proxy)
<1>1. ~ SamePlaces
  BY DEF SamePlaces, Hijacked
<1>. QED  BY <1>1, RecordSteps, SetNewRecords, ClearRecords

(* A record keeps its address and its proxy for as long as it exists, and  *)
(* its life is only ever prolonged.                                        *)
THEOREM RecordsStay == Spec => RecordsKeepTheirPlace
<1>1. IInv /\ [Next]_vars =>
        [\A d \in Domains :
           d \in Hijacked /\ d \in Hijacked' =>
             /\ records'[d].ip = records[d].ip
             /\ records'[d].proxy = records[d].proxy
             /\ records'[d].expires >= records[d].expires]_vars
  BY RecordStays
<1>. QED  BY <1>1, Invariance, PTL DEF Spec, RecordsKeepTheirPlace

(* Nothing is dropped before its time: a record only once nothing has      *)
(* looked it up for a Ttl, a mark only once it has expired.                *)
THEOREM ReleasedInTime == Spec => NoEarlyRelease
<1>1. ASSUME IInv, [Next]_vars, NEW d \in Domains, d \in Hijacked,
             records'[d] = NoRecord
      PROVE  records[d].expires < now
  <2>1. d \notin Hijacked' /\ d \in Domains
    BY <1>1 DEF Hijacked
  <2>. QED  BY <1>1, <2>1, RecordEnds
<1>2. ASSUME IInv, [Next]_vars, NEW d \in Domains, nonProxy[d] # Never,
             nonProxy'[d] = Never
      PROVE  nonProxy[d] < now
  <2>1. nonProxy[d] \in Nat /\ now \in Nat /\ cleaner.at \in Nat
    BY <1>2 DEF IInv, TypeOK
  <2>2. CASE clearExpiredNonProxyDomain
    BY <1>2, <2>1, <2>2 DEF clearExpiredNonProxyDomain, IInv, TimesInOrder
  <2>3. ASSUME NEW e \in Domains, NEW ttl \in AnswerTtls,
               SetNonProxyDomain(e, ttl)
        PROVE  nonProxy'[d] # Never
    BY <1>2, <2>1, <2>3, TableAssumption
       DEF SetNonProxyDomain, IInv, TypeOK, Never
  <2>4. ~ UNCHANGED nonProxy
    BY <1>2
  <2>. QED
    BY <1>2, <2>2, <2>3, <2>4
       DEF Next, Get, GetByIP, SetKnown, SetNew, SetFull, Tick, ReadTick,
           clearExpiredDomain, vars, tableVars
<1>3. IInv /\ [Next]_vars =>
        [\A d \in Domains :
           /\ d \in Hijacked /\ records'[d] = NoRecord => records[d].expires < now
           /\ nonProxy[d] # Never /\ nonProxy'[d] = Never => nonProxy[d] < now]_vars
  BY <1>1, <1>2
<1>. QED  BY <1>3, Invariance, PTL DEF Spec, NoEarlyRelease
-----------------------------------------------------------------------------
(* The addresses of the domains, as Lease sees them.                       *)
leased == [d \in Domains |-> IF d \in Hijacked THEN records[d].ip ELSE NoIP]

LEMMA StepIsLease ==
  ASSUME IInv, [Next]_vars
  PROVE  FakeIPLease!Next \/ UNCHANGED leased
<1>0. NoIP \notin PoolAddrs
  BY AddrOfIndex DEF PoolAddrs
<1>1. CASE SamePlaces
  BY <1>1 DEF SamePlaces, leased, Hijacked
<1>2. ASSUME NEW d \in Domains, NEW proxy \in Proxies, SetNew(d, proxy),
             UNCHANGED clockVars
      PROVE  FakeIPLease!Next
  <2> DEFINE ip == AddrOf(AllocIndex(flags, d))
  <2>1. ip \in PoolAddrs /\ d \notin Hijacked
    BY <1>2, SetNewRecords
  <2>2. \A e \in Domains : leased[e] # ip
    BY <1>0, <1>2, <2>1, SetNewKeeps DEF leased
  <2>3. leased' = [leased EXCEPT ![d] = ip]
    BY <1>2, SetNewRecords DEF leased, Hijacked
  <2>4. leased[d] = NoIP /\ \A e \in Domains : leased[e] # ip
    BY <2>1, <2>2 DEF leased
  <2> HIDE DEF ip
  <2>5. \E h \in Domains, i \in PoolAddrs :
          /\ leased[h] = NoIP
          /\ \A g \in Domains : leased[g] # i
          /\ leased' = [leased EXCEPT ![h] = i]
    BY <2>1, <2>3, <2>4
  <2>. QED  BY <2>5 DEF FakeIPLease!Next, FakeIPLease!Grant, leased
<1>3. CASE clearExpiredDomain
  <2>1. Expired \subseteq Hijacked /\ Hijacked \subseteq Domains
    BY DEF Expired, Hijacked
  <2>2. leased' = [d \in Domains |-> IF d \in Expired THEN NoIP ELSE leased[d]]
    BY <1>3, <2>1, ClearRecords DEF leased
  <2>3. \A d \in Expired : leased[d] # NoIP
    BY <1>0, <2>1 DEF leased, IInv, MapsAgree
  <2>4. \E S \in SUBSET Domains :
          /\ \A h \in S : leased[h] # NoIP
          /\ leased' = [h \in Domains |-> IF h \in S THEN NoIP ELSE leased[h]]
    BY <2>1, <2>2, <2>3
  <2>. QED  BY <2>4 DEF FakeIPLease!Next, FakeIPLease!Release, leased
<1>. QED  BY <1>1, <1>2, <1>3, RecordSteps

(* The table implements Lease: an address no other domain has, for a       *)
(* domain that has none, until a sweep takes it back.                      *)
THEOREM ImplementsLease == Spec => RefinesLease
<1>1. Init => FakeIPLease!Init
  BY DEF Init, InitTable, FakeIPLease!Init, Hijacked
<1>2. IInv /\ [Next]_vars => [FakeIPLease!Next]_leased
  BY StepIsLease
<1>. QED
  BY <1>1, <1>2, Invariance, PTL DEF Spec, RefinesLease, FakeIPLease!Spec, leased
=============================================================================
