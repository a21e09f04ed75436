------------------------------ MODULE DnsTable ------------------------------
(***************************************************************************)
(* The table of hijacked domains (k1/dns_table.go): a record per domain    *)
(* that has been given a fake address, the reverse map from address to     *)
(* domain, the marks of domains that need no proxy, and the goroutine that *)
(* drops what has expired once a minute.  Each operation holds a lock from *)
(* its first line to its last, so it is one step; the DNS handlers and the *)
(* relays call the operations in any order.                                *)
(***************************************************************************)
EXTENDS DnsIPPool

CONSTANTS
  Proxies,       \* the names of the proxies
  NoDomain,      \* no entry in ip2Domain
  NoRecord,      \* the nil *DomainRecord
  Ttl,           \* dnsDefaultTtl, of a record and of a forged answer
  AnswerTtls,    \* the ttls of real answers
  TickPeriod,    \* Serve sweeps once per period (60 s)
  MinRecords,    \* a sweep needs more records than this (1000), or than a
                 \* tenth of the pool
  MaxTime        \* bound: the clock stops here

ASSUME TableAssumption ==
  /\ NoDomain \notin Domains
  /\ Ttl \in Nat /\ TickPeriod \in Nat \ {0} /\ MinRecords \in Nat
  /\ AnswerTtls \subseteq Nat /\ MaxTime \in Nat

Never == -1     \* no time: a domain without a mark, an empty channel

Record == [ip : Addrs, proxy : Proxies, expires : Nat]
ASSUME NoRecordAssumption == NoRecord \notin Record

VARIABLES
  now,        \* the clock, in seconds
  flags,      \* ipPool.flags
  records,    \* records: domain -> its record, or NoRecord
  ip2Domain,  \* ip2Domain: address of the pool -> its domain, or NoDomain
  nonProxy,   \* nonProxyDomains: domain -> when its mark expires, or Never
  ticks,      \* the channel of time.Tick: the tick not yet read, or Never
  cleaner     \* Serve: what it is about to sweep, and the tick it goes by

tableVars == <<flags, records, ip2Domain, nonProxy>>
clockVars == <<now, ticks, cleaner>>
vars      == <<tableVars, clockVars>>

PoolAddrs == {AddrOf(i) : i \in Indices}

Hijacked == {d \in Domains : records[d] # NoRecord}

InitTable ==
  /\ flags = NewFlags
  /\ records = [d \in Domains |-> NoRecord]
  /\ ip2Domain = [ip \in PoolAddrs |-> NoDomain]
  /\ nonProxy = [d \in Domains |-> Never]

InitClock ==
  /\ now = 0 /\ ticks = Never
  /\ cleaner = [pc |-> "wait", at |-> 0]

Init == InitTable /\ InitClock
-----------------------------------------------------------------------------
(* Mutation: a look-up ends the life of the record. *)
TouchedNow(d) ==
  IF d \in Hijacked THEN [records EXCEPT ![d].expires = now] ELSE records

(* get: a record that is looked up lives for another Ttl. *)
Touched(d) ==
  IF d \in Hijacked THEN [records EXCEPT ![d].expires = now + Ttl] ELSE records

Get(d) ==
  /\ records' = Touched(d)
  /\ UNCHANGED <<flags, ip2Domain, nonProxy>>

(* An address outside of the pool has no entry in ip2Domain. *)
GetByIP(ip) ==
  /\ records' = IF ip \in PoolAddrs /\ ip2Domain[ip] # NoDomain
                  THEN Touched(ip2Domain[ip]) ELSE records
  /\ UNCHANGED <<flags, ip2Domain, nonProxy>>

(* Set returns the record there is, without touching it; it makes one when *)
(* there is none and the pool has an address left.                         *)
SetKnown(d) ==
  /\ d \in Hijacked
  /\ UNCHANGED tableVars

SetNew(d, proxy) ==
  /\ d \notin Hijacked
  /\ FreeIndices(flags) # {}
  /\ LET i  == AllocIndex(flags, d)
         ip == AddrOf(i)
     IN  /\ flags' = [flags EXCEPT ![i] = TRUE]
         /\ records' = [records EXCEPT ![d] =
              [ip |-> ip, proxy |-> proxy, expires |-> now + Ttl]]
         /\ ip2Domain' = [ip2Domain EXCEPT ![ip] = d]
  /\ UNCHANGED nonProxy

SetFull(d) ==
  /\ d \notin Hijacked
  /\ FreeIndices(flags) = {}
  /\ UNCHANGED tableVars

SetNonProxyDomain(d, ttl) ==
  /\ nonProxy' = [nonProxy EXCEPT ![d] = now + ttl]
  /\ UNCHANGED <<flags, records, ip2Domain>>

IsNonProxyDomain(d) == nonProxy[d] # Never
-----------------------------------------------------------------------------
(* The clock.  A tick is lost while the one before it has not been read.   *)
Tick ==
  /\ now < MaxTime
  /\ now' = now + 1
  /\ ticks' = IF now' % TickPeriod = 0 /\ ticks = Never THEN now' ELSE ticks
  /\ UNCHANGED <<cleaner, tableVars>>

(* Serve reads a tick, then sweeps the records, then the marks, going by   *)
(* the time of the tick.                                                   *)
ReadTick ==
  /\ cleaner.pc = "wait"
  /\ ticks # Never
  /\ cleaner' = [pc |-> "domains", at |-> ticks]
  /\ ticks' = Never
  /\ UNCHANGED <<now, tableVars>>

threshold ==
  IF MinRecords > space \div 10 THEN space \div 10 ELSE MinRecords

(* Mutation: a record expires in the second up to which it lives. *)
ExpiredEarly ==
  IF Cardinality(Hijacked) <= threshold THEN {}
  ELSE {d \in Hijacked : records[d].expires <= cleaner.at}

Expired ==
  IF Cardinality(Hijacked) <= threshold THEN {}
  ELSE {d \in Hijacked : records[d].expires < cleaner.at}

(* Mutation: the reverse map keeps the domains that were dropped. *)
clearExpiredRecordsOnly ==
  /\ cleaner.pc = "domains"
  /\ cleaner' = [cleaner EXCEPT !.pc = "nonproxy"]
  /\ records' = [d \in Domains |->
       IF d \in Expired THEN NoRecord ELSE records[d]]
  /\ flags' = Released(flags, {records[d].ip : d \in Expired})
  /\ UNCHANGED <<now, ticks, ip2Domain, nonProxy>>

(* Mutation: the addresses are released, the records stay. *)
clearExpiredAddressesOnly ==
  /\ cleaner.pc = "domains"
  /\ cleaner' = [cleaner EXCEPT !.pc = "nonproxy"]
  /\ flags' = Released(flags, {records[d].ip : d \in Expired})
  /\ UNCHANGED <<now, ticks, records, ip2Domain, nonProxy>>

clearExpiredDomain ==
  /\ cleaner.pc = "domains"
  /\ cleaner' = [cleaner EXCEPT !.pc = "nonproxy"]
  /\ LET ips == {records[d].ip : d \in Expired}
     IN  /\ records' = [d \in Domains |->
              IF d \in Expired THEN NoRecord ELSE records[d]]
         /\ ip2Domain' = [ip \in PoolAddrs |->
              IF ip \in ips THEN NoDomain ELSE ip2Domain[ip]]
         /\ flags' = Released(flags, ips)
  /\ UNCHANGED <<now, ticks, nonProxy>>

clearExpiredNonProxyDomain ==
  /\ cleaner.pc = "nonproxy"
  /\ cleaner' = [cleaner EXCEPT !.pc = "wait"]
  /\ nonProxy' = [d \in Domains |->
       IF nonProxy[d] < cleaner.at THEN Never ELSE nonProxy[d]]
  /\ UNCHANGED <<now, ticks, flags, records, ip2Domain>>
-----------------------------------------------------------------------------
Next ==
  \/ \E d \in Domains : Get(d) /\ UNCHANGED clockVars
  \/ \E ip \in PoolAddrs : GetByIP(ip) /\ UNCHANGED clockVars
  \/ \E d \in Domains : SetKnown(d) /\ UNCHANGED clockVars
  \/ \E d \in Domains, proxy \in Proxies :
       SetNew(d, proxy) /\ UNCHANGED clockVars
  \/ \E d \in Domains : SetFull(d) /\ UNCHANGED clockVars
  \/ \E d \in Domains, ttl \in AnswerTtls :
       SetNonProxyDomain(d, ttl) /\ UNCHANGED clockVars
  \/ Tick
  \/ ReadTick
  \/ clearExpiredDomain
  \/ clearExpiredNonProxyDomain

Spec == Init /\ [][Next]_vars
-----------------------------------------------------------------------------
TypeOK ==
  /\ now \in Nat
  /\ flags \in [Indices -> BOOLEAN]
  /\ records \in [Domains -> Record \cup {NoRecord}]
  /\ ip2Domain \in [PoolAddrs -> Domains \cup {NoDomain}]
  /\ nonProxy \in [Domains -> Nat \cup {Never}]
  /\ ticks \in Nat \cup {Never}
  /\ cleaner \in [pc : {"wait", "domains", "nonproxy"}, at : Nat]

(* The two maps are inverse to each other after any run of look-ups, Sets  *)
(* and sweeps: an address that a client was given leads a relay to the     *)
(* domain the client asked for, and to no other.                           *)
MapsAgree ==
  /\ \A d \in Hijacked : /\ records[d].ip \in PoolAddrs
                         /\ ip2Domain[records[d].ip] = d
  /\ \A ip \in PoolAddrs :
       ip2Domain[ip] # NoDomain => /\ ip2Domain[ip] \in Hijacked
                                   /\ records[ip2Domain[ip]].ip = ip

(* An address is marked used exactly when a record or the tun device has   *)
(* it: Alloc and Release neither leak an address nor free one in use.      *)
FlagsExact ==
  \A i \in Indices :
    flags[i] <=> \/ AddrOf(i) = TunIP
                 \/ \E d \in Hijacked : records[d].ip = AddrOf(i)

(* A fake address is one of the subnet's hosts: not the network, not the   *)
(* broadcast and not the tun's own address.                                *)
FakeIPsAreHosts ==
  \A d \in Hijacked :
    /\ records[d].ip \in SubnetIP + 1 .. SubnetIP + HostMask - 1
    /\ records[d].ip # TunIP

(* A record goes only when nothing has looked it up for a whole Ttl, as    *)
(* long as the answers forged from it may be kept, and a mark only when it *)
(* has expired, although the sweep goes by the time of a tick that may be  *)
(* old when it is read.                                                    *)
NoEarlyRelease ==
  [][\A d \in Domains :
       /\ d \in Hijacked /\ records'[d] = NoRecord => records[d].expires < now
       /\ nonProxy[d] # Never /\ nonProxy'[d] = Never => nonProxy[d] < now]_vars

(* The address of a domain never changes while it has a record, nor does   *)
(* its proxy: a connection in the making cannot be sent elsewhere.         *)
RecordsKeepTheirPlace ==
  [][\A d \in Domains :
       d \in Hijacked /\ d \in Hijacked' =>
         /\ records'[d].ip = records[d].ip
         /\ records'[d].proxy = records[d].proxy
         /\ records'[d].expires >= records[d].expires]_vars

(* The fake addresses are leased: only an address that no domain has is    *)
(* given to one, and the domain keeps it until a sweep.                    *)
FakeIPLease ==
  INSTANCE Lease
    WITH Holders <- Domains, Items <- PoolAddrs, Nothing <- NoIP,
         lease <- [d \in Domains |->
                     IF d \in Hijacked THEN records[d].ip ELSE NoIP]
RefinesLease == FakeIPLease!Spec
=============================================================================
