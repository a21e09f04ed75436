----------------------------- MODULE Dns_proofs -----------------------------
(***************************************************************************)
(* Theorems about Dns for any number of handlers, every rule and whatever  *)
(* the name servers answer.                                                *)
(***************************************************************************)
EXTENDS Dns, DnsTable_proofs, FiniteSetTheorems

(* The record of d, if d has one, lives until a Ttl after it was asked.    *)
Lasts(d, asked) == d \in Hijacked => records[d].expires >= asked + Ttl

(* As long as the answer may be used, d has the record it was made from.   *)
Holds(d, ip, asked) ==
  now <= asked + Ttl =>
    d \in Hijacked /\ records[d].ip = ip /\ records[d].expires >= asked + Ttl

(* What a handler knows at each place of doIPv4Query.  One that found no   *)
(* record can only be told of one made since, by Lasts: so Set need not    *)
(* touch the record it returns.                                            *)
HandlerInv(q) ==
  /\ q.asked <= now
  /\ q.pc # "reply" => ~ Reject(q.domain) /\ q.ip = NoIP
  /\ q.pc \in {"set", "setip"} => q.proxy \in Proxies
  /\ q.pc = "set" => Proxy(q.domain) = [matched |-> TRUE, proxy |-> q.proxy]
  /\ q.pc = "setip" => ~ Proxy(q.domain).matched
  /\ q.pc \in {"setip", "mark"} => q.msg \in Answers /\ q.msg # <<>>
  /\ q.pc \in {"set", "resolve", "setip", "mark"} => Lasts(q.domain, q.asked)
  /\ q.pc = "reply" /\ q.ip # NoIP => Holds(q.domain, q.ip, q.asked)

HandlersInv == \A h \in Handlers : queries[h] # NoQuery => HandlerInv(queries[h])

GivenHold == \A a \in given : Holds(a.domain, a.ip, a.asked)

DnsInv == IInv /\ DnsTypeOK /\ HandlersInv /\ GivenHold /\ HijackedByRule
-----------------------------------------------------------------------------
(* Lemmas about the rule. *)
LEMMA PatternShape ==
  ASSUME NEW i \in DOMAIN patterns
  PROVE  /\ i \in Nat /\ i >= 1
         /\ i = 1 => patterns[i] = DirectDomain
         /\ patterns[i].proxy \in Proxies \cup {NoProxy}
<1>1. /\ RuleConfig \in Seq(DOMAIN PatternConfigs)
      /\ \A n \in DOMAIN PatternConfigs :
           PatternConfigs[n].proxy \in Proxies \cup {NoProxy}
  BY DnsAssumption DEF checkRule
<1>2. /\ i \in 1 .. Len(RuleConfig) + 1
      /\ patterns[i] =
           IF i = 1 THEN DirectDomain ELSE PatternConfigs[RuleConfig[i - 1]]
  BY DEF patterns
<1>3. i # 1 => RuleConfig[i - 1] \in DOMAIN PatternConfigs
  BY <1>1, <1>2
<1>4. DirectDomain.proxy = NoProxy
  BY DEF DirectDomain
<1>. QED  BY <1>1, <1>2, <1>3, <1>4

LEMMA FirstMatch ==
  ASSUME NEW val \in Values, matching[val] # {}
  PROVE  /\ Min(matching[val]) \in matching[val]
         /\ \A i \in matching[val] : Min(matching[val]) <= i
<1>1. matching[val] \subseteq Nat
  BY PatternShape DEF matching
<1>. QED  BY <1>1, LeastNumber DEF Min

LEMMA ProxyIsKnown ==
  ASSUME NEW val \in Values
  PROVE  Proxy(val).proxy \in Proxies \cup {NoProxy}
<1>1. CASE matching[val] = {}
  BY <1>1, DnsAssumption DEF Proxy, checkRule
<1>2. CASE matching[val] # {}
  <2>1. Min(matching[val]) \in DOMAIN patterns
    BY <1>2, FirstMatch DEF matching
  <2>. QED  BY <1>2, <2>1, PatternShape DEF Proxy
<1>. QED  BY <1>1, <1>2

(* What is below the host of a proxy is matched by the first pattern,      *)
(* which has none.                                                         *)
LEMMA HostsAreDirect ==
  ASSUME NEW d \in Names, Suffixes(d) \cap ProxyHosts # {}
  PROVE  Proxy(d) = [matched |-> TRUE, proxy |-> NoProxy]
<1>1. 1 \in DOMAIN patterns /\ patterns[1] = DirectDomain
  BY DnsAssumption DEF patterns, checkRule
<1>2. 1 \in matching[d]
  <2>1. d \in Values
    BY DEF Values
  <2>2. Match(DirectDomain, d)
    BY DnsAssumption DEF Match, SuffixMatch, IsName, DirectDomain
  <2>. QED  BY <1>1, <2>1, <2>2 DEF matching
<1>3. Min(matching[d]) = 1
  <2>1. d \in Values
    BY DEF Values
  <2>2. Min(matching[d]) \in DOMAIN patterns /\ Min(matching[d]) <= 1
    BY <1>2, <2>1, FirstMatch DEF matching
  <2>. QED  BY <2>2, PatternShape
<1>4. DirectDomain.proxy = NoProxy
  BY DEF DirectDomain
<1>. QED  BY <1>1, <1>2, <1>3, <1>4 DEF Proxy
-----------------------------------------------------------------------------
(* Each step of Dns is one of DnsTable, or leaves the table alone.         *)
LEMMA AtIsQuery ==
  ASSUME DnsTypeOK, NEW h \in Handlers, NEW pc, At(h, pc), pc # "idle"
  PROVE  queries[h] \in Query /\ queries[h] # NoQuery
BY DEF DnsTypeOK, At, NoQuery, Query

LEMMA SetIsTableStep ==
  ASSUME NEW d \in Domains, NEW proxy \in Proxies, Set(d, proxy),
         UNCHANGED clockVars
  PROVE  Next
BY DEF Set, Next

LEMMA TableStep ==
  ASSUME DnsInv, [DnsNext]_dnsVars
  PROVE  [Next]_vars
<1>1. ASSUME NEW h \in Handlers, NEW d \in Domains, ServeDNS(h, d)
      PROVE  UNCHANGED vars
  BY <1>1 DEF ServeDNS
<1>2. ASSUME NEW h \in Handlers, Step(h)
      PROVE  [Next]_vars
  <2>1. CASE CheckNonProxy(h) \/ Resolve(h) \/ Forward(h) \/ Reply(h)
    BY <2>1 DEF CheckNonProxy, Resolve, Forward, Reply
  <2>2. CASE GetRecord(h)
    <3>1. queries[h].domain \in Domains
      BY <2>2, AtIsQuery DEF GetRecord, DnsInv, Query
    <3>2. Get(queries[h].domain) /\ UNCHANGED clockVars
      BY <2>2 DEF GetRecord
    <3>. QED  BY <3>1, <3>2 DEF Next
  <2>3. CASE SetByName(h) \/ SetByAnswer(h)
    <3>1. /\ queries[h] \in Query /\ queries[h] # NoQuery
          /\ queries[h].pc \in {"set", "setip"}
      BY <2>3, AtIsQuery DEF SetByName, SetByAnswer, DnsInv, At
    <3>2. queries[h].domain \in Domains /\ queries[h].proxy \in Proxies
      BY <3>1 DEF DnsInv, HandlersInv, HandlerInv, Query
    <3>3. Set(queries[h].domain, queries[h].proxy) /\ UNCHANGED clockVars
      BY <2>3 DEF SetByName, SetByAnswer, SetAndAnswer
    <3>. QED  BY <3>2, <3>3, SetIsTableStep
  <2>4. CASE MarkNonProxy(h)
    <3>1. queries[h] \in Query /\ queries[h] # NoQuery /\ queries[h].pc = "mark"
      BY <2>4, AtIsQuery DEF MarkNonProxy, DnsInv, At
    <3>2. queries[h].msg \in Answers /\ queries[h].msg # <<>>
      BY <3>1 DEF DnsInv, HandlersInv, HandlerInv
    <3>3. queries[h].msg \in Seq(Item)
      BY <3>2, DnsAssumption
    <3>4. queries[h].msg[1] \in Item
      BY <3>2, <3>3
    <3>5. queries[h].domain \in Domains /\ queries[h].msg[1].ttl \in AnswerTtls
      BY <3>1, <3>4 DEF Query, Item
    <3>6. /\ SetNonProxyDomain(queries[h].domain, queries[h].msg[1].ttl)
          /\ UNCHANGED clockVars
      BY <2>4 DEF MarkNonProxy
    <3>. QED  BY <3>5, <3>6 DEF Next
  <2>. QED  BY <1>2, <2>1, <2>2, <2>3, <2>4 DEF Step
<1>3. ASSUME NEW ip \in PoolAddrs, Connect(ip)
      PROVE  Next
  BY <1>3 DEF Connect, Next
<1>4. CASE Pass
  BY <1>4 DEF Pass, Next
<1>5. CASE Sweep
  BY <1>5 DEF Sweep, Next
<1>6. CASE UNCHANGED dnsVars
  BY <1>6 DEF dnsVars
<1>. QED  BY <1>1, <1>2, <1>3, <1>4, <1>5, <1>6 DEF DnsNext
-----------------------------------------------------------------------------
(* What a step of the table does to the answers there are: a record that   *)
(* an answer may be used with is not swept.                                *)
LEMMA ClockAndRecords ==
  ASSUME IInv, [Next]_vars
  PROVE  /\ now \in Nat /\ now' \in Nat /\ now <= now'
         /\ Ttl \in Nat
         /\ \A d \in Hijacked : records[d].expires \in Nat
         /\ \A d \in Hijacked' : (records[d].expires)' \in Nat
<1>1. IInv'
  BY StepKeeps
<1>2. now <= now'
  BY DEF IInv, TypeOK, Next, Get, GetByIP, SetKnown, SetNew, SetFull,
         SetNonProxyDomain, Tick, ReadTick, clearExpiredDomain,
         clearExpiredNonProxyDomain, vars, clockVars
<1>. QED
  BY <1>1, <1>2, TableAssumption DEF IInv, TypeOK, Hijacked, Record

LEMMA HoldsKept ==
  ASSUME IInv, [Next]_vars, NEW d \in Domains, NEW ip, NEW asked \in Nat,
         Holds(d, ip, asked)
  PROVE  Holds(d, ip, asked)'
<1>. SUFFICES ASSUME now' <= asked + Ttl
              PROVE  /\ d \in Hijacked'
                     /\ records'[d].ip = ip
                     /\ records'[d].expires >= asked + Ttl
  BY DEF Holds
<1>1. d \in Hijacked /\ records[d].ip = ip /\ records[d].expires >= asked + Ttl
  BY ClockAndRecords DEF Holds
<1>2. d \in Hijacked'
  BY <1>1, RecordEnds, ClockAndRecords
<1>3. records'[d].ip = records[d].ip /\ records'[d].expires >= records[d].expires
  BY <1>1, <1>2, RecordStays
<1>. QED  BY <1>1, <1>2, <1>3, ClockAndRecords

LEMMA LastsKept ==
  ASSUME IInv, [Next]_vars, NEW d \in Domains, NEW asked \in Nat, asked <= now,
         Lasts(d, asked)
  PROVE  Lasts(d, asked)'
<1>. SUFFICES ASSUME d \in Hijacked'
              PROVE  records'[d].expires >= asked + Ttl
  BY DEF Lasts
<1>1. CASE d \in Hijacked
  <2>1. records'[d].expires >= records[d].expires
    BY <1>1, RecordStays
  <2>. QED  BY <1>1, <2>1, ClockAndRecords DEF Lasts
<1>2. CASE d \notin Hijacked
  <2>1. PICK proxy \in Proxies : SetNew(d, proxy)
    BY <1>2, RecordBegins
  <2>2. records'[d].expires = now + Ttl
    BY <2>1 DEF SetNew, IInv, TypeOK
  <2>. QED  BY <2>2, ClockAndRecords
<1>. QED  BY <1>1, <1>2

LEMMA HandlerKept ==
  ASSUME IInv, [Next]_vars, NEW q \in Query, HandlerInv(q)
  PROVE  HandlerInv(q)'
<1>1. q.domain \in Domains /\ q.asked \in Nat
  BY DEF Query
<1>2. q.asked <= now'
  BY <1>1, ClockAndRecords DEF HandlerInv
<1>3. q.pc \in {"set", "resolve", "setip", "mark"} => Lasts(q.domain, q.asked)'
  BY <1>1, LastsKept DEF HandlerInv
<1>4. q.pc = "reply" /\ q.ip # NoIP => Holds(q.domain, q.ip, q.asked)'
  BY <1>1, HoldsKept DEF HandlerInv
<1>. QED  BY <1>2, <1>3, <1>4 DEF HandlerInv

(* The answers given out so far hold on.                                   *)
LEMMA GivenKept ==
  ASSUME DnsInv, [Next]_vars, NEW a \in given
  PROVE  Holds(a.domain, a.ip, a.asked)'
<1>1. a.domain \in Domains /\ a.asked \in Nat
  BY DEF DnsInv, DnsTypeOK
<1>. QED  BY <1>1, HoldsKept DEF DnsInv, GivenHold

(* A step in which handler h goes on to q; the other handlers stay.        *)
LEMMA HandlerMoves ==
  ASSUME DnsInv, [Next]_vars, NEW h \in Handlers, NEW q \in Query \cup {NoQuery},
         queries' = [queries EXCEPT ![h] = q],
         q # NoQuery => HandlerInv(q)'
  PROVE  queries' \in [Handlers -> Query \cup {NoQuery}] /\ HandlersInv'
<1>1. queries \in [Handlers -> Query \cup {NoQuery}]
  BY DEF DnsInv, DnsTypeOK
<1>2. ASSUME NEW g \in Handlers, g # h, queries[g] # NoQuery
      PROVE  HandlerInv(queries[g])'
  <2>1. PICK p \in Query : p = queries[g]
    BY <1>1, <1>2
  <2>2. HandlerInv(p)'
    BY <1>2, <2>1, HandlerKept DEF DnsInv, HandlersInv
  <2>3. queries'[g] = p
    BY <1>1, <1>2, <2>1
  <2>. QED  BY <2>2, <2>3
<1>. QED  BY <1>1, <1>2 DEF HandlersInv
-----------------------------------------------------------------------------
(* Each step of a handler leaves it where HandlerInv says.                 *)
LEMMA ServeKeeps ==
  ASSUME DnsInv, [Next]_vars, NEW h \in Handlers, NEW d \in Domains, ServeDNS(h, d)
  PROVE  queries' \in [Handlers -> Query \cup {NoQuery}] /\ HandlersInv'
<1> DEFINE q == [pc |-> IF Reject(d) THEN "reply" ELSE "nonproxy",
                 domain |-> d, asked |-> 0, proxy |-> NoProxy,
                 msg |-> Failed, ip |-> NoIP]
<1>1. q \in Query
  BY DEF Query
<1>2. 0 <= now'
  BY ClockAndRecords DEF DnsInv
<1>3. /\ q.pc \in {"reply", "nonproxy"} /\ q.asked = 0 /\ q.ip = NoIP
      /\ q.pc # "reply" => ~ Reject(q.domain)
  OBVIOUS
<1>4. queries' = [queries EXCEPT ![h] = q]
  BY DEF ServeDNS, Goto
<1> HIDE DEF q
<1>5. PICK p \in Query : p = q
  BY <1>1
<1>6. HandlerInv(p)'
  BY <1>2, <1>3, <1>5 DEF HandlerInv
<1>. QED  BY <1>4, <1>5, <1>6, HandlerMoves

LEMMA CheckKeeps ==
  ASSUME DnsInv, [Next]_vars, NEW h \in Handlers, CheckNonProxy(h)
  PROVE  queries' \in [Handlers -> Query \cup {NoQuery}] /\ HandlersInv'
<1>1. PICK q \in Query : q = queries[h] /\ q.pc = "nonproxy" /\ HandlerInv(q)
  BY AtIsQuery DEF CheckNonProxy, At, DnsInv, HandlersInv
<1>2. PICK pc \in {"forward", "get"} :
        queries' = [queries EXCEPT ![h] = [q EXCEPT !.pc = pc]]
  BY <1>1 DEF CheckNonProxy, Goto
<1>3. PICK p \in Query : p = [q EXCEPT !.pc = pc]
  BY <1>1, <1>2 DEF Query
<1>4. /\ p.pc = pc /\ p.domain = q.domain /\ p.asked = q.asked /\ p.ip = q.ip
      /\ q.asked \in Nat
  BY <1>1, <1>3 DEF Query
<1>5. HandlerInv(p)'
  BY <1>1, <1>2, <1>4, ClockAndRecords DEF HandlerInv, DnsInv
<1>. QED  BY <1>2, <1>3, <1>5, HandlerMoves

LEMMA GetKeeps ==
  ASSUME DnsInv, [Next]_vars, NEW h \in Handlers, GetRecord(h)
  PROVE  queries' \in [Handlers -> Query \cup {NoQuery}] /\ HandlersInv'
<1>1. PICK q \in Query : q = queries[h] /\ q.pc = "get" /\ HandlerInv(q)
  BY AtIsQuery DEF GetRecord, At, DnsInv, HandlersInv
<1>2. /\ q.domain \in Domains /\ ~ Reject(q.domain) /\ q.ip = NoIP
      /\ UNCHANGED clockVars /\ Get(q.domain) /\ now \in Nat /\ now' = now
      /\ Ttl \in Nat
  BY <1>1, ClockAndRecords DEF Query, HandlerInv, GetRecord, DnsInv, clockVars
<1>3. CASE q.domain \in Hijacked
  <2>1. records[q.domain].ip \in PoolAddrs
    BY <1>3 DEF DnsInv, IInv, MapsAgree
  <2>2. PICK p \in Query :
          /\ p = [q EXCEPT !.pc = "reply", !.asked = now,
                           !.ip = records[q.domain].ip]
          /\ p.pc = "reply" /\ p.asked = now /\ p.domain = q.domain
          /\ p.ip = records[q.domain].ip
    <3> DEFINE r == [q EXCEPT !.pc = "reply", !.asked = now,
                              !.ip = records[q.domain].ip]
    <3>1. r \in Query
      BY <1>2, <2>1 DEF Query
    <3>2. /\ r.pc = "reply" /\ r.asked = now /\ r.domain = q.domain
          /\ r.ip = records[q.domain].ip
      BY DEF Query
    <3> HIDE DEF r
    <3>3. \E p \in Query : p = r
      BY <3>1
    <3>. QED  BY <3>2, <3>3 DEF r
  <2>3. SamePlaces
    BY <1>2, LookUpKeeps DEF DnsInv
  <2>4. q.domain \in Hijacked' /\ records'[q.domain].ip = p.ip
    BY <1>2, <1>3, <2>2, <2>3 DEF SamePlaces, Hijacked
  <2>5. records'[q.domain].expires = now + Ttl
    BY <1>2, <1>3 DEF Get, Touched, DnsInv, IInv, TypeOK, Hijacked, Record
  <2>6. Holds(p.domain, p.ip, p.asked)'
    BY <1>2, <2>2, <2>4, <2>5 DEF Holds
  <2>7. HandlerInv(p)'
    BY <1>2, <2>2, <2>6 DEF HandlerInv
  <2>8. queries' = [queries EXCEPT ![h] = p]
    BY <1>1, <1>3, <2>2 DEF GetRecord, Goto, AfterGet, FromRecord, Asked
  <2>. QED  BY <2>7, <2>8, HandlerMoves
<1>4. CASE q.domain \notin Hijacked
  <2> DEFINE v  == Proxy(q.domain)
             pc == IF v.matched /\ v.proxy # NoProxy THEN "set" ELSE "resolve"
  <2>1. v.proxy \in Proxies \cup {NoProxy}
    BY <1>2, ProxyIsKnown, DnsAssumption DEF Values
  <2>2. v.matched /\ v.proxy # NoProxy => v = [matched |-> TRUE, proxy |-> v.proxy]
    BY DEF Proxy
  <2>3. q.domain \notin Hijacked'
    BY <1>2, <1>4 DEF Get, Touched, Hijacked
  <2>4. queries' = [queries EXCEPT ![h] =
          [q EXCEPT !.asked = now, !.proxy = v.proxy, !.pc = pc]]
    BY <1>1, <1>4 DEF GetRecord, Goto, AfterGet, ByName, Asked
  <2>5. pc \in {"set", "resolve"}
    OBVIOUS
  <2>6. /\ pc = "set" => v.matched /\ v.proxy # NoProxy
    OBVIOUS
  <2> HIDE DEF v, pc
  <2>7. PICK p \in Query :
          /\ p = [q EXCEPT !.asked = now, !.proxy = v.proxy, !.pc = pc]
          /\ p.pc = pc /\ p.asked = now /\ p.domain = q.domain
          /\ p.proxy = v.proxy /\ p.ip = NoIP
    <3> DEFINE r == [q EXCEPT !.asked = now, !.proxy = v.proxy, !.pc = pc]
    <3>1. r \in Query
      BY <1>2, <2>1, <2>5 DEF Query
    <3>2. /\ r.pc = pc /\ r.asked = now /\ r.domain = q.domain
          /\ r.proxy = v.proxy /\ r.ip = q.ip
      BY DEF Query
    <3> HIDE DEF r
    <3>3. \E p \in Query : p = r
      BY <3>1
    <3>. QED  BY <1>2, <3>2, <3>3 DEF r
  <2>8. Lasts(p.domain, p.asked)'
    BY <2>3, <2>7 DEF Lasts
  <2>9. p.pc = "set" => /\ p.proxy \in Proxies
                        /\ Proxy(p.domain) = [matched |-> TRUE, proxy |-> p.proxy]
    BY <2>1, <2>2, <2>6, <2>7 DEF v
  <2>10. HandlerInv(p)'
    BY <1>2, <2>5, <2>7, <2>8, <2>9 DEF HandlerInv
  <2>. QED  BY <2>4, <2>7, <2>10, HandlerMoves
<1>. QED  BY <1>3, <1>4

(* The record that Set returns, made now or by another handler since this  *)
(* one looked, lasts for the answer's Ttl.                                 *)
LEMMA SetKeeps ==
  ASSUME DnsInv, [Next]_vars, NEW h \in Handlers, SetByName(h) \/ SetByAnswer(h)
  PROVE  queries' \in [Handlers -> Query \cup {NoQuery}] /\ HandlersInv'
<1> DEFINE pc == IF At(h, "set") THEN "resolve" ELSE "mark"
<1>1. PICK q \in Query : /\ q = queries[h] /\ q.pc \in {"set", "setip"}
                         /\ HandlerInv(q)
  BY AtIsQuery DEF SetByName, SetByAnswer, At, DnsInv, HandlersInv
<1>2. /\ pc \in {"resolve", "mark"}
      /\ pc = "mark" => q.pc = "setip"
  BY <1>1 DEF At
<1>3. SetAndAnswer(h, pc)
  BY DEF SetByName, SetByAnswer, At
<1> HIDE DEF pc
<1>4. q.domain \in Domains /\ q.asked \in Nat /\ q.asked <= now
  BY <1>1 DEF Query, HandlerInv
<1>5. Lasts(q.domain, q.asked)'
  BY <1>1, <1>4, LastsKept DEF HandlerInv, DnsInv
<1>6. IInv' /\ q.asked <= now'
  BY <1>4, StepKeeps, ClockAndRecords DEF DnsInv
<1>7. CASE records'[q.domain] # NoRecord
  <2> DEFINE r == [q EXCEPT !.pc = "reply", !.ip = records'[q.domain].ip,
                            !.proxy = NoProxy, !.msg = Failed]
  <2>1. queries' = [queries EXCEPT ![h] = r]
    BY <1>1, <1>3, <1>7 DEF SetAndAnswer, Goto
  <2>2. q.domain \in Hijacked'
    BY <1>4, <1>7 DEF Hijacked
  <2>3. records'[q.domain].ip \in PoolAddrs
    BY <1>6, <2>2 DEF IInv, MapsAgree
  <2>4. r \in Query
    BY <2>3 DEF Query
  <2>5. /\ r.pc = "reply" /\ r.ip = records'[q.domain].ip
        /\ r.asked = q.asked /\ r.domain = q.domain
    BY DEF Query
  <2> HIDE DEF r
  <2>6. PICK p \in Query : p = r
    BY <2>4
  <2>7. Holds(p.domain, p.ip, p.asked)'
    BY <1>5, <2>2, <2>5, <2>6 DEF Holds, Lasts
  <2>8. HandlerInv(p)'
    BY <1>6, <2>5, <2>6, <2>7 DEF HandlerInv
  <2>. QED  BY <2>1, <2>6, <2>8, HandlerMoves
<1>8. CASE records'[q.domain] = NoRecord
  <2> DEFINE r == [q EXCEPT !.pc = pc]
  <2>1. queries' = [queries EXCEPT ![h] = r]
    BY <1>1, <1>3, <1>8 DEF SetAndAnswer, Goto
  <2>2. r \in Query
    BY <1>2 DEF Query
  <2>3. /\ r.pc = pc /\ r.domain = q.domain /\ r.asked = q.asked
        /\ r.msg = q.msg /\ r.ip = q.ip
    BY DEF Query
  <2> HIDE DEF r
  <2>4. PICK p \in Query : p = r
    BY <2>2
  <2>5. Lasts(p.domain, p.asked)'
    BY <1>5, <2>3, <2>4
  <2>6. HandlerInv(p)'
    BY <1>1, <1>2, <1>6, <2>3, <2>4, <2>5 DEF HandlerInv
  <2>. QED  BY <2>1, <2>4, <2>6, HandlerMoves
<1>. QED  BY <1>7, <1>8

(* Some numbers up to n, if there are any, have a greatest one. *)
LEMMA LastOfSome ==
  ASSUME NEW n \in Nat, NEW S \in SUBSET (1 .. n), S # {}
  PROVE  Max(S) \in S
<1> DEFINE Down == {n - x : x \in S}
<1>1. \A x \in S : x \in Nat /\ n - x \in Nat /\ n - x \in Down
  OBVIOUS
<1>2. Down \subseteq Nat /\ Down # {}
  BY <1>1
<1>3. PICK d \in Down : \A e \in Down : d <= e
  <2> HIDE DEF Down
  <2>. QED  BY <1>2, LeastNumber
<1>4. PICK x \in S : d = n - x
  BY <1>3
<1>5. ASSUME NEW y \in S  PROVE  x >= y
  <2>1. n - x <= n - y
    BY <1>1, <1>3, <1>4
  <2>. QED  BY <1>1, <2>1
<1>. QED  BY <1>4, <1>5 DEF Max

LEMMA ProxyByAnswerIsKnown ==
  ASSUME NEW msg \in Answers
  PROVE  ProxyByAnswer(msg) \in Proxies \cup {NoProxy}
<1>1. ASSUME NEW item \in Item
      PROVE  ProxyOf(item).proxy \in Proxies \cup {NoProxy}
  <2>1. (IF item.type = "CNAME" THEN Dotted(item.val) ELSE item.val) \in Values
    BY <1>1 DEF Item, Values
  <2>. QED  BY <2>1, ProxyIsKnown DEF ProxyOf
<1>2. msg \in Seq(Item)
  BY DnsAssumption
<1> DEFINE last  == IF Stops(msg) = {} THEN Len(msg) ELSE Min(Stops(msg))
           asked == {i \in 1 .. last : msg[i].type # "other"}
<1>3. CASE asked # {}
  <2>1. Stops(msg) # {} => Min(Stops(msg)) \in DOMAIN msg
    <3>1. Stops(msg) \subseteq DOMAIN msg /\ DOMAIN msg \subseteq Nat
      BY <1>2 DEF Stops
    <3>. QED  BY <3>1, LeastNumber DEF Min
  <2>2. last \in Nat /\ 1 .. last \subseteq DOMAIN msg
    BY <1>2, <2>1
  <2> HIDE DEF last
  <2>3. Max(asked) \in asked
    BY <1>3, <2>2, LastOfSome
  <2>4. msg[Max(asked)] \in Item
    BY <1>2, <2>2, <2>3
  <2>. QED  BY <1>1, <1>3, <2>4 DEF ProxyByAnswer, last
<1>. QED  BY <1>3, DnsAssumption DEF ProxyByAnswer, checkRule

LEMMA ResolveKeeps ==
  ASSUME DnsInv, [Next]_vars, NEW h \in Handlers, Resolve(h)
  PROVE  queries' \in [Handlers -> Query \cup {NoQuery}] /\ HandlersInv'
<1>1. PICK q \in Query : q = queries[h] /\ q.pc = "resolve" /\ HandlerInv(q)
  BY AtIsQuery DEF Resolve, At, DnsInv, HandlersInv
<1> DEFINE proxy(msg) == ProxyFor(q.domain, msg)
           r(msg) == IF msg \in {Failed, <<>>}
                     THEN [q EXCEPT !.pc = "reply", !.msg = msg]
                     ELSE [q EXCEPT
                            !.pc = IF proxy(msg) = NoProxy THEN "mark" ELSE "setip",
                            !.proxy = proxy(msg), !.msg = msg]
<1>2. PICK msg \in Answers \cup {Failed} :
        queries' = [queries EXCEPT ![h] = r(msg)]
  BY <1>1 DEF Resolve, Goto
<1>3. q.domain \in Domains /\ q.asked \in Nat
  BY DEF Query
<1>4. Lasts(q.domain, q.asked)' /\ q.asked <= now'
  BY <1>1, <1>3, LastsKept, ClockAndRecords DEF HandlerInv, DnsInv
<1>5. q.ip = NoIP /\ ~ Reject(q.domain)
  BY <1>1 DEF HandlerInv
<1>6. CASE msg \in {Failed, <<>>}
  <2>1. r(msg) = [q EXCEPT !.pc = "reply", !.msg = msg]
    BY <1>6
  <2>2. r(msg) \in Query
    BY <1>2, <2>1 DEF Query
  <2>3. r(msg).pc = "reply" /\ r(msg).asked = q.asked /\ r(msg).ip = q.ip
    BY <2>1 DEF Query
  <2> HIDE DEF r
  <2>4. PICK p \in Query : p = r(msg)
    BY <2>2
  <2>5. HandlerInv(p)'
    BY <1>4, <1>5, <2>3, <2>4 DEF HandlerInv
  <2>. QED  BY <1>2, <2>4, <2>5, HandlerMoves
<1>7. CASE msg \notin {Failed, <<>>}
  <2> DEFINE pc == IF proxy(msg) = NoProxy THEN "mark" ELSE "setip"
  <2>1. proxy(msg) \in Proxies \cup {NoProxy}
    BY <1>2, <1>7, ProxyByAnswerIsKnown DEF ProxyFor
  <2>2. proxy(msg) # NoProxy => ~ Proxy(q.domain).matched
    BY DEF ProxyFor
  <2>3. r(msg) = [q EXCEPT !.pc = pc, !.proxy = proxy(msg), !.msg = msg]
    BY <1>7
  <2>4. /\ pc \in {"mark", "setip"}
        /\ pc = "setip" => proxy(msg) # NoProxy
    OBVIOUS
  <2> HIDE DEF pc, proxy
  <2>5. r(msg) \in Query
    BY <1>2, <2>1, <2>3, <2>4 DEF Query
  <2>6. /\ r(msg).pc = pc /\ r(msg).proxy = proxy(msg) /\ r(msg).msg = msg
        /\ r(msg).asked = q.asked /\ r(msg).ip = q.ip /\ r(msg).domain = q.domain
    BY <2>3 DEF Query
  <2> HIDE DEF r
  <2>7. PICK p \in Query : p = r(msg)
    BY <2>5
  <2>8. msg \in Answers /\ msg # <<>>
    BY <1>2, <1>7
  <2>9. Lasts(p.domain, p.asked)'
    BY <1>4, <2>6, <2>7
  <2>10. HandlerInv(p)'
    BY <1>4, <1>5, <2>1, <2>2, <2>4, <2>6, <2>7, <2>8, <2>9 DEF HandlerInv
  <2>. QED  BY <1>2, <2>7, <2>10, HandlerMoves
<1>. QED  BY <1>6, <1>7

(* MarkNonProxy and Forward answer with what a name server said.           *)
LEMMA RealAnswerKeeps ==
  ASSUME DnsInv, [Next]_vars, NEW h \in Handlers, MarkNonProxy(h) \/ Forward(h)
  PROVE  queries' \in [Handlers -> Query \cup {NoQuery}] /\ HandlersInv'
<1>1. PICK q \in Query : /\ q = queries[h] /\ q.pc \in {"mark", "forward"}
                         /\ HandlerInv(q)
  BY AtIsQuery DEF MarkNonProxy, Forward, At, DnsInv, HandlersInv
<1>2. PICK msg \in Answers \cup {Failed} :
        queries' = [queries EXCEPT ![h] = [q EXCEPT !.pc = "reply", !.msg = msg]]
  <2>1. CASE MarkNonProxy(h)
    <3>1. q.msg \in Answers \cup {Failed}
      BY DEF Query
    <3>2. [q EXCEPT !.pc = "reply"] = [q EXCEPT !.pc = "reply", !.msg = q.msg]
      BY DEF Query
    <3>3. queries' = [queries EXCEPT ![h] = [q EXCEPT !.pc = "reply"]]
      BY <1>1, <2>1 DEF MarkNonProxy, Goto
    <3>. QED  BY <3>1, <3>2, <3>3
  <2>2. CASE Forward(h)
    BY <1>1, <2>2 DEF Forward, Goto
  <2>. QED  BY <2>1, <2>2
<1> DEFINE r == [q EXCEPT !.pc = "reply", !.msg = msg]
<1>3. r \in Query
  BY <1>2 DEF Query
<1>4. r.pc = "reply" /\ r.asked = q.asked /\ r.ip = q.ip /\ q.asked \in Nat
  BY DEF Query
<1>5. queries' = [queries EXCEPT ![h] = r]
  BY <1>2
<1> HIDE DEF r
<1>6. PICK p \in Query : p = r
  BY <1>3
<1>7. HandlerInv(p)'
  BY <1>1, <1>4, <1>6, ClockAndRecords DEF HandlerInv, DnsInv
<1>. QED  BY <1>5, <1>6, <1>7, HandlerMoves

(* A reply adds the answer that the handler held.                          *)
LEMMA ReplyKeeps ==
  ASSUME DnsInv, [Next]_vars, NEW h \in Handlers, Reply(h)
  PROVE  /\ queries' \in [Handlers -> Query \cup {NoQuery}] /\ HandlersInv'
         /\ given' \subseteq [domain : Domains, ip : PoolAddrs, asked : Nat]
         /\ GivenHold'
<1>1. PICK q \in Query : q = queries[h] /\ q.pc = "reply" /\ HandlerInv(q)
  BY AtIsQuery DEF Reply, At, DnsInv, HandlersInv
<1>2. queries' = [queries EXCEPT ![h] = NoQuery]
  BY DEF Reply, Goto
<1>3. queries' \in [Handlers -> Query \cup {NoQuery}] /\ HandlersInv'
  BY <1>2, HandlerMoves
<1>4. given \subseteq [domain : Domains, ip : PoolAddrs, asked : Nat]
  BY DEF DnsInv, DnsTypeOK
<1>5. CASE q.ip = NoIP
  <2>1. given' = given
    BY <1>1, <1>5 DEF Reply
  <2>. QED  BY <1>3, <1>4, <2>1, GivenKept DEF GivenHold
<1>6. CASE q.ip # NoIP
  <2> DEFINE a == [domain |-> q.domain, ip |-> q.ip, asked |-> q.asked]
  <2>1. given' = given \cup {a}
    BY <1>1, <1>6 DEF Reply
  <2>2. a \in [domain : Domains, ip : PoolAddrs, asked : Nat]
    BY <1>6 DEF Query
  <2>3. Holds(q.domain, q.ip, q.asked)'
    BY <1>1, <1>6, HandlerKept DEF HandlerInv, DnsInv
  <2>4. a.domain = q.domain /\ a.ip = q.ip /\ a.asked = q.asked
    OBVIOUS
  <2> HIDE DEF a
  <2>5. PICK b : b = a
    OBVIOUS
  <2>6. Holds(b.domain, b.ip, b.asked)'
    BY <2>3, <2>4, <2>5
  <2>. QED  BY <1>3, <1>4, <2>1, <2>2, <2>5, <2>6, GivenKept DEF GivenHold
<1>. QED  BY <1>5, <1>6

(* Steps in which no handler moves.                                        *)
LEMMA HandlersStay ==
  ASSUME DnsInv, [Next]_vars, UNCHANGED queries
  PROVE  queries' \in [Handlers -> Query \cup {NoQuery}] /\ HandlersInv'
<1>1. queries \in [Handlers -> Query \cup {NoQuery}]
  BY DEF DnsInv, DnsTypeOK
<1>2. ASSUME NEW h \in Handlers, queries[h] # NoQuery
      PROVE  HandlerInv(queries[h])'
  <2>1. PICK q \in Query : q = queries[h]
    BY <1>1, <1>2
  <2>2. HandlerInv(q)'
    BY <1>2, <2>1, HandlerKept DEF DnsInv, HandlersInv
  <2>. QED  BY <2>1, <2>2
<1>. QED  BY <1>1, <1>2 DEF HandlersInv

LEMMA GivenShrinks ==
  ASSUME DnsInv, [Next]_vars, given' \subseteq given
  PROVE  /\ given' \subseteq [domain : Domains, ip : PoolAddrs, asked : Nat]
         /\ GivenHold'
BY GivenKept DEF DnsInv, DnsTypeOK, GivenHold
-----------------------------------------------------------------------------
(* A domain is hijacked by Set alone, for a handler that the rule sent     *)
(* there.                                                                  *)
LEMMA RouteKept ==
  ASSUME DnsInv, [Next]_vars, Hijacked' \subseteq Hijacked
  PROVE  HijackedByRule'
BY RecordStays DEF DnsInv, HijackedByRule, Hijacked

LEMMA SetRoutes ==
  ASSUME DnsInv, [Next]_vars, NEW h \in Handlers, SetByName(h) \/ SetByAnswer(h)
  PROVE  HijackedByRule'
<1>1. PICK q \in Query : /\ q = queries[h] /\ q.pc \in {"set", "setip"}
                         /\ HandlerInv(q)
  BY AtIsQuery DEF SetByName, SetByAnswer, At, DnsInv, HandlersInv
<1>2. q.domain \in Domains /\ q.proxy \in Proxies
  BY <1>1 DEF Query, HandlerInv
<1>3. Set(q.domain, q.proxy)
  BY <1>1 DEF SetByName, SetByAnswer, SetAndAnswer
<1>4. CASE SetKnown(q.domain) \/ SetFull(q.domain)
  BY <1>4, RouteKept DEF SetKnown, SetFull, tableVars, Hijacked
<1>5. CASE SetNew(q.domain, q.proxy)
  <2>1. /\ Hijacked' = Hijacked \cup {q.domain}
        /\ \A d \in Hijacked : records'[d] = records[d]
    BY <1>2, <1>5, SetNewRecords DEF DnsInv
  <2>2. records'[q.domain].proxy = q.proxy
    BY <1>2, <1>5 DEF SetNew, DnsInv, IInv, TypeOK
  <2>3. ~ Reject(q.domain) /\ Suffixes(q.domain) \cap ProxyHosts = {}
    BY <1>1, <1>2, HostsAreDirect, DnsAssumption DEF HandlerInv
  <2>4. Proxy(q.domain).matched => Proxy(q.domain).proxy = q.proxy
    BY <1>1 DEF HandlerInv
  <2>. QED  BY <2>1, <2>2, <2>3, <2>4 DEF DnsInv, HijackedByRule
<1>. QED  BY <1>3, <1>4, <1>5 DEF Set

LEMMA DnsStepKeeps ==
  ASSUME DnsInv, [DnsNext]_dnsVars
  PROVE  DnsInv'
<1>1. [Next]_vars
  BY TableStep
<1>2. IInv' /\ TypeOK'
  BY <1>1, StepKeeps DEF DnsInv, IInv
<1> DEFINE Kept == /\ queries' \in [Handlers -> Query \cup {NoQuery}]
                   /\ HandlersInv'
                   /\ given' \subseteq [domain : Domains, ip : PoolAddrs, asked : Nat]
                   /\ GivenHold' /\ HijackedByRule'
<1>3. ASSUME NEW h \in Handlers, NEW d \in Domains, ServeDNS(h, d)
      PROVE  Kept
  <2>1. Hijacked' = Hijacked /\ given' = given
    BY <1>3 DEF ServeDNS, vars, tableVars, Hijacked
  <2>. QED  BY <1>1, <1>3, <2>1, ServeKeeps, GivenShrinks, RouteKept
<1>4. ASSUME NEW h \in Handlers, GetRecord(h)
      PROVE  Kept
  <2>1. queries[h].domain \in Domains
    BY <1>4, AtIsQuery DEF GetRecord, DnsInv, Query
  <2>2. SamePlaces
    BY <1>4, <2>1, LookUpKeeps DEF GetRecord, DnsInv
  <2>3. Hijacked' = Hijacked /\ given' = given
    BY <1>4, <2>2 DEF GetRecord, SamePlaces, Hijacked
  <2>. QED  BY <1>1, <1>4, <2>3, GetKeeps, GivenShrinks, RouteKept
<1>5. ASSUME NEW h \in Handlers, SetByName(h) \/ SetByAnswer(h)
      PROVE  Kept
  <2>1. given' = given
    BY <1>5 DEF SetByName, SetByAnswer, SetAndAnswer
  <2>. QED  BY <1>1, <1>5, <2>1, SetKeeps, GivenShrinks, SetRoutes
<1>6. ASSUME NEW h \in Handlers,
             CheckNonProxy(h) \/ Resolve(h) \/ MarkNonProxy(h) \/ Forward(h)
      PROVE  Kept
  <2>1. Hijacked' = Hijacked /\ given' = given
    BY <1>6 DEF CheckNonProxy, Resolve, MarkNonProxy, SetNonProxyDomain, Forward,
                vars, tableVars, Hijacked
  <2>. QED  BY <1>1, <1>6, <2>1, CheckKeeps, ResolveKeeps, RealAnswerKeeps,
               GivenShrinks, RouteKept
<1>7. ASSUME NEW h \in Handlers, Reply(h)
      PROVE  Kept
  <2>1. Hijacked' = Hijacked
    BY <1>7 DEF Reply, vars, tableVars, Hijacked
  <2>. QED  BY <1>1, <1>7, <2>1, ReplyKeeps, RouteKept
<1>8. ASSUME NEW ip \in PoolAddrs, Connect(ip)
      PROVE  Kept
  <2>1. SamePlaces /\ UNCHANGED <<queries, given>>
    BY <1>8, LookUpByIPKeeps DEF Connect, DnsInv
  <2>2. Hijacked' = Hijacked
    BY <2>1 DEF SamePlaces, Hijacked
  <2>. QED  BY <1>1, <2>1, <2>2, HandlersStay, GivenShrinks, RouteKept
<1>9. ASSUME Pass \/ Sweep \/ UNCHANGED dnsVars
      PROVE  Kept
  <2>1. UNCHANGED queries /\ given' \subseteq given
    BY <1>9 DEF Pass, Sweep, dnsVars
  <2>2. CASE clearExpiredDomain
    <3>1. Hijacked' \subseteq Hijacked
      BY <2>2, ClearRecords DEF DnsInv
    <3>. QED  BY <1>1, <2>1, <3>1, HandlersStay, GivenShrinks, RouteKept
  <2>3. CASE UNCHANGED records
    <3>1. Hijacked' = Hijacked
      BY <2>3 DEF Hijacked
    <3>. QED  BY <1>1, <2>1, <3>1, HandlersStay, GivenShrinks, RouteKept
  <2>. QED
    BY <1>9, <2>2, <2>3 DEF Pass, Sweep, Tick, ReadTick,
       clearExpiredNonProxyDomain, dnsVars, vars, tableVars
<1>10. Kept
  BY <1>3, <1>4, <1>5, <1>6, <1>7, <1>8, <1>9 DEF DnsNext, Step
<1>. QED  BY <1>2, <1>10 DEF DnsInv, DnsTypeOK

LEMMA DnsInitEstablishes == DnsInit => DnsInv
<1>. SUFFICES ASSUME DnsInit PROVE DnsInv
  OBVIOUS
<1>1. IInv
  BY InitEstablishes DEF DnsInit
<1>2. DnsTypeOK
  BY <1>1 DEF DnsInit, DnsTypeOK, IInv
<1>3. HandlersInv /\ GivenHold
  BY DEF DnsInit, HandlersInv, GivenHold
<1>4. Hijacked = {}
  BY DEF DnsInit, Init, InitTable, Hijacked
<1>. QED  BY <1>1, <1>2, <1>3, <1>4 DEF DnsInv, HijackedByRule

THEOREM DnsInvariance == DnsSpec => []DnsInv
  BY DnsInitEstablishes, DnsStepKeeps, PTL DEF DnsSpec
-----------------------------------------------------------------------------
(* The handlers' locals keep their types.                                  *)
THEOREM DnsTypeCorrect == DnsSpec => []DnsTypeOK
<1>1. DnsInv => DnsTypeOK
  BY DEF DnsInv
<1>. QED  BY <1>1, DnsInvariance, PTL

(* A fake address leads to its domain for a Ttl after the look-up that     *)
(* answered with it: doIPv4Query, Set, GetByIP and the sweep in any order. *)
THEOREM AnswersLead == DnsSpec => []AnswersHold
<1>1. DnsInv => AnswersHold
  <2>. SUFFICES ASSUME DnsInv, NEW a \in given, Alive(a)
                PROVE  /\ a.domain \in Hijacked
                       /\ records[a.domain].ip = a.ip
                       /\ ip2Domain[a.ip] = a.domain
    BY DEF AnswersHold
  <2>1. a.domain \in Hijacked /\ records[a.domain].ip = a.ip
    BY DEF DnsInv, GivenHold, Holds, Alive
  <2>. QED  BY <2>1 DEF DnsInv, IInv, MapsAgree
<1>. QED  BY <1>1, DnsInvariance, PTL

(* No answer of a name server hijacks a domain against the rule.           *)
THEOREM RuleDecides == DnsSpec => []HijackedByRule
<1>1. DnsInv => HijackedByRule
  BY DEF DnsInv
<1>. QED  BY <1>1, DnsInvariance, PTL

(* The handlers, relays and sweeps together keep to DnsTable, so all that  *)
(* is proved of DnsTable holds here.                                       *)
THEOREM DnsImplementsTable == DnsSpec => TableSpec
<1>1. DnsInit => Init
  BY DEF DnsInit
<1>2. DnsInv /\ [DnsNext]_dnsVars => [Next]_vars
  BY TableStep
<1>. QED  BY <1>1, <1>2, DnsInvariance, PTL DEF DnsSpec, TableSpec, Spec
-----------------------------------------------------------------------------
(* The pool is used up only when every other domain has one of its         *)
(* addresses: there is an index less than there are domains.               *)
LEMMA RoomForOneMore ==
  ASSUME DnsInv, RoomForAll, NEW d \in Domains, d \notin Hijacked
  PROVE  FreeIndices(flags) # {}
<1>. SUFFICES ASSUME FreeIndices(flags) = {} PROVE FALSE
  OBVIOUS
<1> DEFINE Room == {i \in Indices : AddrOf(i) # TunIP}
           user == [i \in Room |-> CHOOSE e \in Hijacked : records[e].ip = AddrOf(i)]
<1>1. \A i \in Room : user[i] \in Hijacked /\ records[user[i]].ip = AddrOf(i)
  <2>. SUFFICES ASSUME NEW i \in Room
                PROVE  \E e \in Hijacked : records[e].ip = AddrOf(i)
    OBVIOUS
  <2>1. flags[i] = TRUE
    BY DEF FreeIndices, DnsInv, IInv, TypeOK
  <2>. QED  BY <2>1 DEF DnsInv, IInv, FlagsExact
<1>2. user \in Injection(Room, Hijacked)
  <2>1. user \in [Room -> Hijacked]
    BY <1>1
  <2>2. ASSUME NEW i \in Room, NEW j \in Room, user[i] = user[j] PROVE i = j
    <3>1. AddrOf(i) = AddrOf(j)
      BY <1>1, <2>2
    <3>. QED  BY <3>1, AddrOfInjective
  <2> HIDE DEF user
  <2>. QED  BY <2>1, <2>2 DEF Injection, IsInjective
<1> HIDE DEF user
<1>3. IsFiniteSet(Domains) /\ Hijacked \subseteq Domains \ {d}
  BY DnsAssumption DEF Hijacked
<1>4. /\ IsFiniteSet(Domains \ {d})
      /\ Cardinality(Domains \ {d}) = Cardinality(Domains) - 1
  BY <1>3, FS_RemoveElement
<1>5. IsFiniteSet(Hijacked) /\ Cardinality(Hijacked) <= Cardinality(Domains \ {d})
  BY <1>3, <1>4, FS_Subset
<1>6. Cardinality(Room) <= Cardinality(Hijacked) /\ IsFiniteSet(Room)
  BY <1>2, <1>5, FS_Injection DEF ExistsInjection
<1>7. /\ Cardinality(Domains) \in Nat /\ Cardinality(Room) \in Nat
      /\ Cardinality(Hijacked) \in Nat
  BY <1>3, <1>5, <1>6, FS_CardinalityType
<1>. QED  BY <1>4, <1>5, <1>6, <1>7 DEF RoomForAll

(* A domain that a pattern sends through a proxy is on one way only: from  *)
(* the rule to Set, and from there to the forged answer.                   *)
Proxied(d) == Proxy(d).matched /\ Proxy(d).proxy # NoProxy

OnItsWay(q) ==
  Proxied(q.domain) =>
    /\ q.pc \in {"nonproxy", "get", "set", "reply"}
    /\ q.pc = "reply" => q.ip # NoIP \/ Reject(q.domain)

Unmarked == \A d \in Domains : Proxied(d) => nonProxy[d] = Never

ProxiedInv ==
  Unmarked /\ \A h \in Handlers : queries[h] # NoQuery => OnItsWay(queries[h])

(* A step in which h goes on to q and no proxied domain is marked.         *)
LEMMA GoesOn ==
  ASSUME DnsInv, ProxiedInv, NEW h \in Handlers, NEW q,
         queries' = [queries EXCEPT ![h] = q], q # NoQuery => OnItsWay(q), Unmarked'
  PROVE  ProxiedInv'
<1>1. queries \in [Handlers -> Query \cup {NoQuery}]
  BY DEF DnsInv, DnsTypeOK
<1>2. queries'[h] = q /\ \A g \in Handlers \ {h} : queries'[g] = queries[g]
  BY <1>1
<1>3. ASSUME NEW g \in Handlers, queries'[g] # NoQuery  PROVE OnItsWay(queries'[g])
  BY <1>2, <1>3 DEF ProxiedInv
<1>. QED  BY <1>3 DEF ProxiedInv, OnItsWay

LEMMA GetGoesOn ==
  ASSUME DnsInv, ProxiedInv, NEW h \in Handlers, GetRecord(h)
  PROVE  ProxiedInv'
<1>1. PICK q \in Query : q = queries[h] /\ q.pc = "get" /\ HandlerInv(q)
  BY AtIsQuery DEF GetRecord, At, DnsInv, HandlersInv
<1>2. queries' = [queries EXCEPT ![h] = AfterGet(q)] /\ nonProxy' = nonProxy
  BY <1>1 DEF GetRecord, Goto, Get
<1>3. OnItsWay(AfterGet(q))
  <2>1. CASE q.domain \in Hijacked
    <3>1. records[q.domain].ip \in PoolAddrs
      BY <2>1 DEF DnsInv, IInv, MapsAgree
    <3>2. records[q.domain].ip # NoIP
      BY <3>1, AddrOfIndex DEF PoolAddrs
    <3>3. AfterGet(q) = [q EXCEPT !.pc = "reply", !.asked = now,
                                  !.ip = records[q.domain].ip]
      BY <2>1 DEF AfterGet, FromRecord, Asked, Query
    <3>. QED  BY <3>2, <3>3 DEF OnItsWay, Query
  <2>2. CASE q.domain \notin Hijacked
    <3>1. AfterGet(q) = [q EXCEPT !.asked = now, !.proxy = Proxy(q.domain).proxy,
                           !.pc = IF Proxied(q.domain) THEN "set" ELSE "resolve"]
      BY <2>2 DEF AfterGet, ByName, Asked, Proxied, Query
    <3> DEFINE r == AfterGet(q)
    <3>2. r.domain = q.domain /\ (Proxied(q.domain) => r.pc = "set")
      BY <3>1 DEF Query
    <3>. QED  BY <3>2 DEF OnItsWay
  <2>. QED  BY <2>1, <2>2
<1>4. Unmarked'
  BY <1>2 DEF ProxiedInv, Unmarked
<1>. QED  BY <1>2, <1>3, <1>4, GoesOn

(* Set answers, since the pool is never used up.                           *)
LEMMA SetGoesOn ==
  ASSUME DnsInv, DnsInv', RoomForAll, ProxiedInv, NEW h \in Handlers,
         SetByName(h) \/ SetByAnswer(h)
  PROVE  ProxiedInv'
<1>1. PICK q \in Query : /\ q = queries[h] /\ q.pc \in {"set", "setip"}
                         /\ HandlerInv(q) /\ OnItsWay(q)
  BY AtIsQuery DEF SetByName, SetByAnswer, At, DnsInv, HandlersInv, ProxiedInv
<1>2. q.domain \in Domains
  BY DEF Query
<1>3. PICK pc : SetAndAnswer(h, pc)
  BY DEF SetByName, SetByAnswer
<1>4. Set(q.domain, q.proxy)
  BY <1>1, <1>3 DEF SetAndAnswer
<1>5. q.domain \in Hijacked'
  <2>1. CASE SetKnown(q.domain)
    BY <2>1 DEF SetKnown, tableVars, Hijacked
  <2>2. CASE SetNew(q.domain, q.proxy)
    <3>1. Hijacked' = Hijacked \cup {q.domain}
      BY <1>1, <1>2, <2>2, SetNewRecords DEF DnsInv, HandlerInv
    <3>. QED  BY <3>1
  <2>3. CASE SetFull(q.domain)
    BY <1>2, <2>3, RoomForOneMore DEF SetFull
  <2>. QED  BY <1>4, <2>1, <2>2, <2>3 DEF Set
<1>6. records'[q.domain].ip # NoIP
  <2>1. records'[q.domain].ip \in PoolAddrs
    BY <1>5 DEF DnsInv, IInv, MapsAgree
  <2>. QED  BY <2>1, AddrOfIndex DEF PoolAddrs
<1> DEFINE r == [q EXCEPT !.pc = "reply", !.ip = records'[q.domain].ip,
                          !.proxy = NoProxy, !.msg = Failed]
<1>7. queries' = [queries EXCEPT ![h] = r]
  BY <1>1, <1>3, <1>5 DEF SetAndAnswer, Goto, Hijacked
<1>8. OnItsWay(r)
  BY <1>6 DEF OnItsWay, Query
<1>9. nonProxy' = nonProxy
  BY <1>4 DEF Set, SetKnown, SetNew, SetFull, tableVars
<1>10. Unmarked'
  BY <1>9 DEF ProxiedInv, Unmarked
<1> HIDE DEF r
<1>. QED  BY <1>7, <1>8, <1>10, GoesOn

LEMMA StaysOnItsWay ==
  ASSUME DnsInv, DnsInv', RoomForAll, ProxiedInv, [DnsNext]_dnsVars
  PROVE  ProxiedInv'
<1>1. ASSUME UNCHANGED nonProxy  PROVE Unmarked'
  BY <1>1 DEF ProxiedInv, Unmarked
<1>2. ASSUME UNCHANGED queries, Unmarked'  PROVE ProxiedInv'
  BY <1>2 DEF ProxiedInv, OnItsWay
<1>3. ASSUME NEW h \in Handlers, NEW d \in Domains, ServeDNS(h, d)
      PROVE  ProxiedInv'
  <2> DEFINE q == [pc |-> IF Reject(d) THEN "reply" ELSE "nonproxy",
                   domain |-> d, asked |-> 0, proxy |-> NoProxy,
                   msg |-> Failed, ip |-> NoIP]
  <2>1. queries' = [queries EXCEPT ![h] = q] /\ UNCHANGED nonProxy
    BY <1>3 DEF ServeDNS, Goto, vars, tableVars
  <2>2. OnItsWay(q)
    BY DEF OnItsWay
  <2> HIDE DEF q
  <2>. QED  BY <1>1, <2>1, <2>2, GoesOn
<1>4. ASSUME NEW h \in Handlers, CheckNonProxy(h)
      PROVE  ProxiedInv'
  <2>1. PICK q \in Query : q = queries[h] /\ q.pc = "nonproxy"
    BY <1>4, AtIsQuery DEF CheckNonProxy, At, DnsInv
  <2> DEFINE r == [q EXCEPT !.pc = IF IsNonProxyDomain(q.domain) THEN "forward" ELSE "get"]
  <2>2. queries' = [queries EXCEPT ![h] = r] /\ UNCHANGED nonProxy
    BY <1>4, <2>1 DEF CheckNonProxy, Goto, vars, tableVars
  <2>3. OnItsWay(r)
    BY <2>1 DEF OnItsWay, Query, ProxiedInv, Unmarked, IsNonProxyDomain
  <2> HIDE DEF r
  <2>. QED  BY <1>1, <2>2, <2>3, GoesOn
<1>5. ASSUME NEW h \in Handlers, Resolve(h)
      PROVE  ProxiedInv'
  <2>1. PICK q \in Query : /\ q = queries[h] /\ q.pc = "resolve" /\ q # NoQuery
                           /\ ~ Proxied(q.domain)
    BY <1>5, AtIsQuery DEF Resolve, At, DnsInv, ProxiedInv, OnItsWay
  <2>2. PICK r : r.domain = q.domain /\ queries' = [queries EXCEPT ![h] = r]
    BY <1>5, <2>1 DEF Resolve, Goto, Query
  <2>3. UNCHANGED nonProxy
    BY <1>5 DEF Resolve, vars, tableVars
  <2>. QED  BY <1>1, <2>1, <2>2, <2>3, GoesOn DEF OnItsWay
<1>6. ASSUME NEW h \in Handlers, MarkNonProxy(h) \/ Forward(h)
      PROVE  ProxiedInv'
  <2>1. PICK q \in Query : /\ q = queries[h] /\ q.pc \in {"mark", "forward"}
                           /\ ~ Proxied(q.domain)
    BY <1>6, AtIsQuery DEF MarkNonProxy, Forward, At, DnsInv, ProxiedInv, OnItsWay
  <2>2. PICK r : r.domain = q.domain /\ queries' = [queries EXCEPT ![h] = r]
    BY <1>6, <2>1 DEF MarkNonProxy, Forward, Goto, Query
  <2>3. \A d \in Domains : d # q.domain => nonProxy'[d] = nonProxy[d]
    BY <1>6, <2>1 DEF MarkNonProxy, SetNonProxyDomain, Forward, vars, tableVars,
       DnsInv, IInv, TypeOK
  <2>4. Unmarked'
    BY <2>1, <2>3 DEF ProxiedInv, Unmarked
  <2>. QED  BY <2>1, <2>2, <2>4, GoesOn DEF OnItsWay
<1>7. ASSUME NEW h \in Handlers, Reply(h)
      PROVE  ProxiedInv'
  <2>1. queries' = [queries EXCEPT ![h] = NoQuery] /\ UNCHANGED nonProxy
    BY <1>7 DEF Reply, Goto, vars, tableVars
  <2>. QED  BY <1>1, <2>1, GoesOn
<1>8. ASSUME NEW ip \in PoolAddrs, Connect(ip)
      PROVE  ProxiedInv'
  BY <1>1, <1>2, <1>8 DEF Connect, GetByIP
<1>9. CASE clearExpiredNonProxyDomain /\ UNCHANGED queries
  <2>1. Unmarked'
    BY <1>9 DEF clearExpiredNonProxyDomain, ProxiedInv, Unmarked
  <2>. QED  BY <1>2, <1>9, <2>1
<1>10. ASSUME UNCHANGED <<nonProxy, queries>> PROVE ProxiedInv'
  BY <1>1, <1>2, <1>10
<1>11. CASE Pass \/ Sweep \/ UNCHANGED dnsVars
  BY <1>9, <1>10, <1>11 DEF Pass, Sweep, Tick, ReadTick, clearExpiredDomain,
     dnsVars, vars, tableVars
<1>. QED
  BY <1>3, <1>4, <1>5, <1>6, <1>7, <1>8, <1>11, GetGoesOn, SetGoesOn
     DEF DnsNext, Step

(* With an address for every domain in the pool, a domain that a pattern   *)
(* sends through a proxy is never marked as one that needs none, and no    *)
(* client is told its real address, whatever name servers answer and       *)
(* however many queries there are at a time (doIPv4Query, dns.go).         *)
THEOREM ProxiedNeverBypassed == DnsSpec => []NoBypass
<1>1. DnsInit => ProxiedInv
  BY DEF DnsInit, Init, InitTable, ProxiedInv, Unmarked
<1>2. CASE RoomForAll
  <2>1. DnsInv /\ DnsInv' /\ ProxiedInv /\ [DnsNext]_dnsVars => ProxiedInv'
    BY <1>2, StaysOnItsWay
  <2>2. DnsInv /\ ProxiedInv => NoBypass
    <3>. SUFFICES ASSUME DnsInv, ProxiedInv, NEW d \in Domains, Proxied(d),
                         NEW h \in Handlers, At(h, "reply"), queries[h].domain = d
                  PROVE  queries[h].ip # NoIP \/ Reject(d)
      BY DEF NoBypass, ProxiedInv, Unmarked, Proxied
    <3>. QED  BY AtIsQuery DEF ProxiedInv, OnItsWay, At, DnsInv
  <2>. QED  BY <1>1, <2>1, <2>2, DnsInvariance, PTL DEF DnsSpec
<1>3. CASE ~ RoomForAll
  <2>1. NoBypass
    BY <1>3 DEF NoBypass
  <2>. QED  BY <2>1, PTL
<1>. QED  BY <1>2, <1>3
=============================================================================
