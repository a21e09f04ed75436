-------------------------------- MODULE Dns --------------------------------
(***************************************************************************)
(* The DNS server (k1/dns.go): each A query has a goroutine that decides   *)
(* between a fake address from DnsTable, the answer of a real name server  *)
(* and a failure.  It takes a lock of the table for one call at a time,    *)
(* so other queries, the relays and the sweep come between its calls.      *)
(* Queries of other types are passed on and touch nothing of this.         *)
(***************************************************************************)
EXTENDS DnsTable, Rule

CONSTANTS
  Handlers,  \* the goroutines that may be answering queries
  Answers,   \* the Answer sections that name servers return
  Failed     \* instead of an answer: the query failed

Item == [type : {"A"}, val : Addresses, ttl : AnswerTtls]
          \cup [type : {"CNAME", "other"}, val : Names, ttl : AnswerTtls]

(* Domain names are finitely many: a name in a message has 255 bytes.      *)
ASSUME DnsAssumption ==
  /\ NoProxy \notin Proxies
  /\ IsFiniteSet(Domains)
  /\ checkRule(Proxies)
  /\ Domains \cup ProxyHosts \subseteq Names /\ Names \cap Addresses = {}
  /\ Answers \subseteq Seq(Item)
  /\ Failed \notin Answers

VARIABLES
  queries,  \* handler -> the query it is at: its locals
  given     \* the fake answers of the last Ttl: [domain, ip, asked]

dnsVars == <<vars, queries, given>>
-----------------------------------------------------------------------------
(* The locals of doIPv4Query: asked is when it looked the domain up, proxy *)
(* what the rule says, msg the real answer, ip the fake one.               *)
NoQuery == [pc |-> "idle"]

DnsInit == /\ Init
           /\ queries = [h \in Handlers |-> NoQuery]
           /\ given = {}

Goto(h, q) == queries' = [queries EXCEPT ![h] = q]

At(h, pc) == queries[h].pc = pc

(* A query for d arrives; a rejected domain fails at once. *)
ServeDNS(h, d) ==
  /\ At(h, "idle")
  /\ Goto(h, [pc |-> IF Reject(d) THEN "reply" ELSE "nonproxy",
              domain |-> d, asked |-> 0, proxy |-> NoProxy,
              msg |-> Failed, ip |-> NoIP])
  /\ UNCHANGED <<vars, given>>

CheckNonProxy(h) ==
  /\ At(h, "nonproxy")
  /\ Goto(h, [queries[h] EXCEPT
       !.pc = IF IsNonProxyDomain(queries[h].domain) THEN "forward" ELSE "get"])
  /\ UNCHANGED <<vars, given>>

(* A hijacked domain is answered from its record; else the rule says if    *)
(* the name alone makes it one.                                            *)
Asked(q) == [q EXCEPT !.asked = now]

FromRecord(q) ==
  [Asked(q) EXCEPT !.pc = "reply", !.ip = records[q.domain].ip]

(* Mutation: the name is not matched. *)
ByNameIgnored(q) == [Asked(q) EXCEPT !.pc = "resolve"]

ByName(q) ==
  LET v == Proxy(q.domain)
  IN  [Asked(q) EXCEPT !.proxy = v.proxy,
         !.pc = IF v.matched /\ v.proxy # NoProxy THEN "set" ELSE "resolve"]

AfterGet(q) == IF q.domain \in Hijacked THEN FromRecord(q) ELSE ByName(q)

(* Mutation: the record is not touched. *)
GetRecordUntouched(h) ==
  /\ At(h, "get")
  /\ Goto(h, AfterGet(queries[h]))
  /\ UNCHANGED <<vars, given>>

GetRecord(h) ==
  /\ At(h, "get")
  /\ Get(queries[h].domain)
  /\ Goto(h, AfterGet(queries[h]))
  /\ UNCHANGED <<clockVars, given>>

(* DnsTable.Set, and what doIPv4Query does with its result: answer from    *)
(* the record, or go on to pc when the pool is used up.                    *)
Set(d, proxy) == SetKnown(d) \/ SetNew(d, proxy) \/ SetFull(d)

SetAndAnswer(h, pc) ==
  LET q == queries[h]
  IN  /\ Set(q.domain, q.proxy)
      /\ Goto(h, IF records'[q.domain] # NoRecord
                 THEN [q EXCEPT !.pc = "reply", !.ip = records'[q.domain].ip,
                                !.proxy = NoProxy, !.msg = Failed]
                 ELSE [q EXCEPT !.pc = pc])
      /\ UNCHANGED <<clockVars, given>>

SetByName(h) == At(h, "set") /\ SetAndAnswer(h, "resolve")
-----------------------------------------------------------------------------
(* The target of an alias is asked about as it stands in the message.      *)
ProxyOf(item) == Proxy(IF item.type = "CNAME" THEN Dotted(item.val) ELSE item.val)

(* The loop over the answer to a query that no pattern matched.  It stops  *)
(* at an address, or at an alias with a proxy, and goes by the last item   *)
(* it has asked the rule about.                                            *)
Stops(msg) ==
  {i \in DOMAIN msg :
     \/ msg[i].type = "A"
     \/ /\ msg[i].type = "CNAME"
        /\ ProxyOf(msg[i]).matched /\ ProxyOf(msg[i]).proxy # NoProxy}

ProxyByAnswer(msg) ==
  LET last  == IF Stops(msg) = {} THEN Len(msg) ELSE Min(Stops(msg))
      asked == {i \in 1 .. last : msg[i].type # "other"}
  IN  IF asked = {} THEN Final ELSE ProxyOf(msg[Max(asked)]).proxy

(* A name that a pattern matched is marked whatever the answer is: the     *)
(* pattern is direct, or the pool was used up.                             *)
ProxyFor(d, msg) == IF Proxy(d).matched THEN NoProxy ELSE ProxyByAnswer(msg)

(* resolve returns the answer of a name server, empty or not, or fails.    *)
Resolve(h) ==
  LET q == queries[h]
  IN  /\ At(h, "resolve")
      /\ \E msg \in Answers \cup {Failed} :
           IF msg \in {Failed, <<>>}
           THEN Goto(h, [q EXCEPT !.pc = "reply", !.msg = msg])
           ELSE LET proxy == ProxyFor(q.domain, msg)
                IN  Goto(h, [q EXCEPT
                      !.pc = IF proxy = NoProxy THEN "mark" ELSE "setip",
                      !.proxy = proxy, !.msg = msg])
      /\ UNCHANGED <<vars, given>>

SetByAnswer(h) == At(h, "setip") /\ SetAndAnswer(h, "mark")

(* Mutation: the mark takes the domain's record away. *)
MarkAndForget(h) ==
  LET q == queries[h]
  IN  /\ At(h, "mark")
      /\ nonProxy' = [nonProxy EXCEPT ![q.domain] = now + q.msg[1].ttl]
      /\ records' = [records EXCEPT ![q.domain] = NoRecord]
      /\ Goto(h, [q EXCEPT !.pc = "reply"])
      /\ UNCHANGED <<clockVars, flags, ip2Domain, given>>

(* The domain is marked for as long as the first item of the answer lives. *)
MarkNonProxy(h) ==
  LET q == queries[h]
  IN  /\ At(h, "mark")
      /\ SetNonProxyDomain(q.domain, q.msg[1].ttl)
      /\ Goto(h, [q EXCEPT !.pc = "reply"])
      /\ UNCHANGED <<clockVars, given>>

(* The query of a marked domain is passed on. *)
Forward(h) ==
  /\ At(h, "forward")
  /\ \E msg \in Answers \cup {Failed} :
       Goto(h, [queries[h] EXCEPT !.pc = "reply", !.msg = msg])
  /\ UNCHANGED <<vars, given>>

(* Mutation: every reply counts as a forged one. *)
ReplyForged(h) ==
  LET q == queries[h]
  IN  /\ At(h, "reply")
      /\ given' = given \cup
           {[domain |-> q.domain, ip |-> q.ip, asked |-> q.asked]}
      /\ Goto(h, NoQuery)
      /\ UNCHANGED vars

(* WriteMsg or HandleFailed.  The forged answer may be used for a Ttl.     *)
Reply(h) ==
  LET q == queries[h]
  IN  /\ At(h, "reply")
      /\ given' = IF q.ip = NoIP THEN given
                  ELSE given \cup
                    {[domain |-> q.domain, ip |-> q.ip, asked |-> q.asked]}
      /\ Goto(h, NoQuery)
      /\ UNCHANGED vars
-----------------------------------------------------------------------------
(* A relay looks up the fake address that a connection goes to. *)
Connect(ip) == GetByIP(ip) /\ UNCHANGED <<clockVars, queries, given>>

Alive(a) == now <= a.asked + Ttl

Pass == /\ Tick
        /\ given' = {a \in given : Alive(a)'}
        /\ UNCHANGED queries

Sweep ==
  /\ ReadTick \/ clearExpiredDomain \/ clearExpiredNonProxyDomain
  /\ UNCHANGED <<queries, given>>

Step(h) ==
  \/ CheckNonProxy(h) \/ GetRecord(h) \/ SetByName(h) \/ Resolve(h)
  \/ SetByAnswer(h) \/ MarkNonProxy(h) \/ Forward(h) \/ Reply(h)

DnsNext ==
  \/ \E h \in Handlers, d \in Domains : ServeDNS(h, d)
  \/ \E h \in Handlers : Step(h)
  \/ \E ip \in PoolAddrs : Connect(ip)
  \/ Pass
  \/ Sweep

DnsSpec == DnsInit /\ [][DnsNext]_dnsVars
-----------------------------------------------------------------------------
Query ==
  [pc : {"nonproxy", "get", "set", "resolve", "setip", "mark", "forward",
         "reply"},
   domain : Domains, asked : Nat, proxy : Proxies \cup {NoProxy},
   msg : Answers \cup {Failed}, ip : PoolAddrs \cup {NoIP}]

DnsTypeOK ==
  /\ TypeOK
  /\ queries \in [Handlers -> Query \cup {NoQuery}]
  /\ given \subseteq [domain : Domains, ip : PoolAddrs, asked : Nat]

(* A fake address that a client was given leads to the domain it asked for *)
(* until a Ttl after the query looked the domain up, whatever other        *)
(* queries, relays and sweeps did in between, and also when the query got  *)
(* its record from another one, which Set does not touch.                  *)
AnswersHold ==
  \A a \in given : Alive(a) =>
    /\ a.domain \in Hijacked
    /\ records[a.domain].ip = a.ip
    /\ ip2Domain[a.ip] = a.domain

(* A domain is hijacked only if the rule has a proxy for it: no sequence   *)
(* of answers hijacks a domain that is rejected, that a DIRECT pattern     *)
(* names, or that is the host of a proxy or below it ("don't hijack        *)
(* proxyDialer domain", proxies.go:54), which would send the proxy's own   *)
(* traffic to itself.                                                      *)
HijackedByRule ==
  \A d \in Hijacked :
    /\ ~ Reject(d)
    /\ Suffixes(d) \cap ProxyHosts = {}
    /\ Proxy(d).matched => records[d].proxy = Proxy(d).proxy

(* As long as the pool has an address for every domain, a domain that a    *)
(* pattern sends through a proxy is never marked as one that needs none,   *)
(* and no client is told its real address.                                 *)
RoomForAll == Cardinality({i \in Indices : AddrOf(i) # TunIP}) >=
              Cardinality(Domains)
NoBypass ==
  RoomForAll =>
    \A d \in Domains : Proxy(d).matched /\ Proxy(d).proxy # NoProxy =>
      /\ nonProxy[d] = Never
      /\ \A h \in Handlers : At(h, "reply") /\ queries[h].domain = d =>
           \/ queries[h].ip # NoIP
           \/ Reject(d)

(* Queries of any number of handlers leave the table as its own            *)
(* specification allows.                                                   *)
TableSpec == Spec
-----------------------------------------------------------------------------
(* "try match by cname and ip" (dns.go:153): the domain of a reply that    *)
(* passes a real answer on has no alias there that a pattern sends through *)
(* a proxy.                                                                *)
AliasesMatched ==
  \A h \in Handlers :
    At(h, "reply") /\ queries[h].ip = NoIP /\ queries[h].msg # Failed
      /\ ~ Proxy(queries[h].domain).matched =>
      \A i \in DOMAIN queries[h].msg :
        queries[h].msg[i].type = "CNAME" =>
          LET v == Proxy(queries[h].msg[i].val)
          IN  ~ (v.matched /\ v.proxy # NoProxy)
=============================================================================
