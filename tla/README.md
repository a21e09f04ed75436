# Verification of KONE

KONE is a transparent proxy. It owns a tun device; it answers the DNS queries of
the network with fake addresses of the tun's subnet for the domains that its rule
sends through a proxy; packets to such an address come back to the tun, where a
NAT redirects them to a TCP or UDP relay of KONE itself, which finds out what
domain the fake address stood for and connects to it through the proxy.

The project models the program in TLA+, checks the models on small instances with
TLC and proves what matters most for every value of the constants with TLAPS. All
source paths are those of the repository (`src/k1/...` is written `k1/...`).

To check: `tlc -config <run>.cfg <module>.tla` for a run of the table below,
`tlapm <module>_proofs.tla` for the proofs.

## 1. Inventory

| component | state | operations | talks to |
|---|---|---|---|
| NAT, `k1/nat.go` | `next`, `h2Port`, `mapped` (the table), `sessions`, `lastCheck` | `allocSession` (sweep, `Map`, store session), `getSession` (and touch), `Unmap` | called by the tun goroutine through the relays' `Filter`; `getSession` also by every relay goroutine, **without a lock** |
| fake address pool, `k1/dns_ip_pool.go` | one flag per address | `NewDnsIPPool`, `Alloc` (hashed index, else first free), `Release`, `Contains` | the DNS table, under its lock; `Contains` by the relays |
| DNS table, `k1/dns_table.go` | `records`, `ip2Domain`, `nonProxyDomains`, two locks | `Get`, `GetByIP`, `Set`, `IsNonProxyDomain`, `SetNonProxyDomain`, sweep each minute (`Serve`) | DNS handlers, relays, its own goroutine; the manager reads it without the locks |
| DNS server, `k1/dns.go` | the locals of each query's goroutine | `ServeDNS`, `doIPv4Query`, `resolve`, `fillRealIP` | rule, DNS table, name servers |
| rule and patterns, `k1/rule.go`, `k1/pattern.go`, `k1/policy.go` | list of patterns, each with its values | `Reject`, `Proxy`, `DirectDomain`; `Add`/`Remove` of a pattern | DNS server; the manager's API edits it |
| proxies, `k1/proxies.go` | dialer per name, default | `NewProxies`, `Dial`, `DefaultDial` | relays; adds its hosts to the rule |
| TCP relay, `k1/tcp_relay.go` | a goroutine per connection and two per tunnel | `Filter`, `handleConn`, `realRemoteHost`, copy | NAT, DNS table, proxies, manager (`dataCh`) |
| UDP relay, `k1/udp_relay.go` | `tunnels` by client address, one lock | `Filter`, `handlePacket`, `grabTunnel`, `Pump`, `close` | NAT, DNS table, proxies |
| manager, `k1/manager.go`, `k1/login.go` | traffic per host, site and proxy | `consumeData`, pages, `/api/` | everything it shows, without locks |
| process, `k1/one.go`, `main.go` | | wiring; ends when a service ends | all |
| tun, filters, packets, `k1/tun.go`, `k1/filters.go`, `tcpip/` | one packet buffer | read a packet, filter by protocol, checksums | relays |
| configuration, `k1/config.go` | | parsing, `checkNat`, `checkRule`, ... | all |
| GeoIP, `geoip/` | generated table | look up the country of an address | patterns, manager |

What is hard here, and what makes each part correct:

* **Leases that must agree.** A lease of a NAT port is recorded in three places
  (`h2Port`, `mapped`, `sessions`), that of a fake address in three others
  (`records`, `ip2Domain`, pool flags). Any sequence of grants and sweeps must
  leave them equal, or a reply goes to another client, a connection to another
  site, or a port is lost.
* **Time.** A sweep works on what it read before: the NAT sweep compares
  `lastTouch` while relays touch the sessions, the DNS sweep goes by the time of a
  tick that may have waited in its channel. Nothing may be dropped early, and an
  answer that a client caches for its ttl must lead to its domain all that time.
* **Interleaving.** `doIPv4Query` makes up to four calls on the DNS table, each
  under its lock and none under one lock with the next.
* **Limits.** A pool that is used up, a port range that is, `uint16` sums that
  wrap, a subnet without hosts, a threshold below which nothing is swept.
* **Composition.** A connection depends on a fake address in the client's cache, a
  record in the table, a session in the NAT and a port, each with a life of its own,
  looked up one after the other by goroutines that share no lock.
* **Channels.** `resolve` races name servers against a ticker with a channel of
  one message; the relays hand their counts to the manager over channels without
  room.

`PROJECT.json` lists these as hazards with the lines where they bite.

## 2. The modules

| module | models | extends / instantiates |
|---|---|---|
| `Lease` | what a table of leases promises, be it of ports or addresses | |
| `NatTable` | `k1/nat.go` | refines `Lease` |
| `DnsIPPool` | `k1/dns_ip_pool.go`: geometry of the pool, choice of an address | |
| `DnsTable` | `k1/dns_table.go` | extends `DnsIPPool`, refines `Lease` |
| `Rule` | `k1/rule.go`, `Match` of the five schemes of `k1/pattern.go`, `checkRule` of `k1/config.go`, the direct pattern of `k1/proxies.go` | |
| `Dns` | `k1/dns.go` for A queries: many concurrent `doIPv4Query`, the relays' look-ups and the sweep | extends `DnsTable` and `Rule`; refines `DnsTable` |
| `Resolve` | one call of `Dns.resolve` | |
| `IPRanges` | the IP-CIDR pattern of `k1/pattern.go`, loaded and edited by the API | |
| `Packets` | `tcpip/`: checksums and the rewriting of packets | |
| `TCPPath` | a TCP connection through KONE: `Filter` and `realRemoteHost` of `k1/tcp_relay.go`, `k1/tun.go`, `k1/filters.go`, with the client, the NAT and the table of domains | extends `NatTable` and `Packets`, instantiates `DnsTable` |
| `UDPRelay` | `k1/udp_relay.go` over its NAT | extends `NatTable` |
| `TCPRelay` | `handleConn` and the copying of `k1/tcp_relay.go`, the accounting of `k1/manager.go` | |
| `MC_NatTable`, `MC_Dns`, `MC_TCPPath`, `MC_UDPRelay`, `MC_TCPRelay` | values of the constants for TLC | |
| `NatTable_proofs`, `DnsTable_proofs`, `Dns_proofs`, `Resolve_proofs`, `UDPRelay_proofs`, `TCPRelay_proofs`, `TCPPath_proofs`, `IPRanges_proofs` | theorems; those about `Packets` are in `TCPPath_proofs` | `Dns_proofs` extends `DnsTable_proofs`, `UDPRelay_proofs` and `TCPPath_proofs` extend `NatTable_proofs`, `TCPPath_proofs` instantiates `DnsTable_proofs` |

An operator whose comment begins with "Mutation" is a plausible bug of the
definition that follows it. No specification uses it; replacing the definition by
it makes the property that `PROJECT.json` names fail in the named run, which shows
that the property does depend on the code.

### NatTable

The variables are the fields of `NatTable` and `Nat`. `alloc` is the
`allocSession` call in progress: only the goroutine that reads the tun calls it, so
there is at most one, but relay goroutines call `getSession` at any time, so a call
is cut into steps. `AllocBegin` reads the clock and makes the comparisons of the
sweep; `ClearExpired` drops what was found too old and unmaps it; then either
`MapKnown`, or one `MapSkip` for each slot the search finds taken, and `MapNew`,
`MapFull` or `MapPanic`. The comparisons of the sweep come before its writes: in
the code each session is compared and dropped in turn, and since the accesses to
`lastTouch` are not synchronised a touch may fall between the two or not be seen at
all. The sessions' fields other than the touch are written by the tun goroutine
alone, so nothing is lost by dropping all expired sessions in one step.

`Slot` and the sums of the search are modulo 2^16, as in the code; a panic ends the
process, so no action is enabled after it. `handed` collects the source ports
written into redirected packets. A relay asks for the session of whatever peer its
socket has (`PeerPorts`), without a look at the peer's address: that is one of these
ports, or, for a program that reaches the socket without going through the tun, any
port that it is bound to (`DirectPorts`): one that is leased to another, one that is
free, or one outside of the range, where the look-up panics as it does for port 0.

### DnsIPPool and DnsTable

Addresses are numbers modulo `AddrSpace`; `SubnetIP`, `HostMask`, `TunIP` are the
subnet's. The adler32 checksum is the constant function `Checksum`. The pool's
flags are a variable of `DnsTable` because its lock protects them. Each operation
of the table runs under a lock from start to end and is one action. The clock and
the channel of `time.Tick` (one tick of room, further ones are lost) are modelled
because the sweep uses the time of the tick. `PoolAssumption` asks that the subnet
has room for a host besides the tun, which the configuration's check does not ensure:
with a /31 the pool is empty and `Alloc` divides by zero, with a /32 the space is 2^32-1,
cut to `MaxSpace`, and the pool hands out addresses outside of the subnet.

Not in the model: `Hits` and `RealIP`, which only the web pages show; the text of
the answer, of which the address and the ttl matter.

### Rule

`PatternConfigs` and `RuleConfig` are the sections of a configuration, `checkRule` what
`ParseConfig` asks of them (the assumption of `Dns`), `patterns` the rule that `NewRule`
makes, with the internal pattern that `NewProxies` fills in front. A name is the sequence
of its labels, in lower case since every scheme of names compares so: a suffix is what
is left after some dots, a keyword is abstracted to whole labels. A range of addresses is
the set of them (`IPRanges` has the array), and `Country` is the database. In a message a
name ends with a dot, which is one more, empty label (`Dotted`); `ServeDNS` trims it from the
query's own name. The rule stays as it was loaded.

### IPRanges

`vals` is the array of ranges; `config`, the values it was loaded from, is kept until
the first edit. `Search` is `sort.Search` as it runs, halves and all, since after an
edit the array is in no order. `Sortings` is what `sort.Sort` may leave: it is not
stable. `Remove` follows the loop of the code over an array it is cutting: `append`
moves the ranges up in place while `range` goes on over the places there were. An
edit and a search are one step each; the code has no lock here, and what a search
sees of a half-made edit is not modelled.

`ConfiguredMatch` says what a pattern as it is loaded matches: addresses of its
configuration only, and all those of each value that overlaps no other, whatever the
others do to each other. `checkRule` lets values overlap, and the conditions on the one value
are needed. `Add` tests the second address of a range and its last but one
for being there already, so of two values that overlap one may be lost, and so may
a single address next to another value; and a value that is there may lose addresses to a
narrower one listed after it, which is what `FirstListedMatches` (violated) is about.
After an edit an address of the pattern may go unmatched; what holds always is the other
direction, `NothingElseMatches`.
`RemovesOne` asks that no value is there twice, which a single address can be.

### Packets

A packet is a record of the fields that KONE reads or writes; the words it leaves
alone are there as their sums (`head` of the IP header, `rest` of the payload). `Byte`
is the number of values of a byte, 256 in the code; `Short` is that of the words the
checksums add up. `ChecksumOf` is the folding and complement of `Checksum`, `AddrSum`,
`PseudoSum`, `SegmentSum` and `HeaderSum` are the calls of `Sum`. `Rewritten` is what a
relay's `Filter` does with a packet, `EchoReply` what `icmpFilterFunc` does. `Verifies`
is the receiver: the whole packet, checksum included, sums up to nothing. UDP's
checksum is computed the same way, and so is not there again.

### TCPPath

The life of a connection, over the variables of `NatTable` and, as `D`, of `DnsTable`, with
one clock for both (`D`'s starts at 0). A client asks for a domain (`Lookup`: the `Get` or
`Set` of the query) and keeps the answer in its cache for its ttl (`answer`); it
connects to the address of the answer (`ConnectByName`) or to one it knows
(`ConnectByAddr`, for the clients of `Knowing`), and sends more (`Send`). Each of its packets is read by the tun goroutine,
whose `Filter` makes an `allocSession` in the steps of `NatTable` (`Allocating`), and goes to
the relay in a rewritten form (`Redirect`). The relay's system accepts the connection
and a goroutine looks for the session (`FindSession`) and then for the record of the
session's destination (`FindRecord`), which is `realRemoteHost`. Packets of the relay
come back through the tun (`Reply`), one at a time with the client's: `Filter` for them needs
that no allocation is under way, while the look-ups of the goroutines come at any time.
A connection that a program makes to the relay by itself is `DirectPeer`: its port is looked
up as any other, which touches the session and the record of somebody else, or panics.

`conn[c]` is the connection from the address `c`. Beside its state and its port it keeps
what the properties speak of: `want` (the domain or address the client is after), `due`
(when the answer it goes by is over), `until` (when its session may be swept: a
`SessionLife` after its last look-up), `live` (whether nothing came too late) and `host` and `proxy`,
which are what is dialled. `wire` is the packet the step has written to the tun, if any.
Left out: queries for domains without a proxy (`Dns` has them), and the look-ups of
queries for clients that have a connection; an echo request changes no state, so it is sent
only at the start; what is done with a dialled connection is `TCPRelay`'s.

`SessionKept` and `RoutedAsAsked` are what the code sees to, no more. A packet of a client
whose port is known does not touch the session, so a session that a new connection
finds may be swept before the relay has looked: `until` counts from the look-ups.
The relay goes by the session's destination, so `live` asks that it was the
connection's when it was accepted: a client that uses its port for another
destination gets to the first (see `nat_second_dest`).

### UDPRelay

The tun goroutine and the packets of clients are `NatTable`'s: `Redirecting` is an
`allocSession` under way, `Redirect` its end with the packet written back, `RelaySource`
the source it is given. `DirectPacket` is a packet that a program sends to the relay's socket
by itself (`DirectPeers`, with an address and a port of their own): its port is looked up all the
same, so it may get a tunnel to where another's session leads, or panic. `packets[h]` is the packet of the goroutine `h` of
`handlePacket`; it waits for the lock (`grab`) or dials (`dial`). `lock` is the handler
that dials: the other ways through `grabTunnel` run under the lock without waiting
for anything, so each is one action that needs the lock free. `tunnels` is the map;
`tunnel[t]` is a tunnel and its goroutine, in `Pump` or in `close`. Deadline and
destination are left out: `Pump` may return at any time, be it at the deadline, with
an error or with the answer of a name server, and a dial may end in any way or not at
all: no deadline is set before the tunnel is made (`k1/udp_relay.go:121-127`, 165). The
DNS table is there as the set `FakeIPs` of destinations whose record may be gone.
`crashed` is the end of the process by a nil pointer: the message about a missing
session reads its fields (`GrabNoSession`), and a failed SOCKS5 association is not
looked at (`RequestFails`; that the library returns no reply with an error is taken
from how it is used, its source is not in the repository).

### TCPRelay

`conn[c]` is where the `handleConn` of a connection is; `flow[c][w]` is one way of its
tunnel with the goroutine that copies it: what the end sends in all, what is written,
whether the relay still reads there (`open`) and whether it has told the other end that
nothing comes any more (`eof`). `ends[c][w]` is the client (`up`) or the host (`down`),
which may finish or vanish at any time. What `realRemoteHost` finds and whether the
dialer's connections can be closed by halves is the constant `Route`. `Copies` is a turn
of `io.Copy`, `CopyEnds` its return with what `copyAndClose` or `copy` do after it;
`Uploaded`, `Downloaded` and `Report` are the three channel operations in the order
`handleConn` makes them; `Return` runs the deferred calls, and closes connections that
are closed by halves already without effect. `manager` is `consumeData`, not yet started
by `Serve`, idle or booking a connection (`Book`), or there is none; `hosts`,
`websites` and `proxies` are its maps, where a record that is not there counts nothing.
The pages that read the maps meanwhile are not modelled.

A copy notices that the end it writes to is gone only when it has something to write.
So where connections cannot be closed by halves, a connection whose host has gone or
finished stays until the client says something or leaves: `ConnsEnd` does not claim more.

### Dns

`queries[h]` holds the locals of the `doIPv4Query` that handler `h` is at, `pc`
names the call it is about to make. `given` is a history variable: the forged
answers and when their query looked the domain up, kept as long as they may be used
(`Ttl` seconds). `ServeDNS` is the arrival of a query including the test for a
rejected domain; `CheckNonProxy`, `GetRecord`, `SetByName`, `Resolve`,
`SetByAnswer`, `MarkNonProxy` and `Forward` are the calls; `Reply` is the end.
`Resolve` and `Forward` choose any answer of the constant `Answers`, or a failure;
`Resolve.tla` says why a failure is honest. `Connect` is a relay that looks up an
address, `Sweep` the table's own goroutine.

Queries of other types are resolved and passed on and touch none of this state.
`fillRealIP` only sets `RealIP`.

### Resolve

`pc` and `asking` are the position of `resolve` in its loop, `q` that of the
goroutine of each name server, `msgCh` its channel. The `select` of the loop may
take the tick although a message is there.

## 3. The runs

| run | module | checks | instance |
|---|---|---|---|
| `nat` | `MC_NatTable` | types; `PortsUnique`, `MappedIffLeased`, `SessionOwnsPort`; `HandedInRange`, `PanicOnlyByWrap`; `NoEarlyExpiry`, `NeverHandedOver`; `RefinesLease` | 3 clients, 2 destinations, ports 65532..65534, time 1..5, sessions live 2; direct peers on port 7, which is outside of the range, and on 65534, which is in it: the table gets full, sums of the search wrap, a lease expires and its port is leased again, and a touch comes at each point of a sweep |
| `nat_second_dest` | `MC_NatTable` | `SessionDescribesCall`, violated | 2 clients, 2 destinations |
| `dns_answers` | `MC_Dns` | types; `MapsAgree`, `FlagsExact`, `FakeIPsAreHosts`, `AnswersHold`; `NoEarlyRelease`, `RecordsKeepTheirPlace`; `RefinesLease`, `TableSpec` | 2 handlers (symmetric), 2 domains with one checksum for 1 free address besides the tun's, two answers (an address to proxy, a direct one), time 0..2, `Ttl` 1, a tick each second: the pool runs out, an address passes from one domain to the other while a query is under way, a tick waits while a record is made |
| `dns_routes` | `MC_Dns` | `HijackedByRule`, `NoBypass` | 2 handlers, 4 domains (below a PROXY suffix, matched by nothing, below a proxy's host, refused by a keyword), a rule with patterns of all five schemes; answers: an alias below the suffix before a direct address, an alias with a keyword before an address to proxy by its country, none; room in the pool |
| `dns_alias` | `MC_Dns` | `AliasesMatched`, violated | an answer with an alias below a PROXY suffix |
| `resolve` | `Resolve` | types; `FailsOnlyWhenAllFail`; `Returns`, `NoGoroutineLeaks` | 3 name servers |
| `ipranges` | `IPRanges` | types; `NothingElseMatches`, `ConfiguredMatch`; `RemovesOne` | addresses of 3 bits, every list of up to 3 values as configuration, up to 4 ranges by edits: ranges of all four lengths, nested, adjacent and equal ones |
| `ipranges_nested` | `IPRanges` | `FirstListedMatches`, violated | as `ipranges` |
| `udp` | `MC_UDPRelay` | types; `TunnelsHavePumps`, `LockHeldToDial`; `EveryPacketHandled` | 2 clients for 1 port, so there are packets of port 0; 2 destinations, one fake; 2 packets and 2 tunnels at a time; time for a session to be swept while its packet waits; a direct peer on the port of the NAT |
| `tcp` | `MC_TCPRelay` | types; `NothingCut`, `BooksBalance`; `ConnsEnd` | 2 connections with one source and destination, one half-closed and one not; at most a byte each way, none from the second client; with a manager, started at any time, and without |
| `tcppath` | `MC_TCPPath` | types; `SessionKept`, `RoutedAsAsked`, `PacketsVerify` | 2 clients, one of them on the tun's own address, 1 port, so there are packets of port 0; 2 domains with one checksum for 1 free address, and 1 address that the other client knows; sessions live 2, answers 1, a tick each 2, time 1..3; bytes of 16 values, so that sums carry twice; a direct peer on the port of the NAT |
| `udp_no_session` | `MC_UDPRelay` | `NoSessionIsNoCrash`, violated | as `udp`, without direct peers |

**Bounds.** `MaxTime` stops the clock; everything that expires does so one to three
seconds after it began, so every order of touch, tick, sweep and reuse fits: in
`dns_answers` a record made at 0 is over at 2, and the tick of 1 may be read then. Two
handlers are enough for every pair of interleaved queries or packets; what they do to the
tables is proved for any number. The sweep's threshold (1000 records, or a tenth of
the pool) is 0 in pools this small; the proofs hold for every threshold. The word
of 2^16 is the real one but in `tcppath`, where ports do not wrap and sums do: there
it is 256. Times are in seconds and cover the code's `time.Time` and
Unix seconds alike.

**Deadlock** is checked in the runs of `Dns` and `IPRanges`; it is off in
those of `NatTable`, `TCPPath` and `UDPRelay`, where a panic ends the process and the clock stops,
in `tcp`, where every connection may be closed,
and in `resolve`, where a call returns.

**Fairness.** Safety runs assume none. `udp` assumes strong fairness of each packet's
goroutine that waits for the lock: Go's mutex is fair to whoever waits long, so a goroutine
for which the lock is free again and again gets it. Nothing is assumed of a dial: with the lock held
the relay connects to a proxy and reads its answer without a deadline, so a proxy
that stays silent stops all of UDP. `EveryPacketHandled` therefore has a hypothesis, `DialsEnd`: that
no dial lasts for ever is up to the proxies, and the property says that then nothing else
keeps a packet waiting. `tcp` assumes weak fairness of each goroutine and of the manager, and that an end
which is told that nothing more comes finishes what it sends itself; an idle end may stay
for ever. `resolve` assumes weak fairness of the caller, of each goroutine, whose
exchange ends with its timeouts at the latest, and of the ticker. No fairness is assumed
of the clock, the sweeps, the tunnels or the arrival of packets and queries.

## 4. What the violated runs show

* `nat_second_dest`: `TestNatAlloc` (`k1/nat_test.go:46-48`) asks of each call that the
  session of the port it got has the destination of the call. `allocSession` keeps
  the session of a client that has a port already, so the second destination of a
  socket (a UDP socket sends to several) gets the session, and the traffic, of the
  first. The test uses one destination per client.
* `dns_alias`: `doIPv4Query` means to "match by cname" (`k1/dns.go:153`), but asks the rule about
  the target with the dot it ends with in a message, and patterns with scheme DOMAIN or
  DOMAIN-SUFFIX list names without. Only keywords find an alias.
* `ipranges_nested`: `Add` means not to add what is there (`k1/pattern.go:413`), but looks for it
  by halves in an array that is sorted only when all values are in. A wide value that is listed
  first is not found for a narrower one inside it, which is added too; the sort goes
  by the last address, so the narrow one comes first and hides the addresses of the wide one
  before it. In the run the values 2, 0-1 and 1 leave address 0 unmatched. The example
  configuration has such values (`config.example.ini:6170-6173`): 149.154.160.0/20 and then three
  of its four quarters, so the first quarter, 149.154.160.0 to 149.154.163.255, matches nothing.
* `udp_no_session`: `k1/udp_relay.go:98-100` means to log that a packet has no session and
  to give the packet up. The message is made from the fields of the session that is
  nil, so the process ends. A packet comes to have none when it waits for the lock
  (a dial holds it) longer than its session lives, and a sweep comes by.

## 5. The proofs

Nothing is assumed beyond the named assumptions on constants in the modules. Of those,
`IsFiniteSet(Domains)` in `Dns` is there for a proof that counts; a name has 255 bytes at most.
Where a theorem needs more of a range or a configuration it says so in its `ASSUME`
or in the property.

Every safety invariant and action property that a passing run checks is also a theorem.
Three of the proofs go by induction over numbers or sets, which is stated of a set of
good numbers (`Induction`) or of sets (`SetInduction`) and proved by a smallest counterexample.

* `NatTable_proofs`. The inductive invariant `IInv` adds to the types that the keys of
  `h2Port` have different ports (`LeasesDisjoint`), `MappedIffLeased` and
  `SessionOwnsPort`, and that a sweep under way drops sessions that are there.
  `PortsUnique` is not inductive alone: `MapNew` looks at `mapped`, not at `h2Port`,
  and a sweep unmaps by what the sessions say. From it follow `PortsNeverShared`,
  `BitsAreLeases`, `TablesAgree`, `ConversationsStayApart` and `ImplementsPortLease`. `LoopInRange`
  (where the search and `next` may be) gives `HandedOutInRange` and
  `PanicsExplained`: the loop's index is within bounds unless a sum has wrapped. So
  `PanicsAreOutside`, which names every step that ends the process: a sum of the loop that wraps, or a
  look-up for port 0 or for a direct peer's port outside of the range. And `NoPanicInLoop`: in
  a range with `2*To - From - 2 < 2^16` no sum wraps, so the loop never panics; look-ups may. `NoPortLeftOut` is about the growing strides: iteration `i` looks at
  the slot a triangular number away from the first (`LookedAt`), and `SearchSoFar` says
  that all it has looked at are leased. Two iterations that look at one slot make
  `(i - j) * (i + j + 1)` a multiple of twice the size; one factor is odd, so if the size is
  a power of two the other is the multiple (`OddFactor`), and is too small for it
  (`SlotsDiffer`). So all slots are looked at, by the pigeonhole. `SweepJustified` gives `SessionsOutliveTheirLife`. `HashInjective`
  shows that `hashAddr` tells all clients apart.
* `DnsTable_proofs`. `IInv` is the types with `MapsAgree`, `FlagsExact`,
  `FakeIPsAreHosts` and `TimesInOrder`. `MapsAgree` needs `FlagsExact` since `Alloc`
  looks at the flags alone; `FlagsExact` needs that records hold addresses of the
  pool, since `Release` works by index. The lemmas on the pool (`PoolShape`,
  `AddrOfIndex`, `IndexOfAddr`, `AllocIsFree`) carry the arithmetic. `ReleasedInTime`
  needs that the tick the sweep goes by is not from the future.
* `Dns_proofs`. `HandlerInv` says what a handler knows at each call. The point is
  `Lasts`: a handler that found no record can only be told by `Set` of a record made
  after it looked, which therefore lives long enough, so it is right that `Set` does
  not touch the record it returns. `TableStep` shows that each step of `Dns` is one of
  `DnsTable` or leaves it alone, so `IInv` is inherited (`DnsImplementsTable`).
  `AnswersLead`, `RuleDecides` follow. `ProxiedNeverBypassed` counts: a `Set` that finds no
  record of its domain has an index left if the subnet has one for every domain, since by
  `MapsAgree` and `FlagsExact` the marked indices are those of other domains and of the tun
  (`RoomForOneMore`); so `Alloc` never fails, a domain of a proxy is never put among those
  without, and its query never goes on to a name server (`StaysOnItsWay`).
* `Resolve_proofs`. `NoAnswerLost`: until `resolve` returns, an answer that was sent is
  in the channel. So `NoFalseError` for any number of name servers.
* `TCPRelay_proofs`. `Goroutines` says where the copying goroutines are, given where
  `handleConn` is, and that one leaves its copying only when all is passed on or an end
  is gone (`Through`). With the types it is inductive, and `NoWayIsCut` follows for any
  number of connections and bytes. `BooksAgree` needs the types of the records alone
  (`AccumulateType`, `AccumulateDetails`). `BooksAreBalanced` is about sums over sets of
  connections. A sum is shown to be the number of bytes in a set, one for each connection and
  byte it has copied (`SumIsBytes`), so a connection that is booked adds the size of a disjoint
  set. `Balance` states each book in this way; `Booking` adds that the connection which the manager
  books is through with its copying, so that no byte comes after its books are closed.
* `TCPPath_proofs`, the part about `Packets`. For every size of a byte above 8 and every sum of two words
  `SumWithChecksum` says what sum and checksum make together, by the two cases of a
  carry, and so `ChecksumVerifies`. `ResetVerifies` carries this to a packet whose fields have their
  types, where the point is that its sums fit in two words: hence `RewrittenVerifies`, `EchoVerifies`.
* `TCPPath_proofs`, the path. `StepsOfNat` and `StepsOfTable`: each step of the path is a step of the
  NAT or leaves it alone, and likewise of the table. So `ImplementsNat` and `ImplementsTable`,
  and the invariants of both are at hand (`Joint`, with the types, and with
  `SweepJustified` of the NAT). The rest is about what links them.
  `SessionsKept` rests on `ConnKept`: as long as `now < until` the session was touched
  late enough and is not in the list of a sweep under way. A sweep lists only what was too old
  when it began (`SweepJustified`), and no touch is later than the clock (`TouchedBefore`);
  that the port which `allocSession` returns has a session of its caller is
  `OwnSession`, from the invariant of the NAT. `ConnectionsArrive` adds `AnswersGood` (the record
  of an answer in a cache is there, and stays until the answer is over), `RightProxies` (a
  record has the proxy of its domain) and `OnTheWay` (the same record serves the
  connection, and a connection whose session was found in time has the address it was made
  for). `RecordKept` carries them over a step: what somebody relies on is not swept, and with
  `MapsAgree` the address leads to no other domain.
* `UDPRelay_proofs`. `StepsOfNat`: each step of the relay is a step of the NAT or leaves
  it alone, so `ImplementsNat`, and everything proved of the NAT holds in the relay.
  `RelayInv` is `LockHeldToDial` and `TunnelsHavePumps` with `DialledIsNew`: the source a
  handler dials for has no tunnel. It is needed because `DialSucceeds` writes the map
  without a look; it holds because the lock was held since the look. So
  `LockOnlyToDial` and `TunnelsInOrder` for any number of goroutines and tunnels.

* `IPRanges_proofs`. `Search` and the folds behind `Init` and `Remove` are functions that call
  themselves. For each, a function that does so exists (`SearchExists`, `FoldExists`, by
  induction over intervals and over places), and what is said of it follows by another
  induction. `SearchFinds`: whatever the order, the range found ends at the address or later; in
  order, all before it end earlier. `ContainsIsIn` needs the first only, hence `NothingElse` after
  any edits; `InIsContained` needs both. `RangeShape` (a range lies within the addresses)
  needs the arithmetic of powers of two, which are counted as subsets (`PowerSum`).
  `ConfigMatches`: for a value that overlaps no other, `Add` finds neither of its two
  addresses (`NotYet`, where the sums wrap for the first and the last address), so it is in the
  array (`ApartTaken`) whatever became of those that do overlap, and a sort keeps it (`SortedValues`);
  in order, the search finds it. `RemovesOnlyOne`: before the place of
  the value and after it the loop changes nothing (`LoopSkips`), also in the places that it has
  moved; so it never gets to the cut that panics.

Model-checked only: the liveness properties (`EveryPacketHandled`, `ConnsEnd`, `Returns`,
`NoGoroutineLeaks`), which are beyond the prover, and that the properties of the four
violated runs are violated.

## 6. Not modelled

I/O and presentation (tun device, routes, sockets, web pages, login, templates,
logging), the reading of the configuration file (`checkRule` is modelled) and the third-party
proxy and DNS libraries. `geoip/geoip.go`, 117 984 generated lines or 97 % of the
implementation's, is the table of addresses by country; the constant `Country` stands for it, as
for the database that is looked up instead. A map of code to definitions can therefore
never reach a third of all lines; it covers more than a third of the others.

Left out with a reason:

* The pages and the API read and write the maps of the table and the lists of the patterns without
  the locks of their owners. What a reader of a half-written Go map sees is not
  defined (the runtime ends the process), so there is no step to model. `IPRanges` has
  the edits of the API that are not concurrent with a search.
* The API's edits of the other schemes: sets with an element more or less, save that a
  country is added in lower case and then not found; countries are values here, without case.
* Disagreements that no run shows. The example configuration has a REJECT pattern of addresses
  in its rule (`config.example.ini:6190-6191`, 6370), but `doIPv4Query` asks `Reject` about names only
  (`k1/dns.go:117`); for an address of an answer it asks `Proxy` (`k1/dns.go:159`), to which such a pattern is a match
  without a proxy, so the address is returned. `IPCIDRPattern.Add` does add a single address (`/32`) twice, since
  the addresses it looks for are the second and the last but one of the range; `RemovesOne` has the
  condition. And `checkGeneral` lets pass the subnets without hosts (see `DnsIPPool`).
* Two ways to stop the program that nothing in the code prevents and no text rules out: a direct
  peer with a port outside of the range ends the process (`k1/nat.go:88`, `PanicsAreOutside`), and a silent
  proxy holds the lock of the UDP tunnels for ever (`k1/udp_relay.go:121`, `DialsEnd`).
* The stride of the search for a port (`k1/nat.go:51`) leaves slots out unless the size of
  the range suits it; no text promises more. Sizes of a power of two do (`NoPortLeftOut`); of three
  ports it may miss a free one.

Next:

1. `fillRealIP` and the look-up of real addresses with the record's life, for the pages.
2. What is dialled joined to `TCPRelay`, so that a connection is followed from the query to the
   manager's books in one model; so far `Route` there is what `realRemoteHost` finds here.
3. Proofs: what exactly a value that overlaps another loses in `Add`, and which slots a search for a port
   leaves out in a range of any size.
