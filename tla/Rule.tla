-------------------------------- MODULE Rule --------------------------------
(***************************************************************************)
(* The rule that sorts names and addresses (k1/rule.go) by patterns of     *)
(* five schemes (k1/pattern.go), as a configuration that has been checked  *)
(* (checkRule, k1/config.go) loads it.  A name is the sequence of its      *)
(* labels in lower case; a keyword is whole labels here, and a range of    *)
(* addresses the set of them.  The rule stays as it was loaded.            *)
(***************************************************************************)
EXTENDS Naturals, Sequences, FiniteSetsExt

CONSTANTS
  Names,           \* the domain names that there are
  Addresses,       \* the real addresses
  Country,         \* address -> its country (GeoIP)
  NoProxy,         \* the empty proxy name: a direct connection
  ProxyHosts,      \* the host names of the configured proxies
  PatternConfigs,  \* the [pattern] sections: name -> [scheme, policy, proxy, vals]
  RuleConfig,      \* the names of patterns in the [rule] section, in its order
  Final            \* the proxy of what no pattern matches, or NoProxy

Policies == {"PROXY", "DIRECT", "REJECT"}
Schemes  == {"DOMAIN", "DOMAIN-SUFFIX", "DOMAIN-KEYWORD", "IP-COUNTRY", "IP-CIDR"}

(* checkRule, which ParseConfig asks for: a pattern may name a proxy       *)
(* whatever its policy is.                                                 *)
checkRule(proxies) ==
  /\ \A name \in DOMAIN PatternConfigs :
       /\ PatternConfigs[name].scheme \in Schemes
       /\ PatternConfigs[name].proxy \in proxies \cup {NoProxy}
  /\ RuleConfig \in Seq(DOMAIN PatternConfigs)
  /\ Final \in proxies \cup {NoProxy}

(* NewRule and NewProxies: the hosts go to the first pattern, which the    *)
(* configuration does not name.                                            *)
DirectDomain ==
  [scheme |-> "DOMAIN-SUFFIX", policy |-> "DIRECT", proxy |-> NoProxy,
   vals |-> ProxyHosts]

patterns ==
  [i \in 1 .. Len(RuleConfig) + 1 |->
     IF i = 1 THEN DirectDomain ELSE PatternConfigs[RuleConfig[i - 1]]]

(* A name in a message ends with a dot: after it there is an empty label.  *)
Dotted(name) == Append(name, "")

Suffixes(name) == {SubSeq(name, i, Len(name)) : i \in DOMAIN name}
Parts(name) == {SubSeq(name, i, j) : i, j \in DOMAIN name}

(* Pattern.Match of each scheme: a name is never matched as an address,    *)
(* nor an address as a name.                                               *)
IsName(val) == val \notin Addresses

DomainMatch(p, val)  == p.scheme = "DOMAIN" /\ IsName(val) /\ val \in p.vals

(* Mutation: only the whole name is looked for. *)
WholeMatch(p, val) == p.scheme = "DOMAIN-SUFFIX" /\ IsName(val) /\ val \in p.vals

SuffixMatch(p, val) ==
  p.scheme = "DOMAIN-SUFFIX" /\ IsName(val) /\ Suffixes(val) \cap p.vals # {}

KeywordMatch(p, val) ==
  p.scheme = "DOMAIN-KEYWORD" /\ IsName(val) /\ Parts(val) \cap p.vals # {}

CountryMatch(p, val) ==
  p.scheme = "IP-COUNTRY" /\ ~ IsName(val) /\ Country[val] \in p.vals

CIDRMatch(p, val) ==
  p.scheme = "IP-CIDR" /\ ~ IsName(val) /\ \E range \in p.vals : val \in range

Match(p, val) ==
  \/ DomainMatch(p, val) \/ SuffixMatch(p, val) \/ KeywordMatch(p, val)
  \/ CountryMatch(p, val) \/ CIDRMatch(p, val)

(* What the rule is asked about, and which patterns match it. *)
Values == Names \cup {Dotted(name) : name \in Names} \cup Addresses

matching == [val \in Values |-> {i \in DOMAIN patterns : Match(patterns[i], val)}]

(* Any pattern that matches and rejects will do, wherever it stands.       *)
Reject(val) == \E i \in matching[val] : patterns[i].policy = "REJECT"

(* The first pattern that matches gives its proxy. *)
Proxy(val) ==
  IF matching[val] = {} THEN [matched |-> FALSE, proxy |-> Final]
  ELSE [matched |-> TRUE, proxy |-> patterns[Min(matching[val])].proxy]
=============================================================================
