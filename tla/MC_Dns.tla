------------------------------- MODULE MC_Dns -------------------------------
(***************************************************************************)
(* Domains, answers and rules for the runs of Dns.                         *)
(***************************************************************************)
EXTENDS Dns, TLC

CONSTANTS
  far, near, \* real addresses: through a proxy by their country, direct
  banned,    \* a real address in a REJECT pattern
  pA, pB     \* the proxies

proxied == <<"www", "blocked">>     \* below a PROXY suffix
direct  == <<"home">>               \* a DIRECT domain
other   == <<"plain">>              \* no pattern matches it
host    == <<"eu", "proxy">>        \* the host of a proxy
server  == <<"n1", "eu", "proxy">>  \* below it
alias   == <<"cdn", "blocked">>     \* below the PROXY suffix
video   == <<"video", "net">>       \* with a PROXY keyword
refused == <<"ads", "blocked">>     \* with a REJECT keyword, below the suffix

MCNames     == {proxied, direct, other, host, server, alias, video, refused}
MCAddresses == {far, near, banned}
MCCountry   == [a \in MCAddresses |-> IF a = far THEN "X" ELSE "Y"]

MCChecksum == [d \in Domains |-> 5]

Pattern(scheme, policy, proxy, vals) ==
  [scheme |-> scheme, policy |-> policy, proxy |-> proxy, vals |-> vals]

MCPatterns ==
  [direct_domain  |-> Pattern("DOMAIN", "DIRECT", NoProxy, {direct}),
   proxy_suffix   |-> Pattern("DOMAIN-SUFFIX", "PROXY", pA, {<<"blocked">>, <<"proxy">>}),
   proxy_keyword  |-> Pattern("DOMAIN-KEYWORD", "PROXY", pA, {<<"video">>}),
   reject_keyword |-> Pattern("DOMAIN-KEYWORD", "REJECT", NoProxy, {<<"ads">>}),
   reject_ipcidr  |-> Pattern("IP-CIDR", "REJECT", NoProxy, {{banned}}),
   direct_ipcidr  |-> Pattern("IP-CIDR", "DIRECT", NoProxy, {{near}}),
   proxy_country  |-> Pattern("IP-COUNTRY", "PROXY", pB, {"X"})]

MCRule == <<"direct_domain", "proxy_suffix", "proxy_keyword", "reject_keyword",
            "reject_ipcidr", "direct_ipcidr", "proxy_country">>

MCHosts == {host}

ProxiedAndOther   == {proxied, other}
FourDomains       == {proxied, other, server, refused}
OtherOnly         == {other}

A(addr)      == [type |-> "A", val |-> addr, ttl |-> 1]
CNAME(name)  == [type |-> "CNAME", val |-> name, ttl |-> 1]
Other(name)  == [type |-> "other", val |-> name, ttl |-> 1]

HandlerSymmetry == Permutations(Handlers)

FarOrNear     == { <<A(far)>>, <<A(near)>> }
AliasAnswers  == { <<CNAME(alias), A(near)>> }
RouteAnswers  == { <<Other(other), CNAME(alias), A(near)>>,
                   <<CNAME(video), A(far)>>, <<>> }
=============================================================================
