------------------------------- MODULE MCEvdns -------------------------------
(* The resolver for TLC: two nameservers, a search and two plain queries,   *)
(* one of them made in the callback of the other.                          *)
EXTENDS Evdns, TLC

CONSTANTS n1, n2, u1, u2, u3, home, corp

Opt(n, v) == [name |-> n, val |-> v]
Line(k, a) == [kw |-> k, arg |-> a]

MCServer == {n1, n2}
MCUser == {u1, u2, u3}
MCDots == [u \in MCUser |-> 0]
MCOnReply == [u \in MCUser |-> IF u = u2 THEN u3 ELSE NULL]
Options(m) ==
    Line("options", <<Opt("max-inflight", m), Opt("attempts", 1),
                      Opt("max-timeouts", 1)>>)
Nameservers == <<Line("nameserver", n1), Line("nameserver", n2)>>
MCConfs ==
    {Nameservers \o <<Line("search", <<home>>), Options(1)>>,
     Nameservers \o <<Line("domain", home), Options(1)>>,
     Nameservers \o <<Options(2)>>}
=============================================================================
