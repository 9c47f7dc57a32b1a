---------------------------- MODULE MCDnsDiscovery ----------------------------
(* A small instance of DnsDiscovery: a service whose records may change and *)
(* one that only comes and goes.                                           *)
EXTENDS DnsDiscovery

CONSTANTS n1, n2, v1, v2

SaysMC == [n \in Names |-> IF n = n1 THEN Values ELSE {v1}]
===============================================================================
