--------------------------- MODULE MCQueryService -----------------------------
(* Two callers, or two query clients; services at the boundaries of the     *)
(* priorities, of which the first is of an older API version and has a      *)
(* link-local address, and one of the other protocol.                       *)
EXTENDS QueryService

CONSTANTS a, b, c, https, g1, g2, q1, q2, local

PriMC == [s \in Registries |-> CASE s = b -> 99 [] s = c -> 100 [] OTHER -> 0]
SuitsMC == [g \in Callers |-> IF g = g1 THEN {b, c, https} ELSE Registries]
===============================================================================
