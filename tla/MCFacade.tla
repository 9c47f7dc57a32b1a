------------------------------- MODULE MCFacade -------------------------------
(* A client that keeps out of the re-registration, of which no call is     *)
(* lost, and one that does not.                                            *)
EXTENDS Facade
CONSTANTS r1, c1, v1, v2

WorldsMC == {[hasty |-> FALSE, faults |-> {"restart", "timeout"}, ops |-> 3],
             [hasty |-> TRUE, faults |-> {"restart", "timeout", "midway"}, ops |-> 2]}
===============================================================================
