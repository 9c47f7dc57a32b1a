----------------------------- MODULE MCPublisher ------------------------------
(* One service version that wraps after two increments.                     *)
EXTENDS Publisher

CONSTANTS dev

MappingMC == [t \in Types |-> dev]
===============================================================================
