---------------------------- MODULE MCMdnsUpdater -----------------------------
(* Two service versions that wrap after two increments.                     *)
EXTENDS MdnsUpdater

CONSTANTS dev, src

MappingMC == [t \in Types |-> IF t = "device" THEN dev ELSE src]
===============================================================================
