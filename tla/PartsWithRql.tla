----------------------------- MODULE PartsWithRql ----------------------------
(***************************************************************************)
(* Parts with one more: the translation of queries, which is a choice of a *)
(* query and of no step.  It is added here because RqlMongo is recursive,  *)
(* and Parts is proved about.                                              *)
(***************************************************************************)
EXTENDS Parts

CONSTANTS Fields, Numbers

VARIABLES query, style

rql == <<query, style>>
Rql == INSTANCE RqlMongo

vars == <<partsVars, rql>>
-------------------------------------------------------------------------------
NoQuery == query = None /\ style = None

Init == PartsInit /\ IF part = "rql" THEN Rql!Init ELSE NoQuery
Next == PartsNext /\ UNCHANGED rql
Spec == Init /\ [][Next]_vars /\ PartsFairness
-------------------------------------------------------------------------------
(* rql: the translation of a query selects what the query means.           *)
RqlMeans == part = "rql" => Rql!RqlMeans
===============================================================================
