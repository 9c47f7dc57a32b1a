----------------------------- MODULE MCAggregator -----------------------------
(* Small instances of Aggregator: a device and a sender that refers to it. *)
EXTENDS Aggregator

CONSTANTS dev, snd, d1, d2, bad, h1, h2, sA

ParentMC == [k \in Keys |-> IF k = dev THEN Node ELSE dev]
RankMC == [k \in Keys |-> IF k = dev THEN 1 ELSE 4]
OneStore == [h \in Hrefs |-> sA]
===============================================================================
