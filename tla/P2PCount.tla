------------------------------- MODULE P2PCount -------------------------------
(***************************************************************************)
(* The peer-to-peer switch of MDNSUpdater (aggregator.py): a flag and a    *)
(* count of registration failures.  The Aggregator's greenlets drive it,   *)
(* through inc_P2P_enable_count and P2P_disable; the MDNSUpdater reacts by *)
(* queueing TXT records.  The two modules share these definitions.         *)
(***************************************************************************)
EXTENDS Naturals

CONSTANT CutIn    \* p2p_cut_in_count

ASSUME CutInAssumption == CutIn \in Nat \ {0}

Switch == [enable : BOOLEAN, count : Nat]

(* p2p_enable is the constructor's argument, False by default. *)
InitSwitch == [enable : BOOLEAN, count : {0}]

(* inc_P2P_enable_count: failures count only while P2P is off; the one that *)
(* reaches the cut-in count switches it on.                                 *)
IncCount(p) ==
  IF p.enable THEN p
              ELSE [enable |-> p.count + 1 >= CutIn, count |-> p.count + 1]

(* P2P_disable resets the count whether or not P2P was on. *)
Disable(p) == [enable |-> FALSE, count |-> 0]
===============================================================================
