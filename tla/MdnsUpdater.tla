----------------------------- MODULE MdnsUpdater -----------------------------
(***************************************************************************)
(* The MDNSUpdater of nmoscommon/aggregator.py: it advertises the node by  *)
(* mDNS and, while peer-to-peer discovery is on, announces each change of  *)
(* the node's resources by a service version in the TXT record.            *)
(*                                                                         *)
(* The Aggregator's greenlets and the client queue TXT records; a greenlet *)
(* of its own, _modify_mdns, takes them from the queue and has the mDNS    *)
(* engine withdraw the service and, a second later, advertise it with the  *)
(* new record.                                                             *)
(***************************************************************************)
EXTENDS P2PCount, Sequences

CONSTANTS
  Types,        \* the types of resources that the client announces
  Services,     \* the keys of the service versions
  Mapping,      \* the service version that stands for each type
  MaxVersion,   \* 255
  Base,         \* the TXT record without service versions
  Withdrawn,    \* no record: the service is not advertised
  Failures,     \* what the mDNS engine may raise: "notfound", "error"
  MaxCalls      \* bound: calls of the client and the Aggregator

ASSUME UpdaterAssumption ==
  /\ Mapping \in [Types -> Services]
  /\ MaxVersion \in Nat \ {0} /\ MaxCalls \in Nat
  /\ {Base, Withdrawn} \cap [Services -> 0..MaxVersion] = {}
  /\ Failures \subseteq {"notfound", "error"}

VARIABLES
  p2p,        \* p2p_enable, p2p_enable_count
  versions,   \* service_versions
  updates,    \* _mdns_update_queue
  thread,     \* where _modify_mdns is
  txt,        \* the record it is having advertised
  published,  \* the record that is advertised
  failed,     \* the record last due was not advertised
  running,    \* _running
  calls       \* how many calls there have been

vars == <<p2p, versions, updates, thread, txt, published, failed, running, calls>>

Versions == [Services -> 0..MaxVersion]
Records == {Base} \cup Versions
-------------------------------------------------------------------------------
(* Calls.  P2P_enable and P2P_disable queue the record of the new mode.    *)
Called == calls < MaxCalls /\ calls' = calls + 1

QueueIfNone(record) ==                              \* mutant of the next
  updates' = IF updates = << >> THEN <<record>> ELSE updates
Queue(record) == updates' = Append(updates, record)

AlwaysSwitches(on) == TRUE                                \* mutant of the next
SwitchesTo(on) == p2p.enable # on

IncP2PEnableCount ==
  /\ Called
  /\ p2p' = IncCount(p2p)
  /\ IF p2p'.enable /\ ~p2p.enable THEN Queue(versions) ELSE UNCHANGED updates
  /\ UNCHANGED <<versions, thread, txt, published, failed, running>>

P2PEnable ==
  /\ Called
  /\ p2p' = [p2p EXCEPT !.enable = TRUE]
  /\ IF SwitchesTo(TRUE) THEN Queue(versions) ELSE UNCHANGED updates
  /\ UNCHANGED <<versions, thread, txt, published, failed, running>>

P2PDisable ==
  /\ Called
  /\ p2p' = Disable(p2p)
  /\ IF SwitchesTo(FALSE) THEN Queue(Base) ELSE UNCHANGED updates
  /\ UNCHANGED <<versions, thread, txt, published, failed, running>>

(* update_mdns: the version of the type's service goes up, from 255 to 0.  *)
NextVersionLate(v) == IF v > MaxVersion THEN 0 ELSE v + 1
                                                    \* mutant of the next
NextVersion(v) == IF v + 1 > MaxVersion THEN 0 ELSE v + 1

UpdateMdns(type) ==
  /\ Called
  /\ IF p2p.enable
       THEN /\ versions' = [versions EXCEPT ![Mapping[type]] = NextVersion(@)]
            /\ Queue(versions')
       ELSE UNCHANGED <<versions, updates>>
  /\ UNCHANGED <<p2p, thread, txt, published, failed, running>>

Stop ==
  /\ running /\ running' = FALSE
  /\ UNCHANGED <<p2p, versions, updates, thread, txt, published, failed, calls>>
-------------------------------------------------------------------------------
(* _modify_mdns. *)
HasUpdate == updates # << >>

ReadyForTwo == thread = "idle" /\ running /\ Len(updates) > 1
                                                    \* mutant of the next
Ready == thread = "idle" /\ running /\ HasUpdate

(* The engine finds the registration and withdraws it. *)
Withdraw ==
  /\ Ready
  /\ txt' = Head(updates) /\ updates' = Tail(updates)
  /\ published' = Withdrawn
  /\ thread' = "update"
  /\ UNCHANGED <<p2p, versions, failed, running, calls>>

(* It advertises the service again. *)
Advertise ==
  /\ thread = "update"
  /\ published' = txt
  /\ failed' = FALSE
  /\ thread' = "idle"
  /\ UNCHANGED <<p2p, versions, updates, txt, running, calls>>

(* It does not find the registration: the record is dropped. *)
NotFound ==
  /\ Ready /\ "notfound" \in Failures
  /\ updates' = Tail(updates)
  /\ failed' = TRUE
  /\ UNCHANGED <<p2p, versions, thread, txt, published, running, calls>>

(* Any other exception ends the greenlet: the engine failed to withdraw or *)
(* to advertise the service.                                               *)
Die ==
  /\ "error" \in Failures
  /\ \/ Ready /\ updates' = Tail(updates)
     \/ thread = "update" /\ UNCHANGED updates
  /\ failed' = TRUE
  /\ thread' = "dead"
  /\ UNCHANGED <<p2p, versions, txt, published, running, calls>>

End ==
  /\ thread = "idle" /\ ~running
  /\ thread' = "done"
  /\ UNCHANGED <<p2p, versions, updates, txt, published, failed, running, calls>>

(* The engine is closed once stop has joined the greenlet. *)
EngineClose ==
  /\ thread \in {"done", "dead"} /\ ~running
  /\ published # Withdrawn /\ published' = Withdrawn
  /\ failed' = TRUE
  /\ UNCHANGED <<p2p, versions, updates, thread, txt, running, calls>>
-------------------------------------------------------------------------------
(* The constructor has the service advertised without versions, whatever   *)
(* p2p_enable it is given: with peer-to-peer discovery on from the start   *)
(* that is not the record due.  It gets no word of a failure.              *)
Init ==
  /\ p2p \in InitSwitch
  /\ versions = [s \in Services |-> 0]
  /\ updates = << >>
  /\ thread = "idle" /\ txt = Base
  /\ \/ published = Base /\ failed = p2p.enable
     \/ "error" \in Failures /\ published = Withdrawn /\ failed = TRUE
  /\ running = TRUE
  /\ calls = 0

Call == \/ IncP2PEnableCount \/ P2PEnable \/ P2PDisable \/ Stop
        \/ \E type \in Types : UpdateMdns(type)

Modify == Withdraw \/ Advertise \/ NotFound \/ Die \/ End

Next == Call \/ Modify \/ EngineClose

(* The greenlet runs while it can; nobody need call. *)
Fairness == WF_vars(Modify)

Spec == Init /\ [][Next]_vars
FairSpec == Spec /\ Fairness
-------------------------------------------------------------------------------
TypeOK ==
  /\ p2p \in Switch
  /\ versions \in Versions
  /\ updates \in Seq(Records)
  /\ thread \in {"idle", "update", "dead", "done"}
  /\ txt \in Records
  /\ published \in Records \cup {Withdrawn}
  /\ failed \in BOOLEAN /\ running \in BOOLEAN
  /\ calls \in Nat

(* What peers should see: the versions while peer-to-peer discovery is on, *)
(* and the plain record while it is off.                                   *)
Expected == IF p2p.enable THEN versions ELSE Base

(* The record that will be advertised once the queue has been worked off. *)
Coming == CASE HasUpdate                         -> updates[Len(updates)]
            [] ~HasUpdate /\ thread = "update"   -> txt
            [] ~HasUpdate /\ thread # "update"   -> published

(* Whatever the order of the calls that switch the mode and those that     *)
(* announce changes, and however far the greenlet is behind, the last      *)
(* record it will advertise is the one that fits the mode and the versions *)
(* of now, unless the engine refused that very record, or p2p_enable was   *)
(* given as True and no record has been queued since the plain one of the  *)
(* constructor.                                                            *)
LatestWins == Coming = Expected \/ (failed /\ ~HasUpdate /\ thread # "update")

(* The records that peers see one after the other, one that was not due    *)
(* left out.                                                               *)
First == IF thread = "update" THEN <<txt>>
         ELSE IF failed THEN << >> ELSE <<published>>
Shown == First \o updates

(* No two records in succession are the same: each withdrawal of the       *)
(* service has something to tell, and each change of a resource shows as a *)
(* different record, the wrap of the version included.                     *)
Differ(s) == \A i \in 1..Len(s) - 1 : s[i] # s[i + 1]
EachTells == Differ(Shown)

(* Once the calls are over the record advertised is the expected one,      *)
(* unless the engine failed, the updater was stopped, or nothing has been  *)
(* queued since a constructor that was given p2p_enable as True.           *)
Settles == <>[](running => published = Expected \/ failed)
===============================================================================
