----------------------------- MODULE MdnsBridge ------------------------------
(***************************************************************************)
(* The IppmDNSBridge of nmoscommon/mdnsbridge.py for one type of service:  *)
(* a cache of the services that the mDNS bridge process has found, from    *)
(* which getHref answers one after the other, so that a caller whose       *)
(* request failed is sent to another service.  Several greenlets may be in *)
(* getHref at a time: it waits for the bridge process when nothing cached  *)
(* will do (_updateServices), and goes on with the cache as it is then.    *)
(***************************************************************************)
EXTENDS Naturals, FiniteSets

CONSTANTS
  Callers,       \* the greenlets that call getHref
  Registries,    \* the services that may be on the network
  Pri,           \* the priority that each advertises
  Suits,         \* those of each caller's API version and protocol
  Mode,          \* those of the protocol that https_mode asks for
  Priorities,    \* what config["priority"] may be
  NoHref,        \* "", the answer when there is nothing
  LocalQuery,    \* the local query service; NoHref for other types
  MaxChanges, MaxDowns   \* bounds: changes of the network, failed requests

ASSUME BridgeAssumption ==
  /\ Pri \in [Registries -> Nat] /\ Priorities \subseteq Nat
  /\ Suits \in [Callers -> SUBSET Registries] /\ Mode \subseteq Registries
  /\ NoHref \notin Registries /\ LocalQuery \notin Registries
  /\ {MaxChanges, MaxDowns} \subseteq Nat

VARIABLES
  priority,    \* config["priority"]
  services,    \* services[srv_type], the cache
  pc,          \* each caller: "out" of getHref, or waiting in "fetch"
  answer,      \* what getHref has last answered to each
  found,       \* the services that the bridge process knows of
  tried,       \* the services answered since the cache was last filled
  changes, downs

vars == <<priority, services, pc, answer, found, tried, changes, downs>>
-------------------------------------------------------------------------------
(* A service that getHref looks for: one of exactly the priority set where *)
(* that is 100 or more, otherwise any of less than 100.                    *)
Wanted(s) == IF priority >= 100 THEN Pri[s] = priority ELSE Pri[s] < 100

Answerable(g, cache) == \E s \in cache \cap Suits[g] : Wanted(s)

(* Of ordinary services, those of the lowest number; current_priority      *)
(* starts at 99.                                                           *)
BestOfAny(g, cache) ==                                   \* mutants of the next
  {s \in cache \cap Suits[g] : \A o \in cache \cap Suits[g] : Pri[s] <= Pri[o]}
BestBelow99(g, cache) ==
  {s \in cache \cap Suits[g] :
     Pri[s] < 99 /\ \A o \in cache \cap Suits[g] : Pri[s] <= Pri[o]}
Best(g, cache) ==
  {s \in cache \cap Suits[g] :
     Pri[s] <= 99 /\ \A o \in cache \cap Suits[g] : Pri[s] <= Pri[o]}

Candidates(g, cache) ==
  IF priority >= 100 THEN {s \in cache \cap Suits[g] : Wanted(s)} ELSE Best(g, cache)

(* An ordinary service leaves the cache with the answer, a preferred one   *)
(* stays.                                                                  *)
KeepUsed(cache, s) == cache                           \* mutant of the next
DropUsed(cache, s) == IF priority >= 100 THEN cache ELSE cache \ {s}

(* The end of getHref, from a cache whose services in used were answered   *)
(* before.  Of several candidates the first in the list, or a random one.  *)
Choose(g, cache, used) ==
  /\ pc' = [pc EXCEPT ![g] = "out"]
  /\ \/ /\ Candidates(g, cache) = {}
        /\ \E href \in {NoHref, LocalQuery} : answer' = [answer EXCEPT ![g] = href]
        /\ services' = cache /\ tried' = used
     \/ \E s \in Candidates(g, cache) :
          /\ answer' = [answer EXCEPT ![g] = s]
          /\ services' = DropUsed(cache, s)
          /\ tried' = used \cup {s}

GetHref(g) ==
  /\ pc[g] = "out"
  /\ IF Answerable(g, services)
       THEN Choose(g, services, tried)
       ELSE /\ pc' = [pc EXCEPT ![g] = "fetch"]
            /\ UNCHANGED <<services, answer, tried>>
  /\ UNCHANGED <<priority, found, changes, downs>>

(* _updateServices replaces the cache by what the bridge process answers, *)
(* less the services of the other protocol.                               *)
RefilledFromAll(new) == new                           \* mutant of the next
Refilled(new) == new \cap Mode

Update(g) ==
  /\ pc[g] = "fetch"
  /\ Choose(g, Refilled(found), {})
  /\ UNCHANGED <<priority, found, changes, downs>>

(* The request to the bridge process fails, and the cache stays as it is;  *)
(* or its answer cannot be read, or not to the end, when the cache has     *)
(* been emptied for it.                                                    *)
UpdateFails(g) ==
  /\ pc[g] = "fetch"
  /\ downs < MaxDowns /\ downs' = downs + 1
  /\ \/ Choose(g, services, tried)
     \/ \E part \in SUBSET Refilled(found) : Choose(g, part, {})
  /\ UNCHANGED <<priority, found, changes>>

(* A service comes or goes. *)
Change(s) ==
  /\ changes < MaxChanges /\ changes' = changes + 1
  /\ found' = IF s \in found THEN found \ {s} ELSE found \cup {s}
  /\ UNCHANGED <<priority, services, pc, answer, tried, downs>>
-------------------------------------------------------------------------------
Init ==
  /\ priority \in Priorities
  /\ services = {}
  /\ pc = [g \in Callers |-> "out"]
  /\ answer = [g \in Callers |-> NoHref]
  /\ found \in SUBSET Registries
  /\ tried = {}
  /\ changes = 0 /\ downs = 0

Next == \/ \E g \in Callers : GetHref(g) \/ Update(g) \/ UpdateFails(g)
        \/ \E s \in Registries : Change(s)

(* Each caller asks again and again, as one whose requests keep failing,   *)
(* and a request to the bridge process comes to an end.                    *)
Fairness == \A g \in Callers : WF_vars(GetHref(g)) /\ WF_vars(Update(g))

Spec == Init /\ [][Next]_vars
FairSpec == Spec /\ Fairness
-------------------------------------------------------------------------------
(* The cache only ever holds services of the protocol in use. *)
TypeOK ==
  /\ priority \in Priorities
  /\ services \subseteq Mode /\ found \subseteq Registries
  /\ pc \in [Callers -> {"out", "fetch"}]
  /\ answer \in [Callers -> Registries \cup {NoHref, LocalQuery}]
  /\ tried \subseteq Registries
  /\ changes \in Nat /\ downs \in Nat

(* The answer is one that the configuration allows, at every boundary of   *)
(* the priorities: the version and protocol asked for, the protocol of the *)
(* mode, exactly the priority set if that is 100 or more and less than 100 *)
(* otherwise.                                                              *)
Allowed ==
  \A g \in Callers :
    answer[g] \in Registries =>
      answer[g] \in Suits[g] /\ answer[g] \in Mode /\ Wanted(answer[g])

(* A caller that fails over is not sent back: an ordinary service that has *)
(* been answered to either caller is not in the cache again until the      *)
(* bridge process has been asked again.                                    *)
NoneTwice == priority < 100 => services \cap tried = {}

(* A service that stays on the network is answered again and again: the    *)
(* others cannot keep a caller from reaching the one that works.           *)
EveryoneTried ==
  priority < 100 =>
    \A s \in Registries :
      s \in Mode /\ (\E g \in Callers : s \in Suits[g]) /\ Pri[s] < 100
        => (<>[](s \in found) => []<>(\E g \in Callers : answer[g] = s))

(* Services that have gone are not answered for ever.                      *)
Recovers ==
  priority < 100 =>
    <>[](\A g \in Callers : answer[g] \in Registries => answer[g] \in found)
===============================================================================
