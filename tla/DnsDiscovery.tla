----------------------------- MODULE DnsDiscovery -----------------------------
(***************************************************************************)
(* Discovery of the services of one type by DNS: DNSServiceController,     *)
(* DNSService and DNSListener of nmoscommon/mdns.                          *)
(*                                                                         *)
(* A timer of the controller looks the pointer records up and starts to    *)
(* watch each service that is new; a timer of each service looks its       *)
(* records up again once per TTL, and announces it again or drops it.      *)
(* Each timer calls back in a thread of its own, so that callbacks and the *)
(* client's close interleave wherever they wait for DNS or the client.     *)
(* A TTL is taken to be longer than a call of the client.                  *)
(***************************************************************************)
EXTENDS FiniteSets, Integers

CONSTANTS
  Names,        \* the names of the services
  Values,       \* what the records of the services may say,
  Says,         \*   and those of each
  None,         \* no record, or nothing told
  Confused,     \* told of a service twice over
  Errors,       \* TRUE: lookups may fail otherwise than by NXDOMAIN
  MaxChanges    \* bound: changes of the zone

ASSUME DnsAssumption ==
  /\ {None, Confused} \cap Values = {} /\ None # Confused
  /\ Says \in [Names -> SUBSET Values]
  /\ Errors \in BOOLEAN /\ MaxChanges \in Nat

VARIABLES
  registerOnly, \* the client wants no removals
  zone,         \* each service's records in the DNS
  active,       \* the domain has the pointer record of DNS-SD
  changes,      \* how often the zone has changed
  poll,         \* the controller's timer and its callback
  pointers,     \* the pointer records the callback has yet to look at
  looked,       \* the one it has looked up, and what it found; or None
  services,     \* the controller's table: the names in it
  record,       \* what each service last found
  timer,        \* each service's timer and its callback
  closing,      \* where the client's close is
  table, left,  \* the services when it began, and those it has yet to close
  atRest,       \* the services that were at rest when they were closed
  told          \* what the client has been told of each service

net == <<zone, active, changes>>
shut == <<closing, table, left, atRest>>
polled == <<poll, pointers, looked>>
vars == <<registerOnly, net, polled, services, record, timer, shut, told>>

Listed == {n \in Names : zone[n] # None}
Fails == Errors
-------------------------------------------------------------------------------
(* DNSListener: the client is told of a service, or that it has gone.      *)
TellAdd(n, v) ==
  told' = [told EXCEPT ![n] = IF registerOnly \/ @ = None THEN v ELSE Confused]
TellRemove(n) ==
  told' = IF registerOnly THEN told
          ELSE [told EXCEPT ![n] = IF @ \in Values THEN None ELSE Confused]

(* The zone's owner. *)
Change ==
  /\ changes < MaxChanges /\ changes' = changes + 1
  /\ \/ \E n \in Names : \E v \in Says[n] \cup {None} :
          zone' = [zone EXCEPT ![n] = v] /\ UNCHANGED active
     \/ active' = ~active /\ UNCHANGED zone
  /\ UNCHANGED <<registerOnly, polled, services, record, timer, shut, told>>
-------------------------------------------------------------------------------
(* The controller: _checkForServiceUpdatesCallback.                        *)
Check ==
  /\ poll = "armed"
  /\ \/ poll' = "found" /\ pointers' = IF active THEN Listed ELSE {}
     \/ Fails /\ poll' = "dead" /\ UNCHANGED pointers
  /\ UNCHANGED <<registerOnly, net, looked, services, record, timer, shut, told>>

IsOld(n) == FALSE                                       \* mutant of the next
IsNew(n) == n \notin services

(* The records of a pointer are looked up whether the service is new or    *)
(* not; a lookup that fails, NXDOMAIN included, ends the callback and with *)
(* it all polling.                                                         *)
Visit(n) ==
  /\ poll = "found" /\ n \in pointers /\ looked = None
  /\ \/ /\ zone[n] # None
        /\ looked' = [name |-> n, data |-> zone[n]]
        /\ pointers' = pointers \ {n}
        /\ UNCHANGED poll
     \/ /\ zone[n] = None \/ Fails
        /\ poll' = "dead" /\ pointers' = {}
        /\ UNCHANGED looked
  /\ UNCHANGED <<registerOnly, net, services, record, timer, shut, told>>

(* The table is asked once the lookups have come back. *)
Enter ==
  /\ looked # None /\ looked' = None
  /\ LET n == looked.name IN
       IF IsNew(n)
         THEN /\ services' = services \cup {n}
              /\ record' = [record EXCEPT ![n] = looked.data]
              /\ timer' = [timer EXCEPT ![n] = "armed"]
              /\ TellAdd(n, looked.data)
         ELSE UNCHANGED <<services, record, timer, told>>
  /\ UNCHANGED <<registerOnly, net, poll, pointers, shut>>

(* The interval is the least of the services' TTLs: the iteration over the *)
(* table raises when a service is popped from it meanwhile.                *)
Schedule ==
  /\ poll = "found" /\ pointers = {} /\ looked = None
  /\ \/ poll' = "armed"
     \/ (\E n \in services : timer[n] = "gone") /\ poll' = "dead"
  /\ UNCHANGED <<registerOnly, net, pointers, looked, services, record, timer, shut, told>>

Poll == Check \/ (\E n \in Names : Visit(n)) \/ Enter \/ Schedule
-------------------------------------------------------------------------------
(* A service: _ttlTimerCallback.                                           *)
Expire(n) ==
  /\ timer[n] = "armed"
  /\ timer' = [timer EXCEPT ![n] = "looking"]
  /\ UNCHANGED <<registerOnly, net, polled, services, record, shut, told>>

Forget(n) == UNCHANGED told                             \* mutant of the next
Withdraw(n) == TellRemove(n)

(* Found, it is removed and will be announced again; NXDOMAIN has the      *)
(* controller close it; any other failure, that of gethostbyname included, *)
(* ends the watch.  What one that fails has read until then is not in      *)
(* record: nothing is announced of it.                                     *)
LookUp(n) ==
  /\ timer[n] = "looking"
  /\ \/ /\ zone[n] # None
        /\ record' = [record EXCEPT ![n] = zone[n]]
        /\ TellRemove(n)
        /\ timer' = [timer EXCEPT ![n] = "again"]
     \/ /\ zone[n] = None
        /\ Withdraw(n)
        /\ timer' = [timer EXCEPT ![n] = "gone"]
        /\ UNCHANGED record
     \/ /\ Fails
        /\ timer' = [timer EXCEPT ![n] = "dead"]
        /\ UNCHANGED <<record, told>>
  /\ UNCHANGED <<registerOnly, net, polled, services, shut>>

Announce(n) ==
  /\ timer[n] = "again"
  /\ TellAdd(n, record[n])
  /\ timer' = [timer EXCEPT ![n] = "armed"]
  /\ UNCHANGED <<registerOnly, net, polled, services, record, shut>>

Pop(n) ==
  /\ timer[n] = "gone"
  /\ services' = services \ {n}
  /\ record' = [record EXCEPT ![n] = None]
  /\ timer' = [timer EXCEPT ![n] = "off"]
  /\ UNCHANGED <<registerOnly, net, polled, shut, told>>

Watch(n) == Expire(n) \/ LookUp(n) \/ Announce(n) \/ Pop(n)
-------------------------------------------------------------------------------
(* The client's close. *)
Close ==
  /\ closing = "no" /\ closing' = "closing"
  /\ table' = services /\ left' = services
  /\ UNCHANGED <<registerOnly, net, polled, services, record, timer, atRest, told>>

(* cancel stops a timer that has not yet called back.                      *)
KeepsTimer(state) == state                              \* mutant of the next
Cancelled(state) == IF state = "armed" THEN "off" ELSE state

CloseService(n) ==
  /\ closing = "closing" /\ n \in left
  /\ left' = left \ {n}
  /\ TellRemove(n)
  /\ timer' = [timer EXCEPT ![n] = Cancelled(@)]
  /\ atRest' = IF timer[n] \in {"armed", "dead"} THEN atRest \cup {n} ELSE atRest
  /\ UNCHANGED <<registerOnly, net, polled, services, record, closing, table>>

(* The iteration over the table may raise when its size has changed; close *)
(* then goes no further.  Otherwise the controller's timer is cancelled.   *)
Unknown == Names \ (services \cup table)
CloseEnds ==
  /\ closing = "closing"
  /\ \/ /\ left = {}
        /\ closing' = "done" /\ poll' = Cancelled(poll)
        /\ atRest' = IF poll = "found" THEN atRest ELSE atRest \cup Unknown
     \/ /\ Cardinality(services) # Cardinality(table)
        /\ closing' = "failed" /\ UNCHANGED <<poll, atRest>>
  /\ UNCHANGED <<registerOnly, net, pointers, looked, services, record, timer, table,
                 left, told>>

CloseAll == Close \/ (\E n \in Names : CloseService(n)) \/ CloseEnds
-------------------------------------------------------------------------------
(* start arms the controller's timer. *)
Init ==
  /\ registerOnly \in BOOLEAN
  /\ zone \in [Names -> Values \cup {None}] /\ active \in BOOLEAN
  /\ \A n \in Names : zone[n] \in Says[n] \cup {None}
  /\ changes = 0
  /\ poll = "armed" /\ pointers = {} /\ looked = None
  /\ services = {} /\ record = [n \in Names |-> None]
  /\ timer = [n \in Names |-> "off"]
  /\ closing = "no" /\ table = {} /\ left = {} /\ atRest = {}
  /\ told = [n \in Names |-> None]

Next == Change \/ Poll \/ (\E n \in Names : Watch(n)) \/ CloseAll

(* Each thread runs while it can; nobody need close.                       *)
Fairness == WF_vars(Poll) /\ \A n \in Names : WF_vars(Watch(n))

Spec == Init /\ [][Next]_vars
FairSpec == Spec /\ Fairness
-------------------------------------------------------------------------------
TypeOK ==
  /\ registerOnly \in BOOLEAN /\ active \in BOOLEAN /\ atRest \subseteq Names
  /\ zone \in [Names -> Values \cup {None}] /\ changes \in 0..MaxChanges
  /\ poll \in {"armed", "found", "dead", "off"} /\ pointers \subseteq Names
  /\ looked \in {None} \cup [name : Names, data : Values]
  /\ looked # None => poll = "found"
  /\ services \subseteq Names /\ table \subseteq Names /\ left \subseteq table
  /\ record \in [Names -> Values \cup {None}]
  /\ timer \in [Names -> {"armed", "looking", "again", "gone", "dead", "off"}]
  /\ closing \in {"no", "closing", "done", "failed"}
  /\ told \in [Names -> Values \cup {None, Confused}]

(* What the client was last told of a service is what the controller's     *)
(* table holds of it, whatever the lookups of the two kinds of timers      *)
(* found and however they interleave; in particular it is never told of a  *)
(* service twice, nor of the end of one it does not know.                  *)
TableTells ==
  closing = "no" =>
    \A n \in Names :
      CASE n \notin services            -> registerOnly \/ told[n] = None
        [] n \in services /\ timer[n] \in {"again", "gone"}
                                        -> registerOnly \/ told[n] = None
        [] OTHER                        -> told[n] = record[n]

(* Of a service that was at rest when it was closed, no callback of its    *)
(* own being under way, the client is told that it has gone, once, and     *)
(* hears nothing more, whatever the lookups of the other services and of   *)
(* the poll do meanwhile; and nothing of one that it did not know when     *)
(* close returned, unless the poll was under way.                          *)
Silent ==
  /\ [][\A n \in atRest : told'[n] = told[n]]_vars
  /\ [](~registerOnly => \A n \in atRest : told[n] = None)

(* Whatever stays in the zone is told to the client again and again, with  *)
(* the records it has now: unless a lookup of its own failed, or the poll  *)
(* of the controller died before it found the service.  Whatever has gone  *)
(* from the zone for good is in the end removed, unless its watch died: it *)
(* does not linger with the client.                                        *)
Lost(n) ==
  \/ closing # "no" \/ timer[n] = "dead"
  \/ n \notin services /\ poll = "dead"
Follows ==
  \A n \in Names :
    /\ \A v \in Values :
         <>[](active /\ zone[n] = v) => []<>(told[n] = v \/ Lost(n))
    /\ <>[](zone[n] = None) =>
         <>[](told[n] = None \/ registerOnly \/ closing # "no" \/ timer[n] = "dead")
===============================================================================
