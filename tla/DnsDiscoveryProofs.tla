--------------------------- MODULE DnsDiscoveryProofs ---------------------------
(***************************************************************************)
(* What is proved of DnsDiscovery, for any services and records: its types, *)
(* that the client was told what the controller's table holds, and that a  *)
(* service that was closed at rest is heard of no more.                    *)
(*                                                                         *)
(* The argument: until the client's close comes to it, a service is in the *)
(* table just when it has a timer, so that only the poll adds it, and only *)
(* where the client has been told of none; from then on its own timer      *)
(* alone tells the client of it, and takes it from the table after telling *)
(* so.  A service closed at rest keeps its place in the table, which keeps *)
(* the poll from finding it anew, and has no timer any more.               *)
(***************************************************************************)
EXTENDS DnsDiscovery, TLAPS

Timers == {"armed", "looking", "again", "gone", "dead", "off"}

(* What the client was told of one service. *)
Tells(n) ==
  CASE n \notin services            -> registerOnly \/ told[n] = None
    [] n \in services /\ timer[n] \in {"again", "gone"}
                                    -> registerOnly \/ told[n] = None
    [] OTHER                        -> told[n] = record[n]

(* What holds of a service that close has not come to. *)
Fine(n) ==
  /\ n \in services <=> timer[n] # "off"
  /\ n \in services => record[n] \in Values
  /\ Tells(n)

(* What holds of one that was closed at rest. *)
Parted(n) ==
  /\ closing # "no" /\ n \notin left
  /\ timer[n] \in {"dead", "off"}
  /\ registerOnly \/ told[n] = None
  /\ n \in services \/ (closing = "done" /\ poll \in {"dead", "off"})

Begun == closing = "no" => table = {} /\ atRest = {}

IInv ==
  /\ TypeOK /\ Begun
  /\ \A n \in Names : n \notin table \ left => Fine(n)
  /\ \A n \in atRest : Parted(n)
-------------------------------------------------------------------------------
(* TypeOK without what only the zone and the close concern. *)
Types ==
  /\ registerOnly \in BOOLEAN /\ zone \in [Names -> Values \cup {None}]
  /\ services \subseteq Names
  /\ record \in [Names -> Values \cup {None}] /\ timer \in [Names -> Timers]
  /\ told \in [Names -> Values \cup {None, Confused}]
  /\ looked # None => looked.name \in Names /\ looked.data \in Values

(* The typing that the lemmas below need. *)
LEMMA TypesOf == TypeOK => Types
BY DEF TypeOK, Types, Timers

(* Telling keeps the types, and concerns one service. *)
LEMMA TellAddIs ==
  ASSUME Types, NEW n \in Names, NEW v \in Values, TellAdd(n, v)
  PROVE  /\ told' \in [Names -> Values \cup {None, Confused}]
         /\ \A m \in Names \ {n} : told'[m] = told[m]
         /\ registerOnly \/ told[n] = None => told'[n] = v
BY DEF TellAdd, Types

(* Telling that a service went concerns that service only. *)
LEMMA TellRemoveIs ==
  ASSUME Types, NEW n \in Names, TellRemove(n)
  PROVE  /\ told' \in [Names -> Values \cup {None, Confused}]
         /\ \A m \in Names \ {n} : told'[m] = told[m]
         /\ told[n] \in Values => registerOnly \/ told'[n] = None
BY DEF TellRemove, Types

(* Nobody has been told of anything. *)
LEMMA InitInv == Init => IInv
<1>1. Init => TypeOK
  BY DnsAssumption DEF Init, TypeOK
<1> QED BY <1>1 DEF Init, IInv, Begun, Fine, Tells
-------------------------------------------------------------------------------
(* Timers, cancelled or not, are timers. *)
LEMMA CancelledIs ==
  ASSUME NEW state \in Timers
  PROVE  Cancelled(state) \in Timers
BY DEF Cancelled, Timers

(* The types of the steps, by who takes them. *)
LEMMA TypeKept == TypeOK /\ [Next]_vars => TypeOK'
<1> SUFFICES ASSUME TypeOK, [Next]_vars PROVE TypeOK'
  OBVIOUS
<1> USE DnsAssumption
<1>1. Types
  BY TypesOf
<1>2. CASE Change
  <2>1. zone' \in [Names -> Values \cup {None}] /\ active' \in BOOLEAN
    BY <1>2 DEF Change, TypeOK
  <2>2. changes' \in 0..MaxChanges
    BY <1>2 DEF Change, TypeOK
  <2> QED BY <1>2, <2>1, <2>2 DEF Change, TypeOK, shut, polled
<1>3. CASE Poll
  <2>1. CASE Check
    BY <2>1 DEF Check, TypeOK, net, shut, Listed
  <2>2. ASSUME NEW n \in Names, Visit(n) PROVE TypeOK'
    <3>1. zone[n] # None => [name |-> n, data |-> zone[n]] \in [name : Names, data : Values]
      BY <1>1 DEF Types
    <3> QED BY <2>2, <3>1 DEF Visit, TypeOK, net, shut
  <2>3. CASE Enter
    <3>1. looked # None /\ looked.name \in Names /\ looked.data \in Values
      BY <1>1, <2>3 DEF Enter, Types
    <3> DEFINE n == looked.name
    <3>2. told' \in [Names -> Values \cup {None, Confused}]
      <4>1. CASE UNCHANGED told
        BY <1>1, <4>1 DEF Types
      <4>2. CASE TellAdd(n, looked.data)
        BY <1>1, <3>1, <4>2, TellAddIs DEF Types
      <4> QED BY <2>3, <4>1, <4>2 DEF Enter
    <3>3. /\ services' \subseteq Names /\ timer' \in [Names -> Timers]
          /\ record' \in [Names -> Values \cup {None}]
      BY <1>1, <2>3, <3>1 DEF Enter, Types, Timers
    <3> QED BY <2>3, <3>2, <3>3 DEF Enter, TypeOK, net, shut, Timers
  <2>4. CASE Schedule
    BY <2>4 DEF Schedule, TypeOK, net, shut
  <2> QED BY <1>3, <2>1, <2>2, <2>3, <2>4 DEF Poll
<1>4. ASSUME NEW n \in Names, Watch(n) PROVE TypeOK'
  <2>1. CASE Expire(n)
    BY <2>1 DEF Expire, TypeOK, net, shut, polled
  <2>2. CASE LookUp(n)
    <3>1. told' \in [Names -> Values \cup {None, Confused}]
      <4>1. CASE UNCHANGED told
        BY <1>1, <4>1 DEF Types
      <4>2. CASE TellRemove(n)
        BY <1>1, <4>2, TellRemoveIs
      <4> QED BY <2>2, <4>1, <4>2 DEF LookUp, Withdraw
    <3> QED BY <2>2, <3>1 DEF LookUp, TypeOK, net, shut, polled
  <2>3. CASE Announce(n)
    <3>1. told' \in [Names -> Values \cup {None, Confused}]
      BY <1>1, <2>3 DEF Announce, TellAdd, Types
    <3> QED BY <2>3, <3>1 DEF Announce, TypeOK, net, shut, polled
  <2>4. CASE Pop(n)
    BY <2>4 DEF Pop, TypeOK, net, shut, polled
  <2> QED BY <1>4, <2>1, <2>2, <2>3, <2>4 DEF Watch
<1>5. CASE CloseAll
  <2>1. CASE Close
    BY <2>1 DEF Close, TypeOK, net, polled
  <2>2. ASSUME NEW n \in Names, CloseService(n) PROVE TypeOK'
    <3>1. told' \in [Names -> Values \cup {None, Confused}]
      BY <1>1, <2>2, TellRemoveIs DEF CloseService
    <3>2. timer' \in [Names -> Timers]
      BY <1>1, <2>2, CancelledIs DEF CloseService, Types
    <3> QED BY <2>2, <3>1, <3>2 DEF CloseService, TypeOK, net, polled, Timers
  <2>3. CASE CloseEnds
    BY <2>3 DEF CloseEnds, Unknown, Cancelled, TypeOK, net
  <2> QED BY <1>5, <2>1, <2>2, <2>3 DEF CloseAll
<1>6. CASE UNCHANGED vars
  BY <1>6 DEF vars, net, polled, shut, TypeOK
<1> QED BY <1>2, <1>3, <1>4, <1>5, <1>6 DEF Next
-------------------------------------------------------------------------------
(* A service that a step leaves alone stays as it is. *)
LEMMA SameService ==
  ASSUME NEW m \in Names, Fine(m), m \in services' <=> m \in services,
         timer'[m] = timer[m], record'[m] = record[m], told'[m] = told[m],
         registerOnly' = registerOnly
  PROVE  Fine(m)'
BY DEF Fine, Tells

(* The poll adds a service of which the client has been told nothing.      *)
LEMMA EnterFine ==
  ASSUME TypeOK, Enter, NEW m \in Names, Fine(m)
  PROVE  Fine(m)'
<1> DEFINE n == looked.name
<1>1. Types /\ n \in Names /\ looked.data \in Values
  BY TypesOf DEF Enter, Types
<1>2. CASE UNCHANGED <<services, record, timer, told>>
  BY <1>2, SameService DEF Enter
<1>3. CASE /\ IsNew(n) /\ services' = services \cup {n}
           /\ record' = [record EXCEPT ![n] = looked.data]
           /\ timer' = [timer EXCEPT ![n] = "armed"] /\ TellAdd(n, looked.data)
  <2>1. timer'[n] = "armed" /\ record'[n] = looked.data /\ registerOnly' = registerOnly
        /\ (m # n => timer'[m] = timer[m] /\ record'[m] = record[m])
    BY <1>1, <1>3 DEF Types, Enter
  <2>2. CASE m # n
    <3>1. told'[m] = told[m]
      BY <1>1, <1>3, <2>2, TellAddIs
    <3> QED BY <1>3, <2>1, <2>2, <3>1, SameService
  <2>3. CASE m = n
    <3>1. registerOnly \/ told[n] = None
      BY <1>3, <2>3 DEF Fine, Tells, IsNew
    <3>2. told'[n] = looked.data
      BY <1>1, <1>3, <3>1, TellAddIs
    <3> QED BY <1>1, <1>3, <2>1, <2>3, <3>2 DEF Fine, Tells
  <2> QED BY <2>2, <2>3
<1> QED BY <1>2, <1>3 DEF Enter

(* A service's timer concerns that service only. *)
LEMMA WatchOther ==
  ASSUME TypeOK, NEW n \in Names, Watch(n), NEW m \in Names, m # n
  PROVE  /\ told'[m] = told[m] /\ timer'[m] = timer[m] /\ record'[m] = record[m]
         /\ m \in services' <=> m \in services
<1>1. Types
  BY TypesOf
<1>2. UNCHANGED told \/ TellRemove(n) \/ Announce(n)
  BY DEF Watch, Expire, LookUp, Withdraw, Pop
<1>3. told'[m] = told[m]
  BY <1>1, <1>2, TellRemoveIs DEF Announce, TellAdd, Types
<1> QED BY <1>1, <1>3 DEF Watch, Expire, LookUp, Announce, Pop, Types

(* A service's timer tells of its removal before it is announced again or  *)
(* taken from the table.                                                   *)
LEMMA WatchFine ==
  ASSUME TypeOK, NEW n \in Names, Watch(n), NEW m \in Names, Fine(m)
  PROVE  Fine(m)'
<1>1. Types /\ registerOnly' = registerOnly
  BY TypesOf DEF Watch, Expire, LookUp, Announce, Pop
<1>2. CASE m # n
  BY <1>1, <1>2, WatchOther, SameService
<1>3. ASSUME Fine(n) PROVE Fine(n)'
  <2>1. CASE Expire(n)
    BY <1>1, <1>3, <2>1 DEF Expire, Fine, Tells, Types
  <2>2. CASE LookUp(n)
    <3>1. n \in services /\ services' = services /\ record[n] \in Values /\ told[n] = record[n]
      BY <1>3, <2>2 DEF LookUp, Fine, Tells
    <3>2. CASE /\ record' = [record EXCEPT ![n] = zone[n]] /\ zone[n] # None
               /\ TellRemove(n) /\ timer' = [timer EXCEPT ![n] = "again"]
      <4>1. registerOnly \/ told'[n] = None
        BY <1>1, <3>1, <3>2, TellRemoveIs
      <4> QED BY <1>1, <3>1, <3>2, <4>1 DEF Fine, Tells, Types
    <3>3. CASE /\ TellRemove(n) /\ timer' = [timer EXCEPT ![n] = "gone"]
               /\ UNCHANGED record
      <4>1. registerOnly \/ told'[n] = None
        BY <1>1, <3>1, <3>3, TellRemoveIs
      <4> QED BY <1>1, <3>1, <3>3, <4>1 DEF Fine, Tells, Types
    <3>4. CASE timer' = [timer EXCEPT ![n] = "dead"] /\ UNCHANGED <<record, told>>
      BY <1>1, <3>1, <3>4 DEF Fine, Tells, Types
    <3> QED BY <2>2, <3>2, <3>3, <3>4 DEF LookUp, Withdraw
  <2>3. CASE Announce(n)
    <3>1. n \in services /\ services' = services /\ record' = record
          /\ record[n] \in Values /\ (registerOnly \/ told[n] = None)
      BY <1>3, <2>3 DEF Announce, Fine, Tells
    <3>2. told'[n] = record[n] /\ timer'[n] = "armed"
      BY <1>1, <2>3, <3>1, TellAddIs DEF Announce, Types
    <3> QED BY <3>1, <3>2 DEF Fine, Tells
  <2>4. CASE Pop(n)
    BY <1>1, <1>3, <2>4 DEF Pop, Fine, Tells, Types
  <2> QED BY <2>1, <2>2, <2>3, <2>4 DEF Watch
<1> QED BY <1>2, <1>3

(* The close of one service, all the others left alone. *)
LEMMA CloseServiceOther ==
  ASSUME TypeOK, NEW n \in Names, CloseService(n), NEW m \in Names, m # n
  PROVE  told'[m] = told[m] /\ timer'[m] = timer[m]
BY TypesOf, TellRemoveIs DEF CloseService, Types

(* A service that the close has not come to stays fine. *)
LEMMA FineKept ==
  ASSUME IInv, [Next]_vars, NEW m \in Names, m \notin (table \ left)'
  PROVE  Fine(m)'
<1>1. TypeOK
  BY DEF IInv
<1>2. CASE CloseAll
  <2>1. CASE Close
    BY <2>1, SameService DEF Close, IInv, Begun
  <2>2. ASSUME NEW n \in Names, CloseService(n) PROVE Fine(m)'
    <3>1. m # n /\ m \notin table \ left
      BY <1>1, <2>2 DEF CloseService, TypeOK
    <3>2. Fine(m)
      BY <3>1 DEF IInv
    <3> QED BY <1>1, <2>2, <3>1, <3>2, CloseServiceOther, SameService DEF CloseService
  <2>3. CASE CloseEnds
    BY <2>3, SameService DEF CloseEnds, IInv
  <2> QED BY <1>2, <2>1, <2>2, <2>3 DEF CloseAll
<1>3. ASSUME UNCHANGED <<table, left>> PROVE Fine(m)
  BY <1>3 DEF IInv
<1>4. CASE Change \/ Check \/ Schedule \/ UNCHANGED vars
  BY <1>3, <1>4, SameService DEF Change, Check, Schedule, vars, shut
<1>5. ASSUME NEW n \in Names, Visit(n) PROVE Fine(m)'
  BY <1>3, <1>5, SameService DEF Visit, shut
<1>6. CASE Enter
  BY <1>1, <1>3, <1>6, EnterFine DEF Enter, shut
<1>7. ASSUME NEW n \in Names, Watch(n) PROVE Fine(m)'
  BY <1>1, <1>3, <1>7, WatchFine DEF Watch, Expire, LookUp, Announce, Pop, shut
<1> QED BY <1>2, <1>4, <1>5, <1>6, <1>7 DEF Next, Poll

(* One that was closed at rest stays so; nothing is told of it.            *)
LEMMA PartedKept ==
  ASSUME IInv, [Next]_vars, NEW m \in atRest
  PROVE  Parted(m)' /\ told'[m] = told[m] /\ m \in atRest'
<1>1. TypeOK /\ Types /\ m \in Names /\ Parted(m)
  BY TypesOf DEF IInv, TypeOK
<1>2. CASE UNCHANGED <<registerOnly, poll, services, timer, shut, told>>
  BY <1>1, <1>2 DEF Parted, shut
<1>3. CASE Change \/ UNCHANGED vars
  BY <1>2, <1>3 DEF Change, polled, vars
<1>4. CASE Check \/ Schedule \/ \E n \in Names : Visit(n)
  BY <1>1, <1>4 DEF Check, Schedule, Visit, Parted, shut
<1>5. CASE Enter
  <2> DEFINE n == looked.name
  <2>1. m \in services /\ n \in Names /\ looked.data \in Values
    BY <1>1, <1>5 DEF Enter, Parted, TypeOK, Types
  <2>2. CASE UNCHANGED <<services, record, timer, told>>
    BY <1>1, <1>5, <2>2 DEF Enter, Parted, shut
  <2>3. CASE /\ IsNew(n) /\ services' = services \cup {n}
             /\ timer' = [timer EXCEPT ![n] = "armed"] /\ TellAdd(n, looked.data)
    <3>1. m # n
      BY <2>1, <2>3 DEF IsNew
    <3>2. told'[m] = told[m] /\ timer'[m] = timer[m] /\ m \in services'
      BY <1>1, <2>1, <2>3, <3>1, TellAddIs DEF Types
    <3> QED BY <1>1, <1>5, <3>2 DEF Enter, Parted, shut
  <2> QED BY <1>5, <2>2, <2>3 DEF Enter
<1>6. ASSUME NEW n \in Names, Watch(n)
      PROVE  Parted(m)' /\ told'[m] = told[m] /\ m \in atRest'
  <2>1. n # m
    BY <1>1, <1>6 DEF Parted, Watch, Expire, LookUp, Announce, Pop
  <2>2. UNCHANGED <<registerOnly, polled, shut>>
    BY <1>6 DEF Watch, Expire, LookUp, Announce, Pop
  <2> QED BY <1>1, <1>6, <2>1, <2>2, WatchOther DEF Parted, polled, shut
<1>7. CASE CloseAll
  <2>1. CASE Close
    BY <1>1, <2>1 DEF Close, Parted
  <2>2. ASSUME NEW n \in Names, CloseService(n)
        PROVE  Parted(m)' /\ told'[m] = told[m] /\ m \in atRest'
    <3>1. m # n
      BY <1>1, <2>2 DEF CloseService, Parted
    <3> QED BY <1>1, <2>2, <3>1, CloseServiceOther DEF CloseService, Parted, polled
  <2>3. CASE CloseEnds
    BY <1>1, <2>3 DEF CloseEnds, Parted
  <2> QED BY <1>7, <2>1, <2>2, <2>3 DEF CloseAll
<1> QED BY <1>3, <1>4, <1>5, <1>6, <1>7 DEF Next, Poll

(* The close of a service that is fine and at rest tells of its removal;   *)
(* the end of the close leaves nobody to find one that it did not know.    *)
LEMMA Parting ==
  ASSUME IInv, [Next]_vars, NEW m \in atRest', m \notin atRest
  PROVE  Parted(m)'
<1>1. TypeOK /\ Types
  BY TypesOf DEF IInv
<1>2. CASE CloseAll
  <2>1. CASE Close
    BY <2>1 DEF Close
  <2>2. ASSUME NEW n \in Names, CloseService(n) PROVE Parted(m)'
    <3>1. m = n /\ timer[n] \in {"armed", "dead"} /\ n \in left /\ closing = "closing"
      BY <2>2 DEF CloseService
    <3>2. Fine(n)
      BY <3>1 DEF IInv
    <3>3. n \in services /\ told[n] \in Values
      BY <3>1, <3>2 DEF Fine, Tells
    <3>4. registerOnly \/ told'[n] = None
      BY <1>1, <2>2, <3>3, TellRemoveIs DEF CloseService
    <3>5. timer'[n] \in {"dead", "off"}
      BY <1>1, <2>2, <3>1 DEF CloseService, Cancelled, Types
    <3> QED BY <2>2, <3>1, <3>3, <3>4, <3>5 DEF CloseService, Parted
  <2>3. CASE CloseEnds
    <3>1. /\ m \in Unknown /\ left = {} /\ closing' = "done" /\ poll' = Cancelled(poll)
          /\ poll # "found" /\ UNCHANGED <<registerOnly, services, timer, left, told>>
      BY <2>3 DEF CloseEnds
    <3>2. m \in Names /\ m \notin services /\ m \notin table
      BY <3>1 DEF Unknown
    <3>3. timer[m] = "off" /\ (registerOnly \/ told[m] = None)
      BY <3>2 DEF IInv, Fine, Tells
    <3>4. poll' \in {"dead", "off"}
      BY <1>1, <3>1 DEF Cancelled, TypeOK
    <3> QED BY <3>1, <3>3, <3>4 DEF Parted
  <2> QED BY <1>2, <2>1, <2>2, <2>3 DEF CloseAll
<1>3. CASE ~CloseAll
  BY <1>3 DEF Next, Change, Poll, Check, Visit, Enter, Schedule, Watch, Expire, LookUp,
              Announce, Pop, shut, vars
<1> QED BY <1>2, <1>3

(* Every step keeps the invariant. *)
LEMMA NextInv == IInv /\ [Next]_vars => IInv'
<1> SUFFICES ASSUME IInv, [Next]_vars PROVE IInv'
  OBVIOUS
<1>1. TypeOK'
  BY TypeKept DEF IInv
<1>2. Begun'
  BY DEF IInv, Begun, Next, Change, Poll, Check, Visit, Enter, Schedule, Watch, Expire,
         LookUp, Announce, Pop, CloseAll, Close, CloseService, CloseEnds, shut, vars
<1> QED BY <1>1, <1>2, FineKept, PartedKept, Parting DEF IInv

(* The controller and its services are in known phases, and told and       *)
(* record hold what lookups may find.                                      *)
THEOREM DnsTypeCorrect == Spec => []TypeOK
<1>1. Init => TypeOK
  BY InitInv DEF IInv
<1> QED BY <1>1, TypeKept, PTL DEF Spec

(* Whatever the poll and the timers of the services find, and however      *)
(* their callbacks interleave, the client has been told of each service    *)
(* what the controller's table holds, and of none twice.                   *)
THEOREM TableAlwaysTells == Spec => []TableTells
<1>1. IInv => TableTells
  BY DEF IInv, Begun, Fine, Tells, TableTells
<1> QED BY <1>1, InitInv, NextInv, PTL DEF Spec

(* A client is told of each service that was closed at rest that it has    *)
(* gone, once, and hears nothing more of it, whatever the callbacks of the *)
(* others do (dnsService.py, dnsServiceController.py: close and the        *)
(* timers' callbacks).                                                     *)
THEOREM AlwaysSilent == Spec => Silent
<1>1. IInv => (~registerOnly => \A n \in atRest : told[n] = None)
  BY DEF IInv, Parted
<1>2. IInv /\ [Next]_vars => [\A n \in atRest : told'[n] = told[n]]_vars
  BY PartedKept
<1> QED BY <1>1, <1>2, InitInv, NextInv, PTL DEF Spec, Silent
===============================================================================
