----------------------------- MODULE MdnsDiscovery ----------------------------
(***************************************************************************)
(* Discovery of the services of one type by multicast DNS: MDNSListener    *)
(* and MDNSSubscription of nmoscommon/mdns.                                *)
(*                                                                         *)
(* The browser's thread tells the listener of services that come and go.   *)
(* For one that comes the listener starts a thread that resolves it, which *)
(* may take seconds, records it and tells the client; one that goes is     *)
(* taken from the records, and the client told, by the browser's thread.   *)
(* Once an hour every service in the records is resolved again.            *)
(***************************************************************************)
EXTENDS FiniteSets, Integers, Sequences

CONSTANTS
  Names,        \* the names of the services
  Values,       \* what a service may say of itself
  None,         \* no service, no entry, or nothing told
  Threads,      \* the threads that resolve services
  Loss,         \* TRUE: a service on the network may not answer
  MaxChanges    \* bound: changes of the network

ASSUME MdnsAssumption ==
  /\ None \notin Values \cup Threads /\ {"idle", "dead"} \cap Names = {}
  /\ Loss \in BOOLEAN /\ MaxChanges \in Nat

VARIABLES
  registerOnly, \* the client wants no removals
  network,      \* the services that can be resolved
  changes,      \* how often the network has changed
  news,         \* what the browser has yet to tell the listener
  browser,      \* the service whose removal it is telling; idle, dead
  threads,      \* what each thread is doing
  records,      \* the listener's records of the type
  anyRecord,    \* there has been one: records has the type's key
  collector,    \* the timer of the hourly collection
  closed,       \* the subscription was closed
  disturbed,    \* services that did not answer or were worked on by two
  told          \* what the client has been told last of each service

net == <<network, changes>>
vars == <<registerOnly, net, news, browser, threads, records, anyRecord,
          collector, closed, disturbed, told>>

Idle == [at |-> "idle"]
Job(at, n, info) == [at |-> at, name |-> n, info |-> info]
Known == {n \in Names : records[n] # None}

(* Another thread than t, the browser's included, works on the service.    *)
Busy(n, t) ==
  \/ browser = n
  \/ \E u \in Threads \ {t} : threads[u] # Idle /\ threads[u].name = n
Disturbs(ns) == disturbed' = disturbed \cup {n \in ns : Busy(n, None)}

TellAdd(n, v) == told' = [told EXCEPT ![n] = v]
TellRemove(n) ==
  told' = IF registerOnly THEN told ELSE [told EXCEPT ![n] = None]
-------------------------------------------------------------------------------
(* The network.  A service that changes is not news to the browser.        *)
Change(n) ==
  /\ changes < MaxChanges /\ changes' = changes + 1
  /\ \E v \in (Values \cup {None}) \ {network[n]} :
       /\ network' = [network EXCEPT ![n] = v]
       /\ news' = CASE network[n] = None -> Append(news, <<"add", n>>)
                    [] v = None          -> Append(news, <<"remove", n>>)
                    [] OTHER             -> news
  /\ UNCHANGED <<registerOnly, browser, threads, records, anyRecord, collector,
                 closed, disturbed, told>>
-------------------------------------------------------------------------------
(* The browser's thread: add_service and remove_service. *)
NextIs(what, n) == browser = "idle" /\ ~closed /\ news # << >>
                   /\ Head(news) = <<what, n>> /\ news' = Tail(news)

AddService(n) ==
  /\ NextIs("add", n)
  /\ \E t \in Threads :
       threads[t] = Idle /\ threads' = [threads EXCEPT ![t] = Job("ask", n, None)]
  /\ Disturbs({n})
  /\ UNCHANGED <<registerOnly, net, browser, records, anyRecord, collector, closed, told>>

(* The pop raises if the service is not in the records, which may end the  *)
(* browser's thread.                                                       *)
RemoveService(n) ==
  /\ NextIs("remove", n)
  /\ IF n \in Known
       THEN records' = [records EXCEPT ![n] = None] /\ browser' = n
       ELSE UNCHANGED records /\ browser' \in {"idle", "dead"}
  /\ Disturbs({n})
  /\ UNCHANGED <<registerOnly, net, threads, anyRecord, collector, closed, told>>

Removed(n) ==
  /\ browser = n /\ browser' = "idle"
  /\ TellRemove(n)
  /\ UNCHANGED <<registerOnly, net, news, threads, records, anyRecord, collector,
                 closed, disturbed>>

Browse == \E n \in Names : AddService(n) \/ RemoveService(n) \/ Removed(n)
-------------------------------------------------------------------------------
(* A thread: _resolve_service_details. *)
GetServiceInfo(t) ==
  /\ threads[t].at = "ask"
  /\ \E info \in {network[threads[t].name]} \cup (IF Loss THEN {None} ELSE {}) :
       /\ threads' = [threads EXCEPT ![t] = Job("apply", threads[t].name, info)]
       /\ disturbed' = IF info = network[threads[t].name] THEN disturbed
                       ELSE disturbed \cup {threads[t].name}
  /\ UNCHANGED <<registerOnly, net, news, browser, records, anyRecord, collector,
                 closed, told>>

AlwaysLost(info) == TRUE                                \* mutant of the next
IsLost(info) == info = None

KeepRecord(t) == UNCHANGED <<records, anyRecord>>       \* mutant of the next
UpdateRecord(t) ==
  /\ records' = [records EXCEPT ![threads[t].name] = threads[t].info]
  /\ anyRecord' = TRUE

(* Resolved, the service is recorded; one that did not answer is taken     *)
(* from the records; if it is not there, or there never was a record, the  *)
(* thread ends.                                                            *)
Apply(t) ==
  /\ threads[t].at = "apply"
  /\ LET n == threads[t].name IN
       \/ /\ ~IsLost(threads[t].info)
          /\ UpdateRecord(t)
          /\ threads' = [threads EXCEPT ![t] = Job("tell", n, threads[t].info)]
       \/ /\ IsLost(threads[t].info) /\ n \in Known
          /\ records' = [records EXCEPT ![n] = None]
          /\ threads' = [threads EXCEPT ![t] = Job("tell", n, threads[t].info)]
          /\ UNCHANGED anyRecord
       \/ /\ IsLost(threads[t].info) /\ n \notin Known
          /\ threads' = [threads EXCEPT ![t] = Idle]
          /\ UNCHANGED <<records, anyRecord>>
  /\ UNCHANGED <<registerOnly, net, news, browser, collector, closed, disturbed, told>>

RespondToClient(t) ==
  /\ threads[t].at = "tell"
  /\ IF IsLost(threads[t].info) THEN TellRemove(threads[t].name)
     ELSE TellAdd(threads[t].name, threads[t].info)
  /\ threads' = [threads EXCEPT ![t] = Idle]
  /\ UNCHANGED <<registerOnly, net, news, browser, records, anyRecord, collector,
                 closed, disturbed>>

Resolve(t) == GetServiceInfo(t) \/ Apply(t) \/ RespondToClient(t)
-------------------------------------------------------------------------------
CollectedUntold == {n \in Known : told[n] = None}        \* mutant of the next
Collected == Known

(* The hourly collection: an hour is longer than it takes to resolve what  *)
(* was begun before.  Without the type's key it raises, and is the last.   *)
Collect ==
  /\ collector = "armed" /\ \A t \in Threads : threads[t] = Idle
  /\ IF anyRecord
       THEN /\ \E start \in [Collected -> Threads] :
                 /\ \A m, n \in Collected : start[m] = start[n] => m = n
                 /\ threads' = [t \in Threads |->
                      IF \E n \in Collected : start[n] = t
                        THEN Job("ask", CHOOSE n \in Collected : start[n] = t, None)
                        ELSE Idle]
            /\ Disturbs(Collected)
            /\ UNCHANGED collector
       ELSE collector' = "dead" /\ UNCHANGED <<threads, disturbed>>
  /\ UNCHANGED <<registerOnly, net, news, browser, records, anyRecord, closed, told>>

(* The collection is cancelled and the browser is told to end. *)
Close ==
  /\ ~closed /\ closed' = TRUE
  /\ collector' = IF collector = "armed" THEN "off" ELSE collector
  /\ UNCHANGED <<registerOnly, net, news, browser, threads, records, anyRecord,
                 disturbed, told>>
-------------------------------------------------------------------------------
(* The browser finds what is there already. *)
Init ==
  /\ registerOnly \in BOOLEAN
  /\ network \in [Names -> Values \cup {None}]
  /\ changes = 0
  /\ \E order \in [1..Cardinality(Names) -> Names] :
       /\ \A n \in Names : \E i \in DOMAIN order : order[i] = n
       /\ news = [i \in 1..Cardinality({n \in Names : network[n] # None}) |->
                   <<"add", SelectSeq(order, LAMBDA n : network[n] # None)[i]>>]
  /\ browser = "idle" /\ threads = [t \in Threads |-> Idle]
  /\ records = [n \in Names |-> None] /\ anyRecord = FALSE
  /\ collector = "armed" /\ closed = FALSE
  /\ disturbed = {} /\ told = [n \in Names |-> None]

Next ==
  \/ \E n \in Names : Change(n)
  \/ Browse \/ (\E t \in Threads : Resolve(t)) \/ Collect \/ Close

(* Each thread runs while it can; nobody need close.                       *)
Fairness ==
  WF_vars(Browse) /\ WF_vars(Collect) /\ \A t \in Threads : WF_vars(Resolve(t))

Spec == Init /\ [][Next]_vars
FairSpec == Spec /\ Fairness
-------------------------------------------------------------------------------
TypeOK ==
  /\ registerOnly \in BOOLEAN /\ anyRecord \in BOOLEAN /\ closed \in BOOLEAN
  /\ network \in [Names -> Values \cup {None}] /\ changes \in 0..MaxChanges
  /\ news \in Seq({"add", "remove"} \X Names)
  /\ browser \in Names \cup {"idle", "dead"}
  /\ threads \in [Threads -> {Idle} \cup
       [at : {"ask", "apply", "tell"}, name : Names, info : Values \cup {None}]]
  /\ records \in [Names -> Values \cup {None}]
  /\ collector \in {"armed", "dead", "off"}
  /\ disturbed \subseteq Names
  /\ told \in [Names -> Values \cup {None}]

(* When no thread is at work on a service, the client was last told what   *)
(* the listener's records hold of it: unless two threads had once worked   *)
(* on it at the same time, or it failed to answer.                         *)
TableTells ==
  \A n \in Names \ disturbed :
    ~Busy(n, None) /\ ~registerOnly => told[n] = records[n]

(* A service in the records is told to the client as it is now at every    *)
(* collection, whatever threads had mixed up before.                       *)
Heals ==
  \A n \in Names, v \in Values :
    <>[](network[n] = v /\ records[n] # None /\ collector = "armed")
      => []<>(told[n] = v)

(* A service that stays on the network is recorded, if nothing disturbs it *)
(* and no removal of another, never resolved, has ended the browser.  One  *)
(* that has gone for good is removed, by the browser or, when that has     *)
(* ended, by the collection.                                               *)
Follows ==
  \A n \in Names :
    /\ <>[](network[n] # None) =>
         <>[](told[n] # None \/ n \in disturbed \/ browser = "dead" \/ closed)
    /\ <>[](network[n] = None) =>
         <>[](\/ told[n] = None \/ registerOnly \/ n \in disturbed \/ closed
              \/ browser = "dead" /\ collector = "dead")
===============================================================================
