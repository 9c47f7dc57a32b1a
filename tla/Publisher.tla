------------------------------- MODULE Publisher ------------------------------
(***************************************************************************)
(* Registration of services by mDNS: the engine, its table of              *)
(* registrations and its interfaces (mdnsEngine.py, mdnsRegistration.py,   *)
(* mdnsRegistrationController.py, mdnsInterface.py), as the MDNSUpdater of *)
(* aggregator.py and another client use them.                              *)
(*                                                                         *)
(* A registration is advertised on every interface, one after the other,   *)
(* and each call of an interface waits and may raise.  The updater's       *)
(* greenlet, which MdnsUpdater describes as if there were one interface    *)
(* and no table, is the refinement shown here: the record MdnsUpdater      *)
(* takes for published is the one advertised on all interfaces at once.    *)
(* A call of an interface that raises is taken to have no effect on it.    *)
(***************************************************************************)
EXTENDS Integers, Sequences

CONSTANTS
  Types, Services, Mapping, MaxVersion, Base, Withdrawn, Failures, MaxCalls,
  CutIn,        \* as in MdnsUpdater
  Node,         \* the name under which the updater advertises the node
  Others,       \* the names of the client's own services
  Interfaces,   \* how many interfaces there are
  MaxOps        \* bound: calls of the client

VARIABLES
  p2p, versions, updates, txt, failed, running, calls,  \* as in MdnsUpdater
  greenlet,     \* whether the updater's greenlet is idle, dead or done,
                \* or at which interface it withdraws or registers
  table,        \* the names that have a registration
  dotted,       \* the names that are not found again: with a dot, stored as a dash
  info,         \* the interfaces for which each registration has its info
  adv,          \* what is advertised under each name on each interface
  client,       \* what the client is doing
  told,         \* what the client knows of each service's registration
  lost,         \* the names whose last withdrawal raised
  closed,       \* how the engine's close went
  ops           \* how many calls of the client there have been

updater == <<p2p, versions, updates, txt, failed, running, calls, greenlet>>
engine == <<client, told, lost, closed, ops>>
vars == <<updater, table, dotted, info, adv, engine>>

Names == {Node} \cup Others
All == 1..Interfaces
At(what, i) == [what |-> what, at |-> i]
Idle == At("idle", 0)
Working == greenlet.what \in {"withdraw", "register"}

(* The refinement mapping. *)
Everywhere(r) == \A i \in All : adv[Node][i] = r
Published == IF Everywhere(adv[Node][1]) THEN adv[Node][1] ELSE Withdrawn
U == INSTANCE MdnsUpdater WITH published <- Published,
                               thread <- IF Working THEN "update" ELSE greenlet.what

ASSUME PublisherAssumption ==
  /\ Node \notin Others /\ Interfaces \in Nat \ {0} /\ MaxOps \in Nat
  /\ Base # Withdrawn

(* Those of MdnsUpdater, whose results then hold here.                     *)
ASSUME SameAssumption ==
  /\ CutIn \in Nat \ {0}
  /\ Mapping \in [Types -> Services]
  /\ MaxVersion \in Nat \ {0} /\ MaxCalls \in Nat
  /\ {Base, Withdrawn} \cap [Services -> 0..MaxVersion] = {}
  /\ Failures \subseteq {"notfound", "error"}

Fails == "error" \in Failures
-------------------------------------------------------------------------------
(* One interface of one registration.                                      *)
RegisterOnce(n, i, r) ==                                \* mutant of the next
  /\ info' = [info EXCEPT ![n] = IF @ = {} THEN {i} ELSE @]
  /\ adv' = IF info[n] = {} THEN [adv EXCEPT ![n][i] = r] ELSE adv
RegisterAt(n, i, r) ==
  /\ info' = [info EXCEPT ![n] = @ \cup {i}]
  /\ adv' = [adv EXCEPT ![n][i] = r]
RegisterFails(n, i) ==
  /\ Fails
  /\ info' = [info EXCEPT ![n] = @ \cup {i}] /\ UNCHANGED adv

DropInfo(n, i) ==                                       \* mutant of the next
  i \in info[n] /\ info' = [info EXCEPT ![n] = @ \ {i}] /\ UNCHANGED adv
WithdrawAt(n, i) ==
  /\ i \in info[n]
  /\ adv' = [adv EXCEPT ![n][i] = Withdrawn] /\ UNCHANGED info
(* The registration never got that far: KeyError. *)
NoInfo(n, i) == i \notin info[n]
WithdrawFails(n, i) == (NoInfo(n, i) \/ Fails) /\ UNCHANGED <<info, adv>>

(* Looked up by the name as given, which is stored with dashes for dots.   *)
Finds(n) == n \in table \ dotted
-------------------------------------------------------------------------------
(* The updater's greenlet: update withdraws the service from all interfaces *)
(* and then, a second later, registers it on all.                          *)
FirstOnly(job) == IF job.what = "withdraw" THEN At("register", 1) ELSE Idle
                                                        \* mutant of the next
After(job) ==
  CASE job.at < Interfaces                              -> [job EXCEPT !.at = @ + 1]
    [] job.at = Interfaces /\ job.what = "withdraw"     -> At("register", 1)
    [] OTHER                                            -> Idle

Update ==
  /\ U!Ready /\ Finds(Node)
  /\ txt' = Head(updates) /\ updates' = Tail(updates)
  /\ WithdrawAt(Node, 1)
  /\ greenlet' = After(At("withdraw", 1))
  /\ UNCHANGED <<p2p, versions, failed, running, calls, table, dotted, engine>>

UpdateStep ==
  /\ Working
  /\ IF greenlet.what = "withdraw" THEN WithdrawAt(Node, greenlet.at)
     ELSE RegisterAt(Node, greenlet.at, txt)
  /\ greenlet' = After(greenlet)
  /\ failed' = (failed /\ greenlet' # Idle)
  /\ UNCHANGED <<p2p, versions, updates, txt, running, calls, table, dotted, engine>>

UpdateFinds == U!Ready /\ ~Finds(Node) /\ updates' = Tail(updates)
               /\ failed' = TRUE /\ UNCHANGED <<greenlet, info, adv>>

(* An exception of an interface, or a missing info, ends the greenlet.     *)
UpdateDies ==
  /\ \/ /\ U!Ready /\ Finds(Node) /\ updates' = Tail(updates)
        /\ WithdrawFails(Node, 1)
     \/ /\ Working /\ UNCHANGED updates
        /\ IF greenlet.what = "withdraw" THEN WithdrawFails(Node, greenlet.at)
           ELSE RegisterFails(Node, greenlet.at)
  /\ failed' = TRUE /\ greenlet' = At("dead", 0)

UpdaterEnds == /\ greenlet = Idle /\ ~running /\ greenlet' = At("done", 0)
               /\ UNCHANGED <<updates, failed, info, adv>>

Modify ==
  \/ Update \/ UpdateStep
  \/ /\ UpdateFinds \/ UpdateDies \/ UpdaterEnds
     /\ UNCHANGED <<p2p, versions, txt, running, calls, table, dotted, engine>>

(* The calls of the updater's users. *)
Call ==
  /\ UNCHANGED <<greenlet, table, dotted, info, adv, engine>>
  /\ U!Call
-------------------------------------------------------------------------------
(* The client's own services. *)
ClientCalls == client = Idle /\ closed = "no" /\ ops < MaxOps /\ ops' = ops + 1

Taken(n) == n \in table

(* The table has the registration before it is registered, and keeps it if *)
(* that fails.                                                             *)
Register(n) ==
  /\ ClientCalls
  /\ \/ /\ Taken(n)
        /\ told' = [told EXCEPT ![n] = "collision"]
        /\ UNCHANGED <<table, info, client>>
     \/ /\ Fails                                        \* an interface not found
        /\ told' = [told EXCEPT ![n] = "failed"]
        /\ UNCHANGED <<table, info, client>>
     \/ /\ ~Taken(n)
        /\ table' = table \cup {n} /\ info' = [info EXCEPT ![n] = {}]
        /\ client' = [what |-> "register", at |-> 1, name |-> n]
        /\ UNCHANGED told
  /\ UNCHANGED <<updater, dotted, adv, lost, closed>>

Unregister(n) ==
  /\ ClientCalls
  /\ IF Finds(n)
       THEN /\ table' = table \ {n}
            /\ client' = [what |-> "withdraw", at |-> 1, name |-> n]
       ELSE UNCHANGED <<table, client>>                 \* ServiceNotFoundException
  /\ UNCHANGED <<updater, dotted, info, adv, told, lost, closed>>

Goes(n) == IF client.what = "register" THEN RegisterAt(n, client.at, Base)
           ELSE WithdrawAt(n, client.at)
Raises(n) == IF client.what = "register" THEN RegisterFails(n, client.at)
             ELSE WithdrawFails(n, client.at)

ClientStep ==
  /\ client # Idle
  /\ LET n == client.name IN
       \/ /\ Goes(n)
          /\ IF client.at < Interfaces
               THEN client' = [client EXCEPT !.at = @ + 1] /\ UNCHANGED told
               ELSE /\ client' = Idle
                    /\ told' = [told EXCEPT ![n] = IF client.what = "register"
                                                   THEN "established" ELSE "gone"]
          /\ lost' = IF client' = Idle THEN lost \ {n} ELSE lost
       \/ /\ Raises(n)
          /\ client' = Idle
          /\ \E why \in IF client.what = "register" THEN {"collision", "failed"}
                        ELSE {"raised"} : told' = [told EXCEPT ![n] = why]
          /\ lost' = IF client.what = "withdraw" THEN lost \cup {n} ELSE lost
  /\ UNCHANGED <<updater, table, dotted, closed, ops>>

(* The engine is closed once the updater has been stopped, which joins its *)
(* greenlet.  Every registration is withdrawn, in the order of the table,  *)
(* then the interfaces are closed and with them whatever they advertise;   *)
(* an exception leaves the rest as it is.                                  *)
Close ==
  /\ client = Idle /\ closed = "no" /\ greenlet.what \in {"done", "dead"} /\ ~running
  /\ \/ /\ \A n \in table : info[n] = All
        /\ adv' = [n \in Names |-> [i \in All |-> Withdrawn]]
        /\ table' = {} /\ closed' = "done"
     \/ \E n \in table, i \in All, before \in SUBSET table :
          /\ n \notin before /\ \A m \in before : info[m] = All
          /\ \A j \in 1..i - 1 : j \in info[n]
          /\ NoInfo(n, i) \/ Fails
          /\ closed' = IF NoInfo(n, i) THEN "keyerror" ELSE "raised"
          /\ adv' = [m \in Names |-> [j \in All |->
                       IF m \in before \/ (m = n /\ j < i) THEN Withdrawn ELSE adv[m][j]]]
          /\ UNCHANGED table
  /\ failed' = (failed \/ Published' # Published)
  /\ UNCHANGED <<p2p, versions, updates, txt, running, calls, greenlet>>
  /\ UNCHANGED <<dotted, info, client, told, lost, ops>>
-------------------------------------------------------------------------------
(* The updater's constructor has registered the node, or failed to without *)
(* a word; the registration is in the table either way.                    *)
Init ==
  /\ table = {Node} /\ dotted \in SUBSET Names
  /\ \E upto \in 0..Interfaces :
       /\ upto = Interfaces \/ Fails
       /\ info = [n \in Names |-> IF n # Node THEN {}
                                  ELSE 1..(IF upto < Interfaces THEN upto + 1 ELSE upto)]
       /\ adv = [n \in Names |-> [i \in All |->
                   IF n = Node /\ i <= upto THEN Base ELSE Withdrawn]]
       /\ told = [n \in Names |-> IF n # Node THEN "gone"
                                  ELSE IF upto = Interfaces THEN "established" ELSE "failed"]
  /\ greenlet = Idle /\ client = Idle /\ lost = {} /\ closed = "no" /\ ops = 0
  /\ U!Init

Next == \/ Call \/ Modify
        \/ \E n \in Others : Register(n) \/ Unregister(n)
        \/ ClientStep \/ Close

(* The greenlet runs while it can; nobody need call. *)
Fairness == WF_vars(Modify)

Spec == Init /\ [][Next]_vars
FairSpec == Spec /\ Fairness
-------------------------------------------------------------------------------
(* The updater over a table of registrations on several interfaces is the  *)
(* updater of MdnsUpdater: what peers see on all interfaces goes from one  *)
(* record of its queue to nothing and to the next, and it settles.         *)
ImplementsUpdater == U!FairSpec

(* Between updates the node is advertised alike on all interfaces, unless  *)
(* the constructor or an update failed.                                    *)
Together ==
  ~Working /\ told[Node] = "established" /\ greenlet.what # "dead" /\ closed = "no" =>
    \E r \in U!Records : Everywhere(r)

(* A client that was told its service is established finds it advertised   *)
(* on every interface, until it withdraws it.                              *)
Established ==
  \A n \in Others :
    told[n] = "established" /\ client = Idle /\ closed = "no" =>
      n \in table /\ \A i \in All : adv[n][i] = Base

(* Nothing is advertised without a registration that can be withdrawn,     *)
(* unless its last withdrawal raised; and nothing at all once the engine   *)
(* has been closed.                                                        *)
NoOrphans ==
  /\ \A n \in Names, i \in All :
       adv[n][i] # Withdrawn =>
         \/ n \in table \/ n \in lost
         \/ client # Idle /\ client.name = n
  /\ closed = "done" => table = {} /\ \A n \in Names, i \in All : adv[n][i] = Withdrawn

(* The engine's close stumbles over a registration only if that was told   *)
(* to have failed.                                                         *)
ClosesClean ==
  closed = "keyerror" => \E n \in table : told[n] \in {"failed", "collision"}
===============================================================================
