---------------------------- MODULE PublisherProofs ----------------------------
(***************************************************************************)
(* The safety half of Publisher's refinement, for any number of interfaces,*)
(* services, records and calls: every step of the engine and its users is  *)
(* a step of MdnsUpdater or none, when what peers see is the record that   *)
(* is advertised on all interfaces at once.                                *)
(*                                                                         *)
(* The argument: an update withdraws the record interface by interface,    *)
(* the first in its first step, and advertises the new one interface by    *)
(* interface, the last in its last step.  In between one interface has     *)
(* nothing to show, whatever the two records are.                          *)
(***************************************************************************)
EXTENDS Publisher, TLAPS

(* adv is a table of names and interfaces. *)
Shape == adv = [n \in Names |-> [i \in All |-> adv[n][i]]]

Put(n, i, r) == adv' = [adv EXCEPT ![n][i] = r]

Phases == [what : {"idle", "dead", "done", "withdraw", "register"}, at : 0..Interfaces]

(* How far an update has come, and what it has left on each interface. *)
Halfway ==
  /\ greenlet.what = "withdraw" =>
       greenlet.at \in 2..Interfaces /\ \A i \in 1..greenlet.at - 1 : adv[Node][i] = Withdrawn
  /\ greenlet.what = "register" =>
       /\ greenlet.at \in All
       /\ \A i \in All : adv[Node][i] = IF i < greenlet.at THEN txt ELSE Withdrawn

(* The client works at a service of its own. *)
Jobs == {Idle} \cup [what : {"register", "withdraw"}, at : All, name : Others]

PInv ==
  /\ Shape /\ failed \in BOOLEAN
  /\ greenlet \in Phases /\ (~Working => greenlet.at = 0)
  /\ client \in Jobs
  /\ Halfway
-------------------------------------------------------------------------------
(* One cell of the table. *)
LEMMA PutAt ==
  ASSUME Shape, NEW n \in Names, NEW i \in All, NEW r, Put(n, i, r)
  PROVE  /\ Shape' /\ adv'[n][i] = r
         /\ \A m \in Names, j \in All : m # n \/ j # i => adv'[m][j] = adv[m][j]
<1>1. DOMAIN adv = Names /\ \A m \in Names : DOMAIN adv[m] = All
  BY DEF Shape
<1>2. adv' = [m \in Names |-> IF m = n THEN [adv[n] EXCEPT ![i] = r] ELSE adv[m]]
  BY <1>1 DEF Put
<1>3. \A m \in Names, j \in All : adv'[m][j] = IF m = n /\ j = i THEN r ELSE adv[m][j]
  BY <1>1, <1>2
<1>4. \A m \in Names : adv'[m] = [j \in All |-> adv'[m][j]]
  <2> TAKE m \in Names
  <2>1. CASE m = n
    <3>1. adv'[m] = [adv[n] EXCEPT ![i] = r]
      BY <1>2, <2>1
    <3>2. adv'[m] = [j \in All |-> IF j = i THEN r ELSE adv[n][j]]
      BY <1>1, <3>1
    <3> QED BY <3>2
  <2>2. CASE m # n
    <3>1. adv'[m] = adv[m] /\ adv[m] = [j \in All |-> adv[m][j]]
      BY <1>2, <2>2 DEF Shape
    <3> QED BY <3>1
  <2> QED BY <2>1, <2>2
<1>5. Shape'
  BY <1>2, <1>4 DEF Shape
<1> QED BY <1>3, <1>5

(* What peers see depends on the node's row alone. *)
LEMMA SameRow ==
  ASSUME \A i \in All : adv'[Node][i] = adv[Node][i]
  PROVE  Published' = Published
<1>1. 1 \in All
  BY PublisherAssumption DEF All
<1> QED BY <1>1 DEF Published, Everywhere

(* An interface that advertises nothing hides the others. *)
LEMMA Hidden ==
  ASSUME NEW i \in All, adv[Node][i] = Withdrawn
  PROVE  Published = Withdrawn
BY DEF Published, Everywhere

(* The same after a step. *)
LEMMA HiddenNext ==
  ASSUME NEW i \in All, adv'[Node][i] = Withdrawn
  PROVE  Published' = Withdrawn
BY DEF Published, Everywhere

(* Interfaces agree. *)
LEMMA ShownNext ==
  ASSUME NEW r, \A i \in All : adv'[Node][i] = r
  PROVE  Published' = r
<1>1. 1 \in All
  BY PublisherAssumption DEF All
<1> QED BY <1>1 DEF Published, Everywhere
-------------------------------------------------------------------------------
(* The next interface, the other half of the update, or its end. *)
LEMMA AfterIs ==
  ASSUME NEW j \in Phases, j.what \in {"withdraw", "register"}, j.at \in All
  PROVE  /\ After(j) \in Phases
         /\ j.at < Interfaces => After(j).what = j.what /\ After(j).at = j.at + 1
         /\ j.at = Interfaces /\ j.what = "withdraw" =>
              After(j).what = "register" /\ After(j).at = 1
         /\ j.at = Interfaces /\ j.what = "register" => After(j) = Idle
<1> USE PublisherAssumption DEF Phases, All, After, At, Idle
<1>1. CASE j.at < Interfaces
  BY <1>1
<1>2. CASE j.at = Interfaces /\ j.what = "withdraw"
  BY <1>2
<1>3. CASE j.at = Interfaces /\ j.what = "register"
  BY <1>3
<1> QED BY <1>1, <1>2, <1>3

(* The constructor is the updater's, whatever it has advertised. *)
LEMMA InitMaps == Init => PInv /\ U!Init
<1> SUFFICES ASSUME Init PROVE PInv
  BY DEF Init
<1> USE PublisherAssumption
<1>1. greenlet \in Phases /\ greenlet.what = "idle" /\ greenlet.at = 0
  BY DEF Init, Idle, At, Phases
<1>2. Shape
  <2>1. PICK upto \in 0..Interfaces :
          adv = [n \in Names |-> [i \in All |->
                  IF n = Node /\ i <= upto THEN Base ELSE Withdrawn]]
    BY DEF Init
  <2> QED BY <2>1 DEF Shape
<1>3. failed \in BOOLEAN
  <2>1. p2p \in U!InitSwitch /\ failed \in {p2p.enable, TRUE}
    BY DEF Init, U!Init
  <2> QED BY <2>1 DEF U!InitSwitch
<1>4. client \in Jobs
  BY DEF Init, Jobs
<1> QED BY <1>1, <1>2, <1>3, <1>4 DEF PInv, Halfway, Working

(* An update begins: MdnsUpdater withdraws the record. *)
LEMMA UpdateMaps ==
  ASSUME PInv, Update
  PROVE  PInv' /\ U!Withdraw
<1> USE PublisherAssumption
<1>1. 1 \in All /\ Node \in Names /\ At("withdraw", 1) \in Phases
      /\ At("withdraw", 1).what = "withdraw" /\ At("withdraw", 1).at = 1
  BY DEF All, Names, At, Phases
<1>2. Put(Node, 1, Withdrawn) /\ greenlet' = After(At("withdraw", 1))
      /\ client' = client /\ failed' = failed
  BY DEF Update, WithdrawAt, Put, engine
<1>3. Shape' /\ adv'[Node][1] = Withdrawn
  BY <1>1, <1>2, PutAt DEF PInv
<1>4. /\ greenlet' \in Phases
      /\ \/ greenlet'.what = "withdraw" /\ greenlet'.at = 2 /\ 2 <= Interfaces
         \/ greenlet'.what = "register" /\ greenlet'.at = 1 /\ Interfaces = 1
  BY <1>1, <1>2, AfterIs DEF All
<1>5. Halfway'
  BY <1>3, <1>4 DEF Halfway, All
<1>6. PInv'
  BY <1>2, <1>3, <1>4, <1>5 DEF PInv, Working
<1>7. Published' = Withdrawn
  BY <1>1, <1>3, HiddenNext
<1>8. Working'
  BY <1>4 DEF Working
<1> QED BY <1>6, <1>7, <1>8 DEF Update, U!Withdraw

(* It goes on, which peers do not see, or ends: MdnsUpdater advertises.    *)
LEMMA UpdateStepMaps ==
  ASSUME PInv, UpdateStep
  PROVE  PInv' /\ (U!Advertise \/ UNCHANGED U!vars)
<1> USE PublisherAssumption
<1> DEFINE k == greenlet.at
<1>1. /\ Working /\ greenlet \in Phases /\ k \in All /\ Node \in Names
      /\ greenlet.what \in {"withdraw", "register"}
  BY DEF UpdateStep, Working, PInv, Halfway, All, Names
<1>2. greenlet' = After(greenlet) /\ failed' = (failed /\ greenlet' # Idle)
      /\ client' = client /\ txt' = txt
      /\ UNCHANGED <<p2p, versions, updates, running, calls>>
  BY DEF UpdateStep, engine
<1>3. CASE greenlet.what = "withdraw"
  <2>1. Put(Node, k, Withdrawn)
    BY <1>3 DEF UpdateStep, WithdrawAt, Put
  <2>2. /\ Shape' /\ adv'[Node][k] = Withdrawn
        /\ \A j \in All \ {k} : adv'[Node][j] = adv[Node][j]
    BY <1>1, <2>1, PutAt DEF PInv
  <2>3. k \in 2..Interfaces /\ \A i \in 1..k - 1 : adv[Node][i] = Withdrawn
    BY <1>3 DEF PInv, Halfway
  <2>4. \A i \in 1..k : adv'[Node][i] = Withdrawn
    BY <2>2, <2>3 DEF All
  <2>5. /\ greenlet' \in Phases
        /\ \/ greenlet'.what = "withdraw" /\ greenlet'.at = k + 1 /\ k + 1 <= Interfaces
           \/ greenlet'.what = "register" /\ greenlet'.at = 1 /\ k = Interfaces
    BY <1>1, <1>2, <1>3, AfterIs DEF All
  <2>6. Halfway'
    <3>1. CASE greenlet'.what = "withdraw"
      <4>1. greenlet'.at = k + 1 /\ k + 1 \in 2..Interfaces
        BY <1>1, <2>5, <3>1 DEF All
      <4> QED BY <1>1, <2>4, <3>1, <4>1 DEF Halfway, All
    <3>2. CASE greenlet'.what = "register"
      <4>1. greenlet'.at = 1 /\ \A i \in All : adv'[Node][i] = Withdrawn /\ ~(i < 1)
        BY <2>4, <2>5, <3>2 DEF All
      <4> QED BY <3>2, <4>1 DEF Halfway, All
    <3> QED BY <2>5, <3>1, <3>2
  <2>7. greenlet' # Idle /\ failed' = failed
    BY <1>2, <2>5 DEF Idle, At, PInv
  <2>8. PInv'
    BY <1>2, <2>2, <2>5, <2>6, <2>7 DEF PInv, Working
  <2>9. Published = Withdrawn /\ Published' = Withdrawn
    <3>1. 1 \in All /\ adv[Node][1] = Withdrawn /\ adv'[Node][1] = Withdrawn
      BY <2>3, <2>4 DEF All
    <3> QED BY <3>1, Hidden, HiddenNext
  <2>10. Working'
    BY <2>5 DEF Working
  <2> QED BY <1>1, <1>2, <2>7, <2>8, <2>9, <2>10 DEF U!vars
<1>4. CASE greenlet.what = "register"
  <2>1. Put(Node, k, txt)
    BY <1>4 DEF UpdateStep, RegisterAt, Put
  <2>2. /\ Shape' /\ adv'[Node][k] = txt
        /\ \A j \in All \ {k} : adv'[Node][j] = adv[Node][j]
    BY <1>1, <2>1, PutAt DEF PInv
  <2>3. \A i \in All : adv[Node][i] = IF i < k THEN txt ELSE Withdrawn
    BY <1>4 DEF PInv, Halfway
  <2>4. \A i \in All : adv'[Node][i] = IF i < k + 1 THEN txt ELSE Withdrawn
    BY <1>1, <2>2, <2>3 DEF All
  <2>5. CASE k < Interfaces
    <3>1. greenlet' \in Phases /\ greenlet'.what = "register" /\ greenlet'.at = k + 1
      BY <1>1, <1>2, <1>4, <2>5, AfterIs
    <3>2. k + 1 \in All
      BY <1>1, <2>5 DEF All
    <3>3. Halfway'
      BY <1>2, <2>4, <3>1, <3>2 DEF Halfway
    <3>4. greenlet' # Idle /\ failed' = failed
      BY <1>2, <3>1 DEF Idle, At, PInv
    <3>5. PInv'
      BY <1>2, <2>2, <3>1, <3>3, <3>4 DEF PInv, Working
    <3>6. Published = Withdrawn /\ Published' = Withdrawn
      <4>1. Interfaces \in All /\ adv[Node][Interfaces] = Withdrawn
            /\ adv'[Node][Interfaces] = Withdrawn
        BY <2>3, <2>4, <2>5, <1>1 DEF All
      <4> QED BY <4>1, Hidden, HiddenNext
    <3>7. Working'
      BY <3>1 DEF Working
    <3> QED BY <1>1, <1>2, <3>4, <3>5, <3>6, <3>7 DEF U!vars
  <2>6. CASE k = Interfaces
    <3>1. greenlet' = Idle /\ failed' = FALSE
      BY <1>1, <1>2, <1>4, <2>6, AfterIs
    <3>2. Idle \in Phases /\ Idle.what = "idle" /\ Idle.at = 0
      BY DEF Idle, At, Phases
    <3>3. PInv'
      BY <1>2, <2>2, <3>1, <3>2 DEF PInv, Halfway, Working
    <3>4. Published' = txt
      <4>1. \A i \in All : adv'[Node][i] = txt
        BY <2>4, <2>6 DEF All
      <4> QED BY <4>1, ShownNext
    <3>5. ~Working' /\ greenlet'.what = "idle"
      BY <3>1, <3>2 DEF Working
    <3> QED BY <1>1, <1>2, <3>1, <3>3, <3>4, <3>5 DEF U!Advertise
  <2> QED BY <1>1, <2>5, <2>6 DEF All
<1> QED BY <1>1, <1>3, <1>4

(* A step that leaves the node's row alone changes nothing peers see.      *)
LEMMA SameRowInv ==
  ASSUME PInv, greenlet' \in Phases, ~Working', greenlet'.at = 0, Shape',
         client' \in Jobs, failed' \in BOOLEAN
  PROVE  PInv'
BY DEF PInv, Halfway, Working

(* The greenlet drops a record, dies or ends. *)
LEMMA GreenletMaps ==
  ASSUME PInv, {"notfound", "error"} \subseteq Failures,
         UpdateFinds \/ UpdateDies \/ UpdaterEnds,
         UNCHANGED <<p2p, versions, txt, running, calls, table, dotted, engine>>
  PROVE  PInv' /\ (U!NotFound \/ U!Die \/ U!End)
<1>1. adv' = adv
  BY DEF UpdateFinds, UpdateDies, UpdaterEnds, WithdrawFails, RegisterFails
<1>2. Published' = Published /\ Shape' /\ client' \in Jobs
  BY <1>1 DEF Published, Everywhere, PInv, Shape, engine
<1>3. CASE UpdateFinds
  <2>1. greenlet' = greenlet /\ failed' = TRUE /\ ~Working
    BY <1>3 DEF UpdateFinds, U!Ready, Working
  <2>2. PInv'
    BY <1>2, <2>1, SameRowInv DEF PInv, Working
  <2>3. U!NotFound
    BY <1>2, <1>3, <2>1 DEF UpdateFinds, U!NotFound, Working
  <2> QED BY <2>2, <2>3
<1>4. CASE UpdateDies
  <2>1. greenlet' = At("dead", 0) /\ failed' = TRUE
    BY <1>4 DEF UpdateDies
  <2>2. greenlet' \in Phases /\ greenlet'.at = 0 /\ greenlet'.what = "dead" /\ ~Working'
    BY <2>1, PublisherAssumption DEF At, Phases, Working
  <2>3. PInv'
    BY <1>2, <2>1, <2>2, SameRowInv
  <2>4. \/ U!Ready /\ updates' = Tail(updates)
        \/ Working /\ UNCHANGED updates
    BY <1>4 DEF UpdateDies
  <2>5. U!Die
    BY <1>2, <2>1, <2>2, <2>4 DEF U!Die
  <2> QED BY <2>3, <2>5
<1>5. CASE UpdaterEnds
  <2>1. greenlet = Idle /\ ~running /\ greenlet' = At("done", 0)
        /\ UNCHANGED <<updates, failed>>
    BY <1>5 DEF UpdaterEnds
  <2>2. /\ greenlet' \in Phases /\ greenlet'.at = 0 /\ greenlet'.what = "done" /\ ~Working'
        /\ greenlet.what = "idle" /\ ~Working
    BY <2>1, PublisherAssumption DEF At, Idle, Phases, Working
  <2>3. PInv'
    BY <1>2, <2>1, <2>2, SameRowInv DEF PInv
  <2>4. U!End
    BY <1>2, <2>1, <2>2 DEF U!End
  <2> QED BY <2>3, <2>4
<1> QED BY <1>3, <1>4, <1>5

(* A call of the updater's users is one of MdnsUpdater. *)
LEMMA CallMaps ==
  ASSUME PInv, Call
  PROVE  PInv' /\ U!Call
<1>1. UNCHANGED <<greenlet, adv, client>>
  BY DEF Call, engine
<1>2. failed' = failed /\ txt' = txt
  BY DEF Call, U!Call, U!IncP2PEnableCount, U!P2PEnable, U!P2PDisable, U!UpdateMdns, U!Stop
<1> QED BY <1>1, <1>2 DEF Call, PInv, Shape, Halfway, Working

(* A step of the client is none of the updater's. *)
LEMMA ClientMaps ==
  ASSUME PInv, ClientStep \/ \E n \in Others : Register(n) \/ Unregister(n)
  PROVE  PInv' /\ UNCHANGED U!vars
<1> USE PublisherAssumption
<1>1. /\ UNCHANGED updater /\ client' \in Jobs /\ Shape'
      /\ \A i \in All : adv'[Node][i] = adv[Node][i]
  <2>1. ASSUME NEW n \in Others, Register(n) \/ Unregister(n)
        PROVE  UNCHANGED <<updater, adv>> /\ client' \in Jobs
    <3>1. 1 \in All /\ [what |-> "register", at |-> 1, name |-> n] \in Jobs
          /\ [what |-> "withdraw", at |-> 1, name |-> n] \in Jobs
      BY DEF All, Jobs
    <3> QED BY <2>1, <3>1 DEF Register, Unregister, PInv
  <2>2. CASE ClientStep
    <3> DEFINE n == client.name
    <3>1. client \in [what : {"register", "withdraw"}, at : All, name : Others]
      BY <2>2 DEF ClientStep, PInv, Jobs
    <3>2. n \in Others /\ n \in Names /\ n # Node /\ client.at \in All
      BY <3>1 DEF Names
    <3>3. UNCHANGED updater
      BY <2>2 DEF ClientStep
    <3>4. client' \in Jobs
      <4>1. Idle \in Jobs
        BY DEF Jobs
      <4>2. CASE client.at < Interfaces /\ client' = [client EXCEPT !.at = @ + 1]
        BY <3>1, <4>2 DEF Jobs, All
      <4> QED BY <2>2, <4>1, <4>2 DEF ClientStep
    <3>5. adv' = adv \/ Put(n, client.at, Base) \/ Put(n, client.at, Withdrawn)
      BY <2>2 DEF ClientStep, Goes, Raises, RegisterAt, WithdrawAt, RegisterFails,
                  WithdrawFails, Put
    <3>6. CASE adv' = adv
      BY <3>3, <3>4, <3>6 DEF Shape, PInv
    <3>7. ASSUME NEW r, Put(n, client.at, r)
          PROVE  Shape' /\ \A i \in All : adv'[Node][i] = adv[Node][i]
      <4>1. Node \in Names /\ Node # n
        BY <3>2 DEF Names
      <4> HIDE DEF n
      <4> QED BY <3>2, <3>7, <4>1, PutAt DEF PInv
    <3> QED BY <3>3, <3>4, <3>5, <3>6, <3>7
  <2> QED BY <2>1, <2>2 DEF PInv, Shape
<1>2. Published' = Published
  BY <1>1, SameRow
<1>3. PInv'
  <2>1. UNCHANGED <<greenlet, txt, failed>>
    BY <1>1 DEF updater
  <2>2. Halfway'
    <3>1. \A i \in 1..greenlet.at - 1 : greenlet.at \in 2..Interfaces => i \in All
      BY DEF All
    <3> QED BY <1>1, <2>1, <3>1 DEF PInv, Halfway
  <2> QED BY <1>1, <2>1, <2>2 DEF PInv, Working
<1> QED BY <1>1, <1>2, <1>3 DEF updater, U!vars, Working

(* The engine closes: MdnsUpdater withdraws what is advertised, if any.    *)
LEMMA CloseMaps ==
  ASSUME PInv, Close
  PROVE  PInv' /\ (U!EngineClose \/ UNCHANGED U!vars)
<1> USE PublisherAssumption
<1>1. /\ greenlet.what \in {"done", "dead"} /\ ~running
      /\ failed' = (failed \/ Published' # Published)
      /\ UNCHANGED <<p2p, versions, updates, txt, running, calls, greenlet, client>>
  BY DEF Close
<1>2. Shape' /\ (Published' = Withdrawn \/ Published' = Published)
  <2>1. Node \in Names /\ 1 \in All
    BY DEF Names, All
  <2>2. CASE adv' = [n \in Names |-> [i \in All |-> Withdrawn]]
    <3>1. Shape' /\ adv'[Node][1] = Withdrawn
      BY <2>1, <2>2 DEF Shape
    <3> QED BY <2>1, <3>1, HiddenNext
  <2>3. ASSUME NEW n \in table, NEW i \in All, NEW before \in SUBSET table,
               adv' = [m \in Names |-> [j \in All |->
                         IF m \in before \/ (m = n /\ j < i) THEN Withdrawn ELSE adv[m][j]]]
        PROVE  Shape' /\ (Published' = Withdrawn \/ Published' = Published)
    <3>1. Shape'
      BY <2>3 DEF Shape
    <3>2. \A j \in All : adv'[Node][j] =
            IF Node \in before \/ (Node = n /\ j < i) THEN Withdrawn ELSE adv[Node][j]
      BY <2>1, <2>3
    <3>3. CASE Node \in before \/ (Node = n /\ 1 < i)
      <4>1. adv'[Node][1] = Withdrawn
        BY <2>1, <3>2, <3>3
      <4> QED BY <2>1, <3>1, <4>1, HiddenNext
    <3>4. CASE ~(Node \in before \/ (Node = n /\ 1 < i))
      <4>1. \A j \in All : adv'[Node][j] = adv[Node][j]
        BY <3>2, <3>4 DEF All
      <4> QED BY <3>1, <4>1, SameRow
    <3> QED BY <3>3, <3>4
  <2> QED BY <2>2, <2>3 DEF Close
<1>3. failed' \in BOOLEAN /\ (Published' = Published => failed' = failed)
  BY <1>1 DEF PInv
<1>4. PInv'
  <2>1. greenlet' \in Phases /\ ~Working' /\ greenlet'.at = 0 /\ client' \in Jobs
    BY <1>1 DEF PInv, Working
  <2> QED BY <1>2, <1>3, <2>1, SameRowInv
<1>5. CASE Published' = Published
  BY <1>1, <1>3, <1>4, <1>5 DEF U!vars, Working
<1>6. CASE Published' # Published
  <2>1. Published # Withdrawn /\ Published' = Withdrawn /\ failed' = TRUE
    BY <1>1, <1>2, <1>6 DEF PInv
  <2> QED BY <1>1, <1>4, <2>1 DEF U!EngineClose, Working
<1> QED BY <1>5, <1>6
-------------------------------------------------------------------------------
(* Every step keeps the invariant and is one of MdnsUpdater or none. *)
LEMMA StepMaps ==
  ASSUME {"notfound", "error"} \subseteq Failures, PInv, [Next]_vars
  PROVE  PInv' /\ [U!Next]_U!vars
<1>1. CASE Call
  BY <1>1, CallMaps DEF U!Next
<1>2. CASE Modify
  <2>1. CASE Update
    BY <2>1, UpdateMaps DEF U!Next, U!Modify
  <2>2. CASE UpdateStep
    BY <2>2, UpdateStepMaps DEF U!Next, U!Modify
  <2>3. CASE (UpdateFinds \/ UpdateDies \/ UpdaterEnds)
             /\ UNCHANGED <<p2p, versions, txt, running, calls, table, dotted, engine>>
    BY <2>3, GreenletMaps DEF U!Next, U!Modify
  <2> QED BY <1>2, <2>1, <2>2, <2>3 DEF Modify
<1>3. CASE ClientStep \/ \E n \in Others : Register(n) \/ Unregister(n)
  BY <1>3, ClientMaps
<1>4. CASE Close
  BY <1>4, CloseMaps DEF U!Next
<1>5. CASE UNCHANGED vars
  <2>1. PInv'
    BY <1>5 DEF vars, updater, engine, PInv, Shape, Halfway, Working
  <2>2. UNCHANGED U!vars
    BY <1>5 DEF vars, updater, U!vars, Published, Everywhere, Working
  <2> QED BY <2>1, <2>2
<1> QED BY <1>1, <1>2, <1>3, <1>4, <1>5 DEF Next

(* The updater's greenlet over the engine's table of registrations on      *)
(* several interfaces (MDNSRegistration.update, register and unRegister    *)
(* and the client's calls in between) behaves as MdnsUpdater says, in its  *)
(* initial states and every step, if that may fail as the engine does.     *)
THEOREM UpdaterImplemented ==
  ASSUME {"notfound", "error"} \subseteq Failures
  PROVE  Spec => U!Spec
<1>1. Init => PInv /\ U!Init
  BY InitMaps
<1>2. PInv /\ [Next]_vars => PInv' /\ [U!Next]_U!vars
  BY StepMaps
<1> QED BY <1>1, <1>2, PTL DEF Spec, U!Spec
-------------------------------------------------------------------------------
(* The client is at work on the service. *)
Handles(n) == client # Idle /\ client.name = n

Tables ==
  /\ table \subseteq Names
  /\ info \in [Names -> SUBSET All]
  /\ told = [n \in Names |-> told[n]]

(* What one of the client's services looks like before the engine closes.  *)
Kept(n) ==
  /\ told[n] = "established" /\ ~Handles(n) =>
       n \in table /\ \A i \in All : adv[n][i] = Base
  /\ Handles(n) /\ client.what = "register" =>
       n \in table /\ \A i \in 1..client.at - 1 : adv[n][i] = Base /\ i \in info[n]
  /\ Handles(n) /\ client.what = "withdraw" =>
       n \notin table /\ \A i \in 1..client.at - 1 : adv[n][i] = Withdrawn

(* A registration lacks an info only if its failure was told. *)
Whole(n) ==
  n \in table /\ ~Handles(n) => info[n] = All \/ told[n] \in {"failed", "collision"}

(* Whatever is advertised can be withdrawn. *)
Owned(n) ==
  \A i \in All : adv[n][i] # Withdrawn => n \in table \/ n \in lost \/ Handles(n)

Opened == closed = "no" =>
  Node \in table /\ (\A n \in Others : Kept(n)) /\ (\A n \in Names : Whole(n))
Shut == closed # "no" => client = Idle /\ greenlet.what \in {"done", "dead"}
AllOwned == (\A n \in Names : Owned(n)) /\ (closed # "done" => Node \in table)
Empty == closed = "done" => table = {} /\ \A n \in Names, i \in All : adv[n][i] = Withdrawn

EInv == PInv /\ Tables /\ Opened /\ Shut /\ AllOwned /\ Empty /\ ClosesClean

(* The interfaces that a job has done with. *)
LEMMA DoneWith ==
  ASSUME PInv, client # Idle
  PROVE  /\ client \in [what : {"register", "withdraw"}, at : All, name : Others]
         /\ client.name \in Names /\ client.name # Node
         /\ \A i \in 1..client.at - 1 : i \in All
<1>1. client \in [what : {"register", "withdraw"}, at : All, name : Others]
  BY DEF PInv, Jobs
<1>2. client.at \in 1..Interfaces /\ client.name \in Others
  BY <1>1 DEF All
<1> QED BY <1>1, <1>2, PublisherAssumption DEF All, Names

(* At first only the node is registered, wholly or with word of a failure. *)
LEMMA InitKept == Init => EInv
<1> SUFFICES ASSUME Init PROVE EInv
  OBVIOUS
<1> USE PublisherAssumption
<1>1. /\ table = {Node} /\ client = Idle /\ closed = "no" /\ greenlet = Idle
  BY DEF Init
<1>2. PICK upto \in 0..Interfaces :
        /\ info = [n \in Names |-> IF n # Node THEN {}
                                   ELSE 1..(IF upto < Interfaces THEN upto + 1 ELSE upto)]
        /\ adv = [n \in Names |-> [i \in All |->
                    IF n = Node /\ i <= upto THEN Base ELSE Withdrawn]]
        /\ told = [n \in Names |-> IF n # Node THEN "gone"
                                   ELSE IF upto = Interfaces THEN "established" ELSE "failed"]
  BY DEF Init
<1>3. Node \in Names /\ \A n \in Others : n \in Names /\ n # Node
  BY DEF Names
<1>4. Tables
  BY <1>1, <1>2, <1>3 DEF Tables, All
<1>5. \A n \in Others : Kept(n)
  BY <1>1, <1>2, <1>3 DEF Kept, Handles
<1>6. \A n \in Names : Whole(n)
  <2>1. upto = Interfaces => info[Node] = All
    BY <1>2, <1>3 DEF All
  <2>2. upto # Interfaces => told[Node] = "failed"
    BY <1>2, <1>3
  <2> QED BY <1>1, <2>1, <2>2 DEF Whole
<1>7. \A n \in Names : Owned(n)
  BY <1>1, <1>2 DEF Owned
<1> QED BY <1>1, <1>3, <1>4, <1>5, <1>6, <1>7, InitMaps
     DEF EInv, Opened, Shut, AllOwned, Empty, ClosesClean

(* A step of the updater's greenlet concerns the node's own row. *)
LEMMA RowKeeps ==
  ASSUME EInv, PInv', closed = "no", UNCHANGED <<table, engine>>,
         info' \in [Names -> SUBSET All], info[Node] \subseteq info'[Node],
         \A n \in Others : info'[n] = info[n] /\ \A i \in All : adv'[n][i] = adv[n][i]
  PROVE  EInv'
<1> USE PublisherAssumption
<1>1. Node \in Names /\ \A n \in Names : n = Node \/ n \in Others
  BY DEF Names
<1>2. /\ table' = table /\ client' = client /\ told' = told /\ lost' = lost
      /\ closed' = "no" /\ \A n : Handles(n)' <=> Handles(n)
  BY DEF engine, Handles
<1>3. Tables'
  BY <1>2 DEF EInv, Tables
<1>4. ASSUME NEW n \in Others PROVE Kept(n)'
  <2>1. Kept(n)
    BY DEF EInv, Opened
  <2>2. Handles(n) => \A i \in 1..client.at - 1 : i \in All
    BY DoneWith DEF EInv, Handles
  <2> QED BY <1>2, <2>1, <2>2 DEF Kept
<1>5. ASSUME NEW n \in Names PROVE Whole(n)'
  <2>1. Whole(n) /\ info[n] \subseteq info'[n] /\ info'[n] \subseteq All
    BY <1>1 DEF EInv, Opened
  <2> QED BY <1>2, <2>1 DEF Whole
<1>6. ASSUME NEW n \in Names PROVE Owned(n)'
  <2>1. CASE n = Node
    BY <1>2, <2>1 DEF EInv, Opened, Owned
  <2>2. CASE n \in Others
    BY <1>2, <2>2 DEF EInv, AllOwned, Owned
  <2> QED BY <1>1, <2>1, <2>2
<1>7. Node \in table
  BY DEF EInv, Opened
<1> QED BY <1>2, <1>3, <1>4, <1>5, <1>6, <1>7
     DEF EInv, Opened, Shut, AllOwned, Empty, ClosesClean

(* The greenlet only works before the engine is closed. *)
LEMMA ModifyKeeps ==
  ASSUME EInv, PInv', Modify
  PROVE  EInv'
<1> USE PublisherAssumption
<1>1. UNCHANGED <<table, engine>>
  BY DEF Modify, Update, UpdateStep
<1>2. greenlet.what \in {"idle", "withdraw", "register"}
  BY DEF Modify, Update, UpdateStep, UpdateFinds, UpdateDies, UpdaterEnds, U!Ready, Working,
         Idle, At
<1>3. closed = "no"
  BY <1>2 DEF EInv, Shut
<1>4. Node \in Names /\ \A n \in Others : n \in Names /\ n # Node
  BY DEF Names
<1>5. 1 \in All /\ (Working => greenlet.at \in All)
  BY DEF EInv, PInv, Halfway, Working, All
<1>6. /\ \/ info' = info
         \/ Working /\ info' = [info EXCEPT ![Node] = @ \cup {greenlet.at}]
      /\ \/ adv' = adv
         \/ \E i \in All : \E r : Put(Node, i, r)
  <2>1. CASE Update
    <3>1. Put(Node, 1, Withdrawn) /\ info' = info
      BY <2>1 DEF Update, WithdrawAt, Put
    <3> QED BY <1>5, <3>1
  <2>2. CASE UpdateStep
    <3>1. Working
      BY <2>2 DEF UpdateStep
    <3>2. CASE greenlet.what = "withdraw"
      <4>1. Put(Node, greenlet.at, Withdrawn) /\ info' = info
        BY <2>2, <3>2 DEF UpdateStep, WithdrawAt, Put
      <4> QED BY <1>5, <3>1, <4>1
    <3>3. CASE greenlet.what # "withdraw"
      <4>1. Put(Node, greenlet.at, txt) /\ info' = [info EXCEPT ![Node] = @ \cup {greenlet.at}]
        BY <2>2, <3>3 DEF UpdateStep, RegisterAt, Put
      <4> QED BY <1>5, <3>1, <4>1
    <3> QED BY <3>2, <3>3
  <2>3. CASE UpdateFinds \/ UpdaterEnds
    BY <2>3 DEF UpdateFinds, UpdaterEnds
  <2>4. CASE UpdateDies
    BY <2>4 DEF UpdateDies, WithdrawFails, RegisterFails
  <2> QED BY <2>1, <2>2, <2>3, <2>4 DEF Modify
<1>7. info' \in [Names -> SUBSET All] /\ info[Node] \subseteq info'[Node]
      /\ \A n \in Others : info'[n] = info[n]
  BY <1>4, <1>5, <1>6 DEF EInv, Tables
<1>8. \A n \in Others, i \in All : adv'[n][i] = adv[n][i]
  BY <1>4, <1>6, PutAt DEF EInv, PInv
<1> QED BY <1>1, <1>3, <1>7, <1>8, RowKeeps

(* A new registration is the client's to complete. *)
LEMMA RegisterKeeps ==
  ASSUME EInv, PInv', NEW n \in Others, Register(n)
  PROVE  EInv'
<1> USE PublisherAssumption
<1>1. /\ n \in Names /\ n # Node /\ client = Idle /\ closed = "no" /\ closed' = "no"
      /\ adv' = adv /\ lost' = lost
  BY DEF Register, ClientCalls, Names
<1>2. Tables /\ Opened /\ AllOwned /\ \A m : ~Handles(m)
  BY <1>1 DEF EInv, Handles
<1>3. CASE /\ UNCHANGED <<table, info, client>>
           /\ told' = [told EXCEPT ![n] = "collision"] \/ told' = [told EXCEPT ![n] = "failed"]
  <2>1. /\ told'[n] \in {"collision", "failed"} /\ \A m \in Names \ {n} : told'[m] = told[m]
        /\ told' = [m \in Names |-> told'[m]]
    BY <1>1, <1>2, <1>3 DEF Tables
  <2>2. \A m : ~Handles(m)'
    BY <1>1, <1>3 DEF Handles
  <2>3. Tables'
    BY <1>2, <1>3, <2>1 DEF Tables
  <2>4. \A m \in Others : Kept(m)'
    BY <1>1, <1>2, <1>3, <2>1, <2>2 DEF Opened, Kept, Names
  <2>5. \A m \in Names : Whole(m)'
    BY <1>1, <1>2, <1>3, <2>1, <2>2 DEF Opened, Whole
  <2>6. \A m \in Names : Owned(m)'
    BY <1>1, <1>2, <1>3 DEF AllOwned, Owned
  <2> QED BY <1>1, <1>2, <1>3, <2>3, <2>4, <2>5, <2>6
       DEF EInv, Opened, Shut, AllOwned, Empty, ClosesClean
<1>4. CASE /\ table' = table \cup {n} /\ info' = [info EXCEPT ![n] = {}]
           /\ client' = [what |-> "register", at |-> 1, name |-> n]
           /\ told' = told
  <2>1. /\ client' # Idle /\ client'.name = n /\ client'.what = "register" /\ client'.at = 1
    BY <1>4 DEF Idle, At
  <2>2. Handles(n)' /\ \A m \in Names \ {n} : ~Handles(m)'
    BY <2>1 DEF Handles
  <2>3. Tables' /\ \A m \in Names \ {n} : info'[m] = info[m]
    BY <1>1, <1>2, <1>4 DEF Tables
  <2>4. \A m \in Others : Kept(m)'
    <3>1. Kept(n)'
      BY <1>4, <2>1, <2>2 DEF Kept
    <3>2. ASSUME NEW m \in Others, m # n PROVE Kept(m)'
      BY <1>1, <1>2, <1>4, <2>2, <3>2 DEF Kept, Opened, Names
    <3> QED BY <3>1, <3>2
  <2>5. \A m \in Names : Whole(m)'
    BY <1>1, <1>2, <1>4, <2>2, <2>3 DEF Opened, Whole
  <2>6. \A m \in Names : Owned(m)'
    BY <1>1, <1>2, <1>4 DEF AllOwned, Owned
  <2> QED BY <1>1, <1>2, <1>4, <2>3, <2>4, <2>5, <2>6
       DEF EInv, Opened, Shut, AllOwned, Empty, ClosesClean
<1> QED BY <1>3, <1>4 DEF Register

(* A registration that is withdrawn is the client's till it is gone. *)
LEMMA UnregisterKeeps ==
  ASSUME EInv, PInv', NEW n \in Others, Unregister(n)
  PROVE  EInv'
<1> USE PublisherAssumption
<1>1. /\ n \in Names /\ n # Node /\ client = Idle /\ closed = "no" /\ closed' = "no"
      /\ adv' = adv /\ lost' = lost /\ info' = info /\ told' = told
  BY DEF Unregister, ClientCalls, Names
<1>2. Tables /\ Opened /\ AllOwned /\ \A m : ~Handles(m)
  BY <1>1 DEF EInv, Handles
<1>3. CASE UNCHANGED <<table, client>>
  BY <1>1, <1>3 DEF EInv, Tables, Opened, Kept, Whole, Shut, AllOwned, Owned, Handles,
                    Empty, ClosesClean
<1>4. CASE /\ table' = table \ {n}
           /\ client' = [what |-> "withdraw", at |-> 1, name |-> n]
  <2>1. /\ client' # Idle /\ client'.name = n /\ client'.what = "withdraw" /\ client'.at = 1
    BY <1>4 DEF Idle, At
  <2>2. Handles(n)' /\ \A m \in Names \ {n} : ~Handles(m)'
    BY <2>1 DEF Handles
  <2>3. Tables'
    BY <1>1, <1>2, <1>4 DEF Tables
  <2>4. \A m \in Others : Kept(m)'
    <3>1. Kept(n)'
      BY <1>4, <2>1, <2>2 DEF Kept
    <3>2. ASSUME NEW m \in Others, m # n PROVE Kept(m)'
      BY <1>1, <1>2, <1>4, <2>2, <3>2 DEF Kept, Opened, Names
    <3> QED BY <3>1, <3>2
  <2>5. \A m \in Names : Whole(m)'
    BY <1>1, <1>2, <1>4, <2>2 DEF Opened, Whole
  <2>6. \A m \in Names : Owned(m)'
    BY <1>1, <1>2, <1>4, <2>2 DEF AllOwned, Owned
  <2> QED BY <1>1, <1>2, <1>4, <2>3, <2>4, <2>5, <2>6
       DEF EInv, Opened, Shut, AllOwned, Empty, ClosesClean
<1> QED BY <1>3, <1>4 DEF Unregister

(* A step that touches one service only. *)
LeavesOthers(n) ==
  \A m \in Names \ {n} : /\ info'[m] = info[m] /\ told'[m] = told[m]
                         /\ (m \in lost' <=> m \in lost)
                         /\ \A i \in All : adv'[m][i] = adv[m][i]

(* Any other service stays as it was, if the client is not at work on it.  *)
LEMMA OtherKept ==
  ASSUME EInv, closed = "no", closed' = "no", table' = table, NEW n \in Names,
         LeavesOthers(n), NEW m \in Names, m # n, ~Handles(m), ~Handles(m)'
  PROVE  (m \in Others => Kept(m)') /\ Whole(m)' /\ Owned(m)'
<1>1. (m \in Others => Kept(m)) /\ Whole(m) /\ Owned(m)
  BY DEF EInv, Opened, AllOwned
<1> QED BY <1>1 DEF LeavesOthers, Kept, Whole, Owned

(* The client's step completes a job, raises, or goes on to the next       *)
(* interface.                                                              *)
LEMMA ClientStepKeeps ==
  ASSUME EInv, PInv', ClientStep
  PROVE  EInv'
<1> USE PublisherAssumption
<1>0. client \in [what : {"register", "withdraw"}, at : All, name : Others] /\ client # Idle
  BY DoneWith DEF ClientStep, EInv
<1>a. PICK n \in Others : client.name = n
  BY <1>0
<1>b. PICK k \in All : client.at = k
  BY <1>0
<1> DEFINE Further == /\ k < Interfaces /\ client' = [client EXCEPT !.at = @ + 1]
                      /\ told' = told
                      /\ lost' = (IF client' = Idle THEN lost \ {n} ELSE lost)
           Done == /\ k = Interfaces /\ client' = Idle /\ lost' = lost \ {n}
                   /\ told' = [told EXCEPT ![n] = IF client.what = "register"
                                                  THEN "established" ELSE "gone"]
           Stumbles == /\ client' = Idle
                       /\ \E why \in IF client.what = "register" THEN {"collision", "failed"}
                                      ELSE {"raised"} : told' = [told EXCEPT ![n] = why]
                       /\ lost' = (IF client.what = "withdraw" THEN lost \cup {n} ELSE lost)
<1>1. /\ client # Idle /\ client.what \in {"register", "withdraw"}
      /\ client.name = n /\ client.at = k
      /\ n \in Names /\ n \in Others /\ n # Node /\ k \in 1..Interfaces /\ k \in All
      /\ \A i \in 1..k - 1 : i \in All
      /\ client \in [what : {"register", "withdraw"}, at : All, name : Others]
  BY <1>0, <1>a, <1>b DEF All, Names
<1>2. closed = "no" /\ closed' = "no" /\ table' = table
  BY <1>1 DEF ClientStep, EInv, Shut
<1>3. Tables /\ Opened /\ AllOwned /\ Kept(n) /\ Handles(n) /\ Owned(n) /\ Node \in table
  BY <1>1, <1>2 DEF EInv, Opened, AllOwned, Handles
<1>5. (Goes(n) /\ (Further \/ Done)) \/ (Raises(n) /\ Stumbles)
  <2>1. k < Interfaces \/ k = Interfaces
    BY <1>1
  <2>2. CASE Goes(n)
    BY <1>1, <2>1, <2>2 DEF ClientStep
  <2>3. CASE Raises(n) /\ Stumbles
    BY <2>3
  <2> QED BY <1>1, <2>2, <2>3 DEF ClientStep
(* What the step did to the service's own row. *)
<1>4. CASE Goes(n) /\ (Further \/ Done)
  <2>1. /\ client.what = "register" => Put(n, k, Base) /\ info' = [info EXCEPT ![n] = @ \cup {k}]
        /\ client.what = "withdraw" => Put(n, k, Withdrawn) /\ info' = info
    BY <1>1, <1>4 DEF Goes, RegisterAt, WithdrawAt, Put
  <2>2. /\ info' \in [Names -> SUBSET All] /\ \A m \in Names \ {n} : info'[m] = info[m]
        /\ client.what = "register" => info'[n] = info[n] \cup {k}
    BY <1>1, <1>3, <2>1 DEF Tables
  <2>3. /\ client.what = "register" => adv'[n][k] = Base
        /\ client.what = "withdraw" => adv'[n][k] = Withdrawn
        /\ \A m \in Names, i \in All : m # n \/ i # k => adv'[m][i] = adv[m][i]
    BY <1>1, <2>1, PutAt DEF EInv, PInv
  <2>4. /\ client.what = "register" =>
             n \in table /\ \A i \in 1..k : adv'[n][i] = Base /\ i \in info'[n]
        /\ client.what = "withdraw" =>
             n \notin table /\ \A i \in 1..k : adv'[n][i] = Withdrawn
    <3>1. \A i \in 1..k : i = k \/ (i \in 1..k - 1 /\ i \in All)
      BY <1>1
    <3>2. /\ client.what = "register" =>
               n \in table /\ \A i \in 1..k - 1 : adv[n][i] = Base /\ i \in info[n]
          /\ client.what = "withdraw" =>
               n \notin table /\ \A i \in 1..k - 1 : adv[n][i] = Withdrawn
      BY <1>1, <1>3 DEF Kept, Handles
    <3>3. CASE client.what = "register"
      BY <1>1, <2>2, <2>3, <3>1, <3>2, <3>3
    <3>4. CASE client.what = "withdraw"
      BY <1>1, <2>3, <3>1, <3>2, <3>4
    <3> QED BY <1>1, <3>3, <3>4
  <2>5. CASE Further
    <3>1. /\ client'.what = client.what /\ client'.name = n /\ client'.at = k + 1
          /\ client'.what \in {"register", "withdraw"}
      BY <1>1, <2>5
    <3>2. client' # Idle /\ Handles(n)' /\ lost' = lost
      BY <2>5, <3>1 DEF Idle, At, Handles
    <3>3. Tables'
      BY <1>2, <1>3, <2>2, <2>5 DEF Tables
    <3>4. \A m \in Names \ {n} : (m \in Others => Kept(m)') /\ Whole(m)' /\ Owned(m)'
      <4>1. LeavesOthers(n)
        BY <2>2, <2>3, <2>5, <3>2 DEF LeavesOthers
      <4>2. \A m \in Names \ {n} : ~Handles(m) /\ ~Handles(m)'
        BY <1>1, <3>1 DEF Handles
      <4> QED BY <1>1, <1>2, <4>1, <4>2, OtherKept
    <3>5. Kept(n)' /\ Whole(n)' /\ Owned(n)'
      <4>1. \A i \in 1..client'.at - 1 : i \in 1..k
        BY <1>1, <3>1
      <4> QED BY <1>2, <2>4, <3>1, <3>2, <4>1 DEF Kept, Whole, Owned
    <3> QED BY <1>1, <1>2, <1>3, <3>3, <3>4, <3>5
         DEF EInv, Opened, Shut, AllOwned, Empty, ClosesClean, Names
  <2>6. CASE Done
    <3>1. /\ told'[n] = (IF client.what = "register" THEN "established" ELSE "gone")
          /\ \A m \in Names \ {n} : told'[m] = told[m]
          /\ told' = [m \in Names |-> told'[m]]
      BY <1>1, <1>3, <2>6 DEF Tables
    <3>2. ~Handles(n)'
      BY <2>6 DEF Handles
    <3>3. Tables'
      BY <1>2, <1>3, <2>2, <3>1 DEF Tables
    <3>4. \A m \in Names \ {n} : (m \in Others => Kept(m)') /\ Whole(m)' /\ Owned(m)'
      <4>1. client' = Idle /\ \A m \in Names \ {n} : m \in lost' <=> m \in lost
        BY <2>6
      <4>2. \A m \in Names \ {n} : \A i \in All : adv'[m][i] = adv[m][i]
        BY <2>3
      <4>3. LeavesOthers(n)
        BY <2>2, <3>1, <4>1, <4>2 DEF LeavesOthers
      <4>4. \A m \in Names \ {n} : ~Handles(m) /\ ~Handles(m)'
        BY <1>1, <4>1 DEF Handles
      <4> QED BY <1>1, <1>2, <4>3, <4>4, OtherKept
    <3>5. Kept(n)' /\ Whole(n)' /\ Owned(n)'
      <4>1. CASE client.what = "register"
        <5>1. n \in table' /\ \A i \in All : adv'[n][i] = Base /\ i \in info'[n]
          BY <1>2, <2>4, <2>6, <4>1 DEF All
        <5>2. info'[n] = All
          BY <1>1, <2>2, <5>1
        <5> QED BY <3>2, <5>1, <5>2 DEF Kept, Whole, Owned
      <4>2. CASE client.what = "withdraw"
        <5>1. n \notin table' /\ \A i \in All : adv'[n][i] = Withdrawn
          BY <1>2, <2>4, <2>6, <4>2 DEF All
        <5>2. told'[n] = "gone"
          BY <3>1, <4>2
        <5> QED BY <3>2, <5>1, <5>2 DEF Kept, Whole, Owned
      <4> QED BY <1>1, <4>1, <4>2
    <3> QED BY <1>1, <1>2, <1>3, <2>6, <3>3, <3>4, <3>5
         DEF EInv, Opened, Shut, AllOwned, Empty, ClosesClean, Names
  <2> QED BY <1>4, <2>5, <2>6
<1>6. CASE Raises(n) /\ Stumbles
  <2>1. /\ adv' = adv
        /\ client.what = "register" => info' = [info EXCEPT ![n] = @ \cup {k}]
        /\ client.what = "withdraw" => info' = info
    BY <1>1, <1>6 DEF Raises, RegisterFails, WithdrawFails
  <2>2. /\ info' \in [Names -> SUBSET All] /\ \A m \in Names \ {n} : info'[m] = info[m]
    BY <1>1, <1>3, <2>1 DEF Tables
  <2>3. /\ told'[n] \in (IF client.what = "register" THEN {"collision", "failed"} ELSE {"raised"})
        /\ \A m \in Names \ {n} : told'[m] = told[m]
        /\ told' = [m \in Names |-> told'[m]]
    BY <1>1, <1>3, <1>6 DEF Tables
  <2>4. ~Handles(n)'
    BY <1>6 DEF Handles
  <2>5. Tables'
    BY <1>2, <1>3, <2>2, <2>3 DEF Tables
  <2>6. \A m \in Names \ {n} : (m \in Others => Kept(m)') /\ Whole(m)' /\ Owned(m)'
    <3>1. client' = Idle /\ \A m \in Names \ {n} : m \in lost' <=> m \in lost
      BY <1>6
    <3>2. \A m \in Names \ {n} : \A i \in All : adv'[m][i] = adv[m][i]
      BY <2>1
    <3>3. LeavesOthers(n)
      BY <2>2, <2>3, <3>1, <3>2 DEF LeavesOthers
    <3>4. \A m \in Names \ {n} : ~Handles(m) /\ ~Handles(m)'
      BY <1>1, <3>1 DEF Handles
    <3> QED BY <1>1, <1>2, <3>3, <3>4, OtherKept
  <2>7. Kept(n)' /\ Whole(n)' /\ Owned(n)'
    <3>1. CASE client.what = "register"
      <4>1. n \in table' /\ told'[n] \in {"collision", "failed"}
        BY <1>1, <1>2, <1>3, <2>3, <3>1 DEF Kept
      <4> QED BY <2>4, <4>1 DEF Kept, Whole, Owned
    <3>2. CASE client.what = "withdraw"
      <4>1. n \notin table' /\ n \in lost' /\ told'[n] = "raised"
        BY <1>1, <1>2, <1>3, <1>6, <2>3, <3>2 DEF Kept
      <4> QED BY <2>4, <4>1 DEF Kept, Whole, Owned
    <3> QED BY <1>1, <3>1, <3>2
  <2> QED BY <1>1, <1>2, <1>3, <1>6, <2>5, <2>6, <2>7
       DEF EInv, Opened, Shut, AllOwned, Empty, ClosesClean, Names
<1> QED BY <1>4, <1>5, <1>6

(* The close withdraws what it comes to; what raises a KeyError is a       *)
(* registration without all its infos, whose failure was told.             *)
LEMMA CloseKeeps ==
  ASSUME EInv, PInv', Close
  PROVE  EInv'
<1>1. /\ client = Idle /\ client' = Idle /\ closed = "no" /\ info' = info /\ told' = told
      /\ lost' = lost /\ greenlet' = greenlet /\ greenlet.what \in {"done", "dead"}
  BY DEF Close
<1>2. Tables /\ Opened /\ AllOwned /\ \A m : ~Handles(m)
  BY <1>1 DEF EInv, Handles
<1>3. CASE /\ adv' = [n \in Names |-> [i \in All |-> Withdrawn]]
           /\ table' = {} /\ closed' = "done"
  BY <1>1, <1>2, <1>3 DEF EInv, Tables, Opened, Shut, AllOwned, Owned, Empty, ClosesClean
<1>4. ASSUME NEW n \in table, NEW i \in All, NEW before \in SUBSET table,
             closed' = IF NoInfo(n, i) THEN "keyerror" ELSE "raised",
             adv' = [m \in Names |-> [j \in All |->
                       IF m \in before \/ (m = n /\ j < i) THEN Withdrawn ELSE adv[m][j]]],
             table' = table
      PROVE  EInv'
  <2>1. Tables' /\ n \in Names
    BY <1>1, <1>2, <1>4 DEF Tables
  <2>2. \A m \in Names : Owned(m)'
    <3> SUFFICES ASSUME NEW m \in Names, NEW j \in All, adv'[m][j] # Withdrawn
                 PROVE  m \in table' \/ m \in lost'
      BY DEF Owned
    <3>1. adv[m][j] # Withdrawn
      BY <1>4
    <3> QED BY <1>1, <1>2, <1>4, <3>1 DEF AllOwned, Owned
  <2>3. ClosesClean'
    <3>1. CASE NoInfo(n, i)
      <4>1. info[n] # All
        BY <3>1 DEF NoInfo
      <4>2. told[n] \in {"failed", "collision"}
        BY <1>1, <1>2, <2>1, <4>1 DEF Opened, Whole
      <4> QED BY <1>1, <1>4, <4>2 DEF ClosesClean
    <3>2. CASE ~NoInfo(n, i)
      BY <1>4, <3>2 DEF ClosesClean
    <3> QED BY <3>1, <3>2
  <2>4. closed' \notin {"no", "done"}
    BY <1>4
  <2> QED BY <1>1, <1>2, <1>4, <2>1, <2>2, <2>3, <2>4
       DEF EInv, Opened, Shut, AllOwned, Empty
<1> QED BY <1>3, <1>4 DEF Close

(* Every step keeps what the client relies on. *)
LEMMA StepKeeps ==
  ASSUME {"notfound", "error"} \subseteq Failures, EInv, [Next]_vars
  PROVE  EInv'
<1>1. PInv'
  BY StepMaps DEF EInv
<1>2. CASE UNCHANGED <<greenlet, table, info, adv, engine>>
  BY <1>1, <1>2 DEF engine, EInv, Tables, Opened, Kept, Whole, Shut, AllOwned, Owned,
                    Handles, Empty, ClosesClean
<1>3. CASE Call
  BY <1>2, <1>3 DEF Call
<1>4. CASE UNCHANGED vars
  BY <1>2, <1>4 DEF vars, updater
<1>5. CASE \E n \in Others : Register(n) \/ Unregister(n)
  BY <1>1, <1>5, RegisterKeeps, UnregisterKeeps
<1> QED BY <1>1, <1>3, <1>4, <1>5, ModifyKeeps, ClientStepKeeps, CloseKeeps DEF Next

(* So it holds in every reachable state. *)
LEMMA AlwaysKept ==
  ASSUME {"notfound", "error"} \subseteq Failures
  PROVE  Spec => []EInv
<1>1. EInv /\ [Next]_vars => EInv'
  BY StepKeeps
<1> QED BY <1>1, InitKept, PTL DEF Spec

(* A client that was told its service is established finds it advertised   *)
(* on every interface, whatever other services and the updater's greenlet  *)
(* go through (mdnsRegistration.py, mdnsRegistrationController.py).        *)
THEOREM EstablishedIsAdvertised ==
  ASSUME {"notfound", "error"} \subseteq Failures
  PROVE  Spec => []Established
<1>1. EInv => Established
  BY DEF EInv, Opened, Kept, Handles, Established
<1> QED BY <1>1, AlwaysKept, PTL

(* Nothing is advertised without a registration by which it can be         *)
(* withdrawn, except after a withdrawal that raised, and nothing at all    *)
(* after the engine's close (mdnsEngine.py, mdnsRegistrationController.py).*)
THEOREM NeverOrphans ==
  ASSUME {"notfound", "error"} \subseteq Failures
  PROVE  Spec => []NoOrphans
<1>1. EInv => NoOrphans
  BY DEF EInv, AllOwned, Owned, Empty, Handles, NoOrphans
<1> QED BY <1>1, AlwaysKept, PTL

(* The engine's close raises a KeyError only for a registration whose      *)
(* failure the client, or the log, was told (mdnsRegistration.py, 44-54).  *)
THEOREM AlwaysClosesClean ==
  ASSUME {"notfound", "error"} \subseteq Failures
  PROVE  Spec => []ClosesClean
<1>1. EInv => ClosesClean
  BY DEF EInv
<1> QED BY <1>1, AlwaysKept, PTL
-------------------------------------------------------------------------------
(* What is proved of MdnsUpdater holds of the updater over the engine.     *)
UP == INSTANCE MdnsUpdaterProofs
        WITH published <- Published, thread <- IF Working THEN "update" ELSE greenlet.what

LEMMA SameUpdater == U!Spec => UP!Spec
<1>1. U!Init => UP!Init
  BY DEF U!Init, UP!Init, U!InitSwitch, UP!InitSwitch
<1>2. [U!Next]_U!vars => [UP!Next]_UP!vars
  BY DEF U!Next, UP!Next,
         U!Call, UP!Call, U!Modify, UP!Modify, U!IncP2PEnableCount, UP!IncP2PEnableCount,
             U!P2PEnable, UP!P2PEnable, U!P2PDisable, UP!P2PDisable, U!Stop, UP!Stop,
             U!UpdateMdns, UP!UpdateMdns, U!Withdraw, UP!Withdraw, U!Advertise, UP!Advertise,
             U!NotFound, UP!NotFound, U!Die, UP!Die, U!End, UP!End, U!EngineClose,
             UP!EngineClose, U!Called, UP!Called, U!IncCount, UP!IncCount, U!Disable,
             UP!Disable, U!Queue, UP!Queue, U!SwitchesTo, UP!SwitchesTo, U!NextVersion,
             UP!NextVersion, U!HasUpdate, UP!HasUpdate, U!Ready, UP!Ready, U!vars, UP!vars
<1> QED BY <1>1, <1>2, PTL DEF U!Spec, UP!Spec

LEMMA UpdaterSafe == UP!Spec => [](UP!TypeOK /\ UP!LatestWins /\ UP!EachTells)
<1>1. UP!Spec => []UP!TypeOK
  BY SameAssumption, UP!UpdaterTypeCorrect
<1>2. UP!Spec => []UP!LatestWins
  BY SameAssumption, UP!LatestAlwaysWins
<1>3. UP!Spec => []UP!EachTells
  BY SameAssumption, UP!EachAlwaysTells
<1> QED BY <1>1, <1>2, <1>3, PTL

(* What MdnsUpdaterProofs shows of one interface holds of any number: the  *)
(* last record to be advertised on all interfaces is the one that fits the *)
(* mode and the versions of now, and no two in succession are the same.    *)
THEOREM UpdaterRightOverEngine ==
  ASSUME {"notfound", "error"} \subseteq Failures
  PROVE  Spec => [](U!TypeOK /\ U!LatestWins /\ U!EachTells)
<1>1. UP!TypeOK => U!TypeOK
  BY DEF U!TypeOK, UP!TypeOK, U!Switch, UP!Switch, U!Versions, UP!Versions, U!Records, UP!Records
<1>2. UP!LatestWins => U!LatestWins
  BY DEF U!LatestWins, UP!LatestWins, U!Coming, UP!Coming, U!Expected, UP!Expected,
         U!HasUpdate, UP!HasUpdate
<1>3. UP!EachTells => U!EachTells
  BY DEF U!EachTells, UP!EachTells, U!Differ, UP!Differ, U!Shown, UP!Shown, U!First, UP!First
<1> QED BY <1>1, <1>2, <1>3, UpdaterImplemented, SameUpdater, UpdaterSafe, PTL
-------------------------------------------------------------------------------
(* Peers see a record on all interfaces, as long as no update failed.      *)
Seen ==
  ~Working /\ told[Node] = "established" /\ greenlet.what # "dead" /\ closed = "no" =>
    Published # Withdrawn

LEMMA InitSeen == Init => Seen
<1> SUFFICES ASSUME Init PROVE Seen
  OBVIOUS
<1> USE PublisherAssumption
<1>1. PICK upto \in 0..Interfaces :
        /\ adv = [n \in Names |-> [i \in All |->
                    IF n = Node /\ i <= upto THEN Base ELSE Withdrawn]]
        /\ told = [n \in Names |-> IF n # Node THEN "gone"
                                   ELSE IF upto = Interfaces THEN "established" ELSE "failed"]
  BY DEF Init
<1>2. CASE upto = Interfaces
  <2>1. Node \in Names /\ 1 \in All /\ \A i \in All : adv[Node][i] = Base
    BY <1>1, <1>2 DEF Names, All
  <2> QED BY <2>1 DEF Seen, Published, Everywhere
<1>3. CASE upto # Interfaces
  BY <1>1, <1>3 DEF Names, Seen
<1> QED BY <1>2, <1>3

LEMMA SeenKept ==
  ASSUME {"notfound", "error"} \subseteq Failures, EInv, U!TypeOK, Seen, [Next]_vars
  PROVE  Seen'
<1>1. CASE Call \/ UNCHANGED vars
  BY <1>1 DEF Call, vars, updater, engine, Seen, Working, Published, Everywhere
<1>2. CASE Update
  <2>1. PInv' /\ U!Withdraw
    BY <1>2, UpdateMaps DEF EInv
  <2> QED BY <2>1 DEF U!Withdraw, PInv, Phases, Seen, Working
<1>3. CASE UpdateStep
  <2>1. PInv' /\ (U!Advertise \/ UNCHANGED U!vars) /\ Working
    BY <1>3, UpdateStepMaps DEF EInv, UpdateStep
  <2>2. CASE U!Advertise
    <3>1. Published' = txt /\ txt # Withdrawn
      BY <2>2, SameAssumption, PublisherAssumption
         DEF U!Advertise, U!TypeOK, U!Records, U!Versions
    <3> QED BY <3>1 DEF Seen
  <2>3. CASE UNCHANGED U!vars
    BY <2>1, <2>3 DEF U!vars, PInv, Phases, Seen, Working
  <2> QED BY <2>1, <2>2, <2>3
<1>4. CASE /\ UpdateFinds \/ UpdateDies \/ UpdaterEnds
           /\ UNCHANGED <<p2p, versions, txt, running, calls, table, dotted, engine>>
  <2>1. greenlet' = greenlet \/ greenlet'.what = "dead" \/ ~Working
    BY <1>4 DEF UpdateFinds, UpdateDies, UpdaterEnds, At, Idle, Working
  <2>2. adv' = adv /\ told' = told /\ closed' = closed
    BY <1>4 DEF UpdateFinds, UpdateDies, UpdaterEnds, WithdrawFails, RegisterFails, engine
  <2>3. greenlet.what # "dead" \/ greenlet' = greenlet \/ greenlet'.what = "dead"
    BY <1>4 DEF UpdateFinds, UpdateDies, UpdaterEnds, At, Idle
  <2> QED BY <2>1, <2>2, <2>3 DEF Seen, Published, Everywhere, Working
<1>5. CASE ClientStep \/ \E n \in Others : Register(n) \/ Unregister(n)
  <2>1. UNCHANGED U!vars /\ Published' = Published
    BY <1>5, ClientMaps DEF EInv, U!vars
  <2>2. greenlet' = greenlet /\ closed' = closed
    BY <1>5 DEF ClientStep, Register, Unregister, updater
  <2>3. told'[Node] = told[Node]
    <3>1. client # Idle => client.name # Node
      BY DoneWith DEF EInv
    <3>2. Node \in DOMAIN told
      BY DEF EInv, Tables, Names
    <3> QED BY <1>5, <3>1, <3>2, PublisherAssumption DEF ClientStep, Register, Unregister
  <2> QED BY <2>1, <2>2, <2>3 DEF Seen, Working
<1>6. CASE Close
  BY <1>6 DEF Close, Seen
<1> QED BY <1>1, <1>2, <1>3, <1>4, <1>5, <1>6 DEF Next, Modify

(* Between updates the node is advertised alike on all interfaces, unless  *)
(* the constructor or an update failed (aggregator.py 404-416,             *)
(* mdnsRegistration.py 56-67).                                             *)
THEOREM AlwaysTogether ==
  ASSUME {"notfound", "error"} \subseteq Failures
  PROVE  Spec => []Together
<1>1. EInv /\ U!TypeOK /\ Seen /\ [Next]_vars => Seen'
  BY SeenKept
<1>2. U!TypeOK /\ Seen => Together
  BY DEF U!TypeOK, Seen, Together, Published, Everywhere
<1> QED BY <1>1, <1>2, InitSeen, AlwaysKept, UpdaterRightOverEngine, PTL DEF Spec
===============================================================================
