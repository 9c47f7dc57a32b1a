-------------------------- MODULE MdnsDiscoveryProofs --------------------------
(***************************************************************************)
(* What is proved of MdnsDiscovery, for any services, threads and losses:  *)
(* the client was told what the records hold.                              *)
(*                                                                         *)
(* The argument: a service that two never worked on is worked on by one    *)
(* thread at most, which tells the client what it has put in the records,  *)
(* and nobody else puts anything there in between.                         *)
(***************************************************************************)
EXTENDS MdnsDiscovery, TLAPS

Jobs == [at : {"ask", "apply", "tell"}, name : Names, info : Values \cup {None}]

(* A thread is at work on a service. *)
On(t, n) == threads[t] # Idle /\ threads[t].name = n

Alone(n) ==
  /\ \A t, u \in Threads : On(t, n) /\ On(u, n) => t = u
  /\ browser = n => \A t \in Threads : ~On(t, n)

(* What the records hold has been told, or whoever is at work on the       *)
(* service is about to tell it.                                            *)
Telling(t, n) == On(t, n) /\ threads[t].at = "tell"
Told(n) ==
  /\ browser = n => records[n] = None
  /\ \A t \in Threads : Telling(t, n) => records[n] = threads[t].info
  /\ browser # n /\ (\A t \in Threads : ~Telling(t, n)) => told[n] = records[n]

Fine(n) == Alone(n) /\ (registerOnly \/ Told(n))

(* What of the types the argument needs. *)
Types ==
  /\ network \in [Names -> Values \cup {None}] /\ threads \in [Threads -> {Idle} \cup Jobs]
  /\ records \in [Names -> Values \cup {None}] /\ told \in [Names -> Values \cup {None}]
  /\ disturbed \subseteq Names

IInv == Types /\ \A n \in Names \ disturbed : Fine(n)
-------------------------------------------------------------------------------
(* A job is not Idle, and its fields are what they are. *)
LEMMA JobIs ==
  ASSUME NEW j \in Jobs
  PROVE  j # Idle /\ j.at \in {"ask", "apply", "tell"} /\ j.name \in Names
         /\ j.info \in Values \cup {None}
<1>1. j.at \in {"ask", "apply", "tell"} /\ Idle.at = "idle"
  BY DEF Jobs, Idle
<1> QED BY <1>1 DEF Jobs

(* A thread that is at some phase has a job. *)
LEMMA AtIs ==
  ASSUME Types, NEW t \in Threads, threads[t].at \in {"ask", "apply", "tell"}
  PROVE  threads[t] \in Jobs /\ threads[t] # Idle
<1>1. Idle.at = "idle"
  BY DEF Idle
<1> QED BY <1>1 DEF Types

(* Nobody works on a service that is not busy, and it has been told.       *)
LEMMA NotBusy ==
  ASSUME NEW n \in Names, ~Busy(n, None)
  PROVE  browser # n /\ \A t \in Threads : ~On(t, n)
BY MdnsAssumption DEF Busy, On

(* What is not disturbed by a step was not disturbed before. *)
LEMMA Undisturbed ==
  ASSUME Types, NEW ns \in SUBSET Names, Disturbs(ns)
  PROVE  /\ disturbed' \subseteq Names
         /\ \A n \in Names \ disturbed' : n \notin disturbed /\ (n \in ns => ~Busy(n, None))
BY DEF Disturbs, Types

(* At first nothing is recorded, told or worked on. *)
LEMMA InitInv == Init => IInv
BY MdnsAssumption DEF Init, IInv, Types, Fine, Alone, Told, Telling, On

(* A service that a step leaves alone stays as it is. *)
LEMMA SameService ==
  ASSUME NEW n \in Names, Fine(n), registerOnly' = registerOnly,
         \A t \in Threads : (On(t, n)' <=> On(t, n)) /\ (On(t, n) => threads'[t] = threads[t]),
         (browser' = n) <=> (browser = n), records'[n] = records[n], told'[n] = told[n]
  PROVE  Fine(n)'
BY DEF Fine, Alone, Told, Telling

(* A step of one thread that has a job, seen from the other services.      *)
LEMMA OneThread ==
  ASSUME Types, NEW t \in Threads, threads[t] \in Jobs, NEW j \in {Idle} \cup Jobs,
         threads' = [threads EXCEPT ![t] = j],
         j # Idle => j.name = threads[t].name
  PROVE  /\ threads' \in [Threads -> {Idle} \cup Jobs] /\ threads'[t] = j
         /\ \A u \in Threads \ {t} : threads'[u] = threads[u]
         /\ \A n \in Names \ {threads[t].name}, u \in Threads :
              (On(u, n)' <=> On(u, n)) /\ (On(u, n) => threads'[u] = threads[u])
<1>1. /\ threads' \in [Threads -> {Idle} \cup Jobs] /\ threads'[t] = j
      /\ \A u \in Threads \ {t} : threads'[u] = threads[u]
  BY DEF Types
<1>2. ASSUME NEW n \in Names \ {threads[t].name}, NEW u \in Threads
      PROVE  (On(u, n)' <=> On(u, n)) /\ (On(u, n) => threads'[u] = threads[u])
  BY <1>1 DEF On
<1> QED BY <1>1, <1>2
-------------------------------------------------------------------------------
(* A thread takes up a service on which nobody works. *)
LEMMA AddServiceInv ==
  ASSUME IInv, NEW n \in Names, AddService(n)
  PROVE  IInv'
<1>1. PICK t \in Threads :
        threads[t] = Idle /\ threads' = [threads EXCEPT ![t] = Job("ask", n, None)]
  BY DEF AddService
<1>2. Types /\ Disturbs({n}) /\ UNCHANGED <<registerOnly, network, browser, records, told>>
  BY DEF IInv, AddService, net
<1>3. Job("ask", n, None) \in Jobs
  BY DEF Job, Jobs
<1>4. Job("ask", n, None) # Idle /\ Job("ask", n, None).at = "ask"
      /\ Job("ask", n, None).name = n
  BY <1>3, JobIs DEF Job
<1>5. /\ threads' \in [Threads -> {Idle} \cup Jobs] /\ threads'[t] = Job("ask", n, None)
      /\ \A u \in Threads \ {t} : threads'[u] = threads[u]
  BY <1>1, <1>2, <1>3 DEF Types
<1>6. /\ disturbed' \subseteq Names
      /\ \A m \in Names \ disturbed' : m \notin disturbed /\ (m = n => ~Busy(n, None))
  BY <1>2, Undisturbed
<1>7. ASSUME NEW m \in Names \ disturbed' PROVE Fine(m)'
  <2>1. Fine(m)
    BY <1>6 DEF IInv
  <2>2. CASE m # n
    <3>1. \A u \in Threads : (On(u, m)' <=> On(u, m)) /\ (On(u, m) => threads'[u] = threads[u])
      BY <1>1, <1>4, <1>5, <2>2 DEF On
    <3> QED BY <1>2, <2>1, <3>1, SameService
  <2>3. CASE m = n
    <3>1. browser # n /\ \A u \in Threads : ~On(u, n)
      BY <1>6, <2>3, NotBusy
    <3>2. registerOnly \/ told[n] = records[n]
      BY <2>1, <2>3, <3>1 DEF Fine, Told, Telling
    <3>3. \A u \in Threads : On(u, n)' => u = t
      BY <1>5, <3>1 DEF On
    <3>4. threads'[t].at = "ask"
      BY <1>4, <1>5
    <3> QED BY <1>2, <2>3, <3>1, <3>2, <3>3, <3>4 DEF Fine, Alone, Told, Telling
  <2> QED BY <2>2, <2>3
<1> QED BY <1>2, <1>5, <1>6, <1>7 DEF IInv, Types

(* The browser's thread takes a service from the records, and tells so.    *)
LEMMA RemoveServiceInv ==
  ASSUME IInv, NEW n \in Names, RemoveService(n)
  PROVE  IInv'
<1>1. Types /\ Disturbs({n}) /\ browser = "idle"
      /\ UNCHANGED <<registerOnly, network, threads, told>>
  BY DEF IInv, RemoveService, NextIs, net
<1>2. /\ disturbed' \subseteq Names
      /\ \A m \in Names \ disturbed' : m \notin disturbed /\ (m = n => ~Busy(n, None))
  BY <1>1, Undisturbed
<1>3. \/ records' = [records EXCEPT ![n] = None] /\ browser' = n
      \/ records' = records /\ browser' \in {"idle", "dead"}
  BY DEF RemoveService
<1>4. ASSUME NEW m \in Names \ disturbed' PROVE Fine(m)'
  <2>1. Fine(m) /\ browser # m
    BY <1>1, <1>2, MdnsAssumption DEF IInv
  <2>2. CASE m # n \/ (records' = records /\ browser' \in {"idle", "dead"})
    <3>1. records'[m] = records[m] /\ browser' # m
      BY <1>1, <1>3, <2>2, MdnsAssumption DEF Types
    <3>2. \A u \in Threads : (On(u, m)' <=> On(u, m)) /\ (On(u, m) => threads'[u] = threads[u])
      BY <1>1 DEF On
    <3> QED BY <1>1, <2>1, <3>1, <3>2, SameService
  <2>3. CASE m = n /\ records' = [records EXCEPT ![n] = None] /\ browser' = n
    <3>1. \A u \in Threads : ~On(u, n) /\ ~On(u, n)'
      BY <1>1, <1>2, <2>3, NotBusy DEF On
    <3>2. records'[n] = None
      BY <1>1, <2>3 DEF Types
    <3> QED BY <1>1, <2>3, <3>1, <3>2 DEF Fine, Alone, Told, Telling
  <2> QED BY <1>3, <2>2, <2>3
<1> QED BY <1>1, <1>2, <1>3, <1>4 DEF IInv, Types

(* A removal takes the record and tells of it at once; threads still at work make the service a disturbed one. *)
LEMMA RemovedInv ==
  ASSUME IInv, NEW n \in Names, Removed(n)
  PROVE  IInv'
<1>1. Types /\ browser = n /\ browser' = "idle" /\ TellRemove(n)
      /\ UNCHANGED <<registerOnly, network, threads, records, disturbed>>
  BY DEF IInv, Removed, net
<1>2. /\ told' \in [Names -> Values \cup {None}]
      /\ \A m \in Names \ {n} : told'[m] = told[m]
      /\ registerOnly \/ told'[n] = None
  BY <1>1 DEF TellRemove, Types
<1>3. ASSUME NEW m \in Names \ disturbed' PROVE Fine(m)'
  <2>1. Fine(m) /\ "idle" # m
    BY <1>1, MdnsAssumption DEF IInv
  <2>2. \A u \in Threads : (On(u, m)' <=> On(u, m)) /\ (On(u, m) => threads'[u] = threads[u])
    BY <1>1 DEF On
  <2>3. CASE m # n
    BY <1>1, <1>2, <2>1, <2>2, <2>3, SameService
  <2>4. CASE m = n
    <3>1. \A u \in Threads : ~On(u, n) /\ ~On(u, n)'
      BY <1>1, <2>1, <2>2, <2>4 DEF Fine, Alone
    <3>2. registerOnly \/ records[n] = None
      BY <1>1, <2>1, <2>4 DEF Fine, Told
    <3> QED BY <1>1, <1>2, <2>1, <2>4, <3>1, <3>2 DEF Fine, Alone, Told, Telling
  <2> QED BY <2>3, <2>4
<1> QED BY <1>1, <1>2, <1>3 DEF IInv, Types
-------------------------------------------------------------------------------
(* A thread that works on a service alone.                                 *)
LEMMA Only ==
  ASSUME NEW n \in Names, Fine(n), NEW t \in Threads, On(t, n)
  PROVE  browser # n /\ \A u \in Threads \ {t} : ~On(u, n)
BY DEF Fine, Alone

(* The thread is left alone with the service by its own step, too. *)
LEMMA OwnStep ==
  ASSUME NEW n \in Names, Fine(n), NEW t \in Threads, On(t, n),
         \A u \in Threads \ {t} : threads'[u] = threads[u], browser' = browser
  PROVE  browser' # n /\ \A u \in Threads \ {t} : ~On(u, n)' /\ ~Telling(u, n)'
BY Only DEF On, Telling

(* The job goes on to another phase. *)
LEMMA JobGoesOn ==
  ASSUME NEW n \in Names, NEW info \in Values \cup {None}, NEW at \in {"apply", "tell"}
  PROVE  Job(at, n, info) \in Jobs /\ Job(at, n, info) # Idle
         /\ Job(at, n, info).at = at /\ Job(at, n, info).name = n
         /\ Job(at, n, info).info = info
<1>1. Job(at, n, info) \in Jobs
  BY DEF Job, Jobs
<1> QED BY <1>1, JobIs DEF Job

(* A thread that asks for a service learns what the network holds of it then. *)
LEMMA GetServiceInfoInv ==
  ASSUME IInv, NEW t \in Threads, GetServiceInfo(t)
  PROVE  IInv'
<1>1. Types /\ threads[t] \in Jobs /\ threads[t] # Idle /\ threads[t].at = "ask"
  BY AtIs DEF IInv, GetServiceInfo
<1>2. PICK n \in Names : n = threads[t].name
  BY <1>1, JobIs
<1>3. PICK info : /\ threads' = [threads EXCEPT ![t] = Job("apply", n, info)]
                  /\ disturbed' = IF info = network[n] THEN disturbed ELSE disturbed \cup {n}
                  /\ info \in {network[n], None}
  BY <1>2 DEF GetServiceInfo
<1>4. UNCHANGED <<registerOnly, browser, records, told, network>>
  BY DEF GetServiceInfo, net
<1>5. disturbed \subseteq disturbed' /\ disturbed' \subseteq Names
  BY <1>1, <1>2, <1>3 DEF Types
<1> DEFINE j == Job("apply", n, info)
<1>6. info \in Values \cup {None}
  BY <1>1, <1>3 DEF Types
<1>7. j \in Jobs /\ j # Idle /\ j.at = "apply" /\ j.name = n
  BY <1>6, JobGoesOn
<1>8. /\ threads' \in [Threads -> {Idle} \cup Jobs] /\ threads'[t] = j
      /\ \A u \in Threads \ {t} : threads'[u] = threads[u]
      /\ \A m \in Names \ {n}, u \in Threads :
           (On(u, m)' <=> On(u, m)) /\ (On(u, m) => threads'[u] = threads[u])
  BY <1>1, <1>2, <1>3, <1>7, OneThread
<1>9. ASSUME NEW m \in Names \ disturbed' PROVE Fine(m)'
  <2>1. Fine(m)
    BY <1>5 DEF IInv
  <2>2. CASE m # n
    BY <1>4, <1>8, <2>1, <2>2, SameService
  <2>3. CASE m = n
    <3>1. On(t, m) /\ On(t, m)' /\ ~Telling(t, m) /\ ~Telling(t, m)'
      BY <1>1, <1>2, <1>7, <1>8, <2>3 DEF On, Telling
    <3>2. browser' # m /\ \A u \in Threads \ {t} : ~On(u, m)' /\ ~Telling(u, m)'
      BY <1>4, <1>8, <2>1, <3>1, OwnStep
    <3>3. registerOnly \/ told[m] = records[m]
      <4>1. browser # m /\ \A u \in Threads \ {t} : ~On(u, m)
        BY <2>1, <3>1, Only
      <4> QED BY <2>1, <3>1, <4>1 DEF Fine, Told, Telling
    <3> QED BY <1>4, <3>1, <3>2, <3>3 DEF Fine, Alone, Told
  <2> QED BY <2>2, <2>3
<1> QED BY <1>1, <1>4, <1>5, <1>8, <1>9 DEF IInv, Types

(* The records have what was resolved, or nothing, and the thread tells.   *)
LEMMA ApplyInv ==
  ASSUME IInv, NEW t \in Threads, Apply(t)
  PROVE  IInv'
<1>1. Types /\ threads[t] \in Jobs /\ threads[t] # Idle /\ threads[t].at = "apply"
  BY AtIs DEF IInv, Apply
<1>2. PICK n \in Names : n = threads[t].name
  BY <1>1, JobIs
<1>3. PICK info \in Values \cup {None} : info = threads[t].info
  BY <1>1, JobIs
<1>4. UNCHANGED <<registerOnly, browser, told, network, disturbed>>
  BY DEF Apply, net
<1> DEFINE j == Job("tell", n, info)
<1>5. j \in Jobs /\ j # Idle /\ j.at = "tell" /\ j.name = n /\ j.info = info
  BY JobGoesOn
<1>6. \/ threads' = [threads EXCEPT ![t] = j] /\ records' = [records EXCEPT ![n] = info]
      \/ /\ threads' = [threads EXCEPT ![t] = Idle] /\ records' = records
         /\ records[n] = None
  BY <1>1, <1>2, <1>3 DEF Apply, UpdateRecord, IsLost, Known, Types
<1> HIDE DEF j
<1>7. PICK k \in {Idle, j} :
        /\ threads' = [threads EXCEPT ![t] = k]
        /\ k = j => records' = [records EXCEPT ![n] = info]
        /\ k = Idle => records' = records /\ records[n] = None
  BY <1>5, <1>6
<1>8. /\ threads' \in [Threads -> {Idle} \cup Jobs] /\ threads'[t] = k
      /\ \A u \in Threads \ {t} : threads'[u] = threads[u]
      /\ \A m \in Names \ {n}, u \in Threads :
           (On(u, m)' <=> On(u, m)) /\ (On(u, m) => threads'[u] = threads[u])
  BY <1>1, <1>2, <1>5, <1>7, OneThread
<1>9. /\ records' \in [Names -> Values \cup {None}]
      /\ \A m \in Names \ {n} : records'[m] = records[m]
      /\ records'[n] = IF k = j THEN info ELSE None
  BY <1>1, <1>5, <1>7 DEF Types
<1>10. ASSUME NEW m \in Names \ disturbed' PROVE Fine(m)'
  <2>1. Fine(m)
    BY <1>4 DEF IInv
  <2>2. CASE m # n
    BY <1>4, <1>8, <1>9, <2>1, <2>2, SameService
  <2>3. CASE m = n
    <3>1. On(t, m) /\ ~Telling(t, m)
      BY <1>1, <1>2, <2>3 DEF On, Telling
    <3>2. browser' # m /\ \A u \in Threads \ {t} : ~On(u, m)' /\ ~Telling(u, m)'
      BY <1>4, <1>8, <2>1, <3>1, OwnStep
    <3>3. CASE k = j
      BY <1>4, <1>5, <1>8, <1>9, <2>3, <3>2, <3>3 DEF Fine, Alone, Told, Telling, On
    <3>4. CASE k = Idle
      <4>1. registerOnly \/ told[m] = records[m]
        <5>1. browser # m /\ \A u \in Threads \ {t} : ~On(u, m)
          BY <2>1, <3>1, Only
        <5> QED BY <2>1, <3>1, <5>1 DEF Fine, Told, Telling
      <4>2. ~On(t, m)' /\ ~Telling(t, m)' /\ records'[m] = records[m]
        BY <1>7, <1>8, <2>3, <3>4 DEF On, Telling
      <4> QED BY <1>4, <3>2, <4>1, <4>2 DEF Fine, Alone, Told
    <3> QED BY <3>3, <3>4
  <2> QED BY <2>2, <2>3
<1> QED BY <1>1, <1>4, <1>8, <1>9, <1>10 DEF IInv, Types

(* The client is told what the records hold. *)
LEMMA RespondInv ==
  ASSUME IInv, NEW t \in Threads, RespondToClient(t)
  PROVE  IInv'
<1>1. Types /\ threads[t] \in Jobs /\ threads[t] # Idle /\ threads[t].at = "tell"
  BY AtIs DEF IInv, RespondToClient
<1>2. PICK n \in Names : n = threads[t].name
  BY <1>1, JobIs
<1>3. PICK info \in Values \cup {None} : info = threads[t].info
  BY <1>1, JobIs
<1>4. /\ UNCHANGED <<registerOnly, browser, records, network, disturbed>>
      /\ threads' = [threads EXCEPT ![t] = Idle]
  BY DEF RespondToClient, net
<1>5. /\ told' \in [Names -> Values \cup {None}]
      /\ \A m \in Names \ {n} : told'[m] = told[m]
      /\ registerOnly \/ told'[n] = info
  <2>1. CASE info = None /\ TellRemove(n)
    BY <1>1, <2>1 DEF TellRemove, Types
  <2>2. CASE info # None /\ TellAdd(n, info)
    BY <1>1, <2>2 DEF TellAdd, Types
  <2> QED BY <1>2, <1>3, <2>1, <2>2 DEF RespondToClient, IsLost
<1>6. /\ threads' \in [Threads -> {Idle} \cup Jobs] /\ threads'[t] = Idle
      /\ \A u \in Threads \ {t} : threads'[u] = threads[u]
      /\ \A m \in Names \ {n}, u \in Threads :
           (On(u, m)' <=> On(u, m)) /\ (On(u, m) => threads'[u] = threads[u])
  BY <1>1, <1>2, <1>4, OneThread
<1>7. ASSUME NEW m \in Names \ disturbed' PROVE Fine(m)'
  <2>1. Fine(m)
    BY <1>4 DEF IInv
  <2>2. CASE m # n
    BY <1>4, <1>5, <1>6, <2>1, <2>2, SameService
  <2>3. CASE m = n
    <3>1. On(t, m) /\ Telling(t, m)
      BY <1>1, <1>2, <2>3 DEF On, Telling
    <3>2. browser' # m /\ \A u \in Threads \ {t} : ~On(u, m)' /\ ~Telling(u, m)'
      BY <1>4, <1>6, <2>1, <3>1, OwnStep
    <3>3. registerOnly \/ records[m] = info
      BY <1>3, <2>1, <3>1 DEF Fine, Told
    <3>4. ~On(t, m)' /\ ~Telling(t, m)'
      BY <1>6 DEF On, Telling
    <3> QED BY <1>4, <1>5, <2>3, <3>2, <3>3, <3>4 DEF Fine, Alone, Told
  <2> QED BY <2>2, <2>3
<1> QED BY <1>1, <1>4, <1>5, <1>6, <1>7 DEF IInv, Types
-------------------------------------------------------------------------------
(* The collection takes up services on which nobody works, each by one     *)
(* thread.                                                                 *)
LEMMA CollectInv ==
  ASSUME IInv, Collect
  PROVE  IInv'
<1>1. Types /\ UNCHANGED <<registerOnly, network, browser, records, told>>
      /\ \A t \in Threads : threads[t] = Idle
  BY DEF IInv, Collect, net
<1>2. CASE ~anyRecord
  <2>1. UNCHANGED <<threads, disturbed>>
    BY <1>2 DEF Collect
  <2>2. ASSUME NEW m \in Names \ disturbed' PROVE Fine(m)'
    BY <1>1, <2>1, SameService DEF IInv, On
  <2> QED BY <1>1, <2>1, <2>2 DEF IInv, Types
<1>3. CASE anyRecord
  <2>1. PICK start \in [Collected -> Threads] :
          threads' = [t \in Threads |->
            IF \E n \in Collected : start[n] = t
              THEN Job("ask", CHOOSE n \in Collected : start[n] = t, None) ELSE Idle]
    BY <1>3 DEF Collect
  <2>2. Disturbs(Collected) /\ Collected \in SUBSET Names
    BY <1>3 DEF Collect, Collected, Known
  <2>3. /\ disturbed' \subseteq Names
        /\ \A m \in Names \ disturbed' :
             m \notin disturbed /\ (m \in Collected => ~Busy(m, None))
    BY <1>1, <2>2, Undisturbed
  <2>4. ASSUME NEW t \in Threads
        PROVE  \/ threads'[t] = Idle
               \/ \E n \in Collected : start[n] = t /\ threads'[t] = Job("ask", n, None)
    <3>1. CASE \E n \in Collected : start[n] = t
      <4> DEFINE c == CHOOSE n \in Collected : start[n] = t
      <4>1. c \in Collected /\ start[c] = t
        BY <3>1
      <4>2. threads'[t] = Job("ask", c, None)
        BY <2>1, <3>1
      <4> QED BY <4>1, <4>2
    <3>2. CASE ~\E n \in Collected : start[n] = t
      BY <2>1, <3>2
    <3> QED BY <3>1, <3>2
  <2>5. ASSUME NEW n \in Names
        PROVE  /\ Job("ask", n, None) \in Jobs /\ Job("ask", n, None) # Idle
               /\ Job("ask", n, None).at = "ask" /\ Job("ask", n, None).name = n
    <3>1. Job("ask", n, None) \in Jobs
      BY DEF Job, Jobs
    <3> QED BY <3>1, JobIs DEF Job
  <2>6. threads' \in [Threads -> {Idle} \cup Jobs]
    <3>1. \A t \in Threads : threads'[t] \in {Idle} \cup Jobs
      BY <2>2, <2>4, <2>5
    <3> QED BY <2>1, <3>1
  <2>7. ASSUME NEW n \in Names, NEW t \in Threads, On(t, n)'
        PROVE  n \in Collected /\ t = start[n] /\ ~Telling(t, n)'
    <3>1. PICK c \in Collected : start[c] = t /\ threads'[t] = Job("ask", c, None)
      BY <2>4, <2>7 DEF On
    <3> QED BY <2>2, <2>5, <2>7, <3>1 DEF On, Telling
  <2>8. ASSUME NEW m \in Names \ disturbed' PROVE Fine(m)'
    <3>1. Fine(m) /\ \A t \in Threads : ~On(t, m)
      BY <1>1, <2>3 DEF IInv, On
    <3>2. \A t, u \in Threads : On(t, m)' /\ On(u, m)' => t = u
      BY <2>7
    <3>3. browser' = m => \A t \in Threads : ~On(t, m)'
      BY <1>1, <2>3, <2>7, NotBusy
    <3>4. \A t \in Threads : ~Telling(t, m)'
      BY <2>7 DEF Telling
    <3>5. registerOnly \/ ((browser = m => records[m] = None)
                           /\ (browser # m => told[m] = records[m]))
      BY <3>1 DEF Fine, Told, Telling
    <3> QED BY <1>1, <3>2, <3>3, <3>4, <3>5 DEF Fine, Alone, Told
  <2> QED BY <1>1, <2>3, <2>6, <2>8 DEF IInv, Types
<1> QED BY <1>2, <1>3

(* Every step keeps the invariant. *)
LEMMA NextInv == IInv /\ [Next]_vars => IInv'
<1> SUFFICES ASSUME IInv, [Next]_vars PROVE IInv'
  OBVIOUS
<1>1. ASSUME UNCHANGED <<registerOnly, browser, threads, records, told, disturbed>>,
             network' \in [Names -> Values \cup {None}]
      PROVE  IInv'
  <2>1. ASSUME NEW m \in Names \ disturbed' PROVE Fine(m)'
    BY <1>1, SameService DEF IInv, On
  <2> QED BY <1>1, <2>1 DEF IInv, Types
<1>2. ASSUME NEW n \in Names, Change(n) PROVE IInv'
  <2>1. network' \in [Names -> Values \cup {None}]
    BY <1>2 DEF Change, IInv, Types
  <2> QED BY <1>1, <1>2, <2>1 DEF Change
<1>3. CASE Browse
  BY <1>3, AddServiceInv, RemoveServiceInv, RemovedInv DEF Browse
<1>4. ASSUME NEW t \in Threads, Resolve(t) PROVE IInv'
  BY <1>4, GetServiceInfoInv, ApplyInv, RespondInv DEF Resolve
<1>5. CASE Close \/ UNCHANGED vars
  BY <1>1, <1>5 DEF Close, vars, net, IInv, Types
<1> QED BY <1>2, <1>3, <1>4, <1>5, CollectInv DEF Next

(* However the browser's thread and those that resolve services            *)
(* interleave, and whatever is lost, the client of a listener has been     *)
(* told what its records hold of each service that two have never worked   *)
(* on and that has always answered, when nobody works on it.               *)
THEOREM TableAlwaysTells == Spec => []TableTells
<1>1. IInv => TableTells
  <2> SUFFICES ASSUME IInv, NEW n \in Names \ disturbed, ~Busy(n, None), ~registerOnly
               PROVE  told[n] = records[n]
    BY DEF TableTells
  <2> QED BY NotBusy DEF IInv, Fine, Told, Telling
<1> QED BY <1>1, InitInv, NextInv, PTL DEF Spec
===============================================================================
