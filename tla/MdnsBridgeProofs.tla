--------------------------- MODULE MdnsBridgeProofs ---------------------------
(***************************************************************************)
(* Proofs about MdnsBridge for any number of callers, services and         *)
(* priorities: its type invariant, that every answer is allowed, and that  *)
(* no caller is sent back to a service that has been answered.  Then that  *)
(* the query clients of QueryService use the bridge as MdnsBridge has it,  *)
(* so that all of this holds with them, and what they make of its answers. *)
(***************************************************************************)
EXTENDS QueryService, TLAPS

(* A candidate suits the caller and the priority that is set.              *)
LEMMA CandidatesAllowed ==
  ASSUME TypeOK, NEW g \in Callers, NEW cache, cache \subseteq Mode,
         NEW s \in Candidates(g, cache)
  PROVE  s \in cache /\ s \in Suits[g] /\ Wanted(s)
  <1>1. s \in Registries => Pri[s] \in Nat
    BY BridgeAssumption
  <1>2. s \in cache /\ s \in Suits[g]
    BY DEF Candidates, Best
  <1> QED BY <1>1, <1>2, BridgeAssumption DEF Candidates, Best, Wanted

(* getHref keeps the types.                                                *)
LEMMA ChooseTypes ==
  ASSUME TypeOK, NEW g \in Callers, NEW cache, NEW used,
         cache \subseteq Mode, used \subseteq Registries, Choose(g, cache, used)
  PROVE  /\ pc' \in [Callers -> {"out", "fetch"}]
         /\ answer' \in [Callers -> Registries \cup {NoHref, LocalQuery}]
         /\ services' \subseteq Mode /\ tried' \subseteq Registries
  <1>1. Candidates(g, cache) \subseteq Registries
    BY CandidatesAllowed, BridgeAssumption
  <1>2. \A s : DropUsed(cache, s) \subseteq cache
    BY DEF DropUsed
  <1> QED BY <1>1, <1>2 DEF Choose, TypeOK

(* No step of a caller or of the bridge process leaves the types. *)
LEMMA BridgeTypesKept ==
  ASSUME TypeOK, [Next]_vars
  PROVE  TypeOK'
  <1> USE DEF TypeOK
  <1>1. ASSUME NEW g \in Callers, GetHref(g) PROVE TypeOK'
    <2>1. CASE Answerable(g, services)
      BY <1>1, <2>1, ChooseTypes DEF GetHref
    <2>2. CASE ~Answerable(g, services)
      BY <1>1, <2>2 DEF GetHref
    <2> QED BY <2>1, <2>2
  <1>2. ASSUME NEW g \in Callers, Update(g) PROVE TypeOK'
    <2>1. Refilled(found) \subseteq Mode
      BY DEF Refilled
    <2> QED BY <1>2, <2>1, ChooseTypes DEF Update
  <1>3. ASSUME NEW g \in Callers, UpdateFails(g) PROVE TypeOK'
    <2>1. ASSUME NEW part \in SUBSET Refilled(found) PROVE part \subseteq Mode
      BY DEF Refilled
    <2> QED BY <1>3, <2>1, ChooseTypes DEF UpdateFails
  <1>4. ASSUME NEW s \in Registries, Change(s) PROVE TypeOK'
    BY <1>4 DEF Change
  <1>5. CASE UNCHANGED vars
    BY <1>5 DEF vars
  <1> QED BY <1>1, <1>2, <1>3, <1>4, <1>5 DEF Next

(* The cache only ever holds services of the protocol that https_mode asks *)
(* for (mdnsbridge.py 123-126), however the network changes.               *)
THEOREM BridgeTypeCorrect == Spec => []TypeOK
  <1>1. Init => TypeOK
    BY BridgeAssumption DEF Init, TypeOK
  <1>2. TypeOK /\ [Next]_vars => TypeOK'
    BY BridgeTypesKept
  <1> QED BY <1>1, <1>2, PTL DEF Spec

-------------------------------------------------------------------------------
(* What getHref answers is allowed, and drops out of the cache if it is an *)
(* ordinary service.                                                       *)
LEMMA ChooseAllowed ==
  ASSUME TypeOK, Allowed, NEW g \in Callers, NEW cache, NEW used,
         cache \subseteq Mode, Choose(g, cache, used), priority' = priority
  PROVE  Allowed'
  <1>1. SUFFICES ASSUME NEW c \in Callers, answer'[c] \in Registries
                 PROVE  answer'[c] \in Suits[c] /\ answer'[c] \in Mode /\ Wanted(answer'[c])
    BY DEF Allowed, Wanted
  <1>2. CASE answer'[c] = answer[c]
    BY <1>1, <1>2 DEF Allowed
  <1>3. CASE answer'[c] # answer[c]
    <2>1. c = g
      BY <1>3 DEF Choose, TypeOK
    <2>2. NoHref \notin Registries /\ LocalQuery \notin Registries
      BY BridgeAssumption
    <2>3. answer'[c] \in Candidates(g, cache)
      BY <1>1, <2>1, <2>2 DEF Choose, TypeOK
    <2> QED BY <2>1, <2>3, CandidatesAllowed
  <1> QED BY <1>2, <1>3

(* Every answer is allowed by the configuration: the version, protocol and *)
(* mode asked for, at every boundary of the priorities (mdnsbridge.py      *)
(* 57-101).                                                                *)
THEOREM AlwaysAllowed == Spec => []Allowed
  <1>1. Init => Allowed
    BY BridgeAssumption DEF Init, Allowed
  <1>2. TypeOK /\ Allowed /\ [Next]_vars => Allowed'
    <2> SUFFICES ASSUME TypeOK, Allowed, [Next]_vars PROVE Allowed'
      OBVIOUS
    <2>1. services \subseteq Mode /\ Refilled(found) \subseteq Mode
      BY DEF TypeOK, Refilled
    <2>2. ASSUME NEW g \in Callers, GetHref(g) PROVE Allowed'
      <3>1. CASE Answerable(g, services)
        BY <2>1, <2>2, <3>1, ChooseAllowed DEF GetHref
      <3>2. CASE ~Answerable(g, services)
        BY <2>2, <3>2 DEF GetHref, Allowed, Wanted
      <3> QED BY <3>1, <3>2
    <2>3. ASSUME NEW g \in Callers, Update(g) PROVE Allowed'
      BY <2>1, <2>3, ChooseAllowed DEF Update
    <2>4. ASSUME NEW g \in Callers, UpdateFails(g) PROVE Allowed'
      BY <2>1, <2>4, ChooseAllowed DEF UpdateFails
    <2>5. ASSUME NEW s \in Registries, Change(s) PROVE Allowed'
      BY <2>5 DEF Change, Allowed, Wanted
    <2>6. CASE UNCHANGED vars
      BY <2>6 DEF vars, Allowed, Wanted
    <2> QED BY <2>2, <2>3, <2>4, <2>5, <2>6 DEF Next
  <1> QED BY <1>1, <1>2, BridgeTypeCorrect, PTL DEF Spec

-------------------------------------------------------------------------------
(* A choice from a cache without the services used since its refill gives none of them again. *)
LEMMA ChooseNotTwice ==
  ASSUME TypeOK, NEW g \in Callers, NEW cache, NEW used, Choose(g, cache, used),
         priority' = priority, priority < 100 => cache \cap used = {}
  PROVE  NoneTwice'
  <1>1. priority < 100 => ~(priority >= 100)
    BY BridgeAssumption DEF TypeOK
  <1> QED BY <1>1 DEF Choose, DropUsed, NoneTwice

(* An ordinary service that was answered to any caller is in the cache     *)
(* again only after the bridge process has been asked again (mdnsbridge.py *)
(* 95-101), whatever the callers' interleaving.                            *)
THEOREM NeverTwice == Spec => []NoneTwice
  <1>1. Init => NoneTwice
    BY DEF Init, NoneTwice
  <1>2. TypeOK /\ NoneTwice /\ [Next]_vars => NoneTwice'
    <2> SUFFICES ASSUME TypeOK, NoneTwice, [Next]_vars PROVE NoneTwice'
      OBVIOUS
    <2>1. ASSUME NEW g \in Callers, GetHref(g) PROVE NoneTwice'
      <3>1. CASE Answerable(g, services)
        BY <2>1, <3>1, ChooseNotTwice DEF GetHref, NoneTwice
      <3>2. CASE ~Answerable(g, services)
        BY <2>1, <3>2 DEF GetHref, NoneTwice
      <3> QED BY <3>1, <3>2
    <2>2. ASSUME NEW g \in Callers, Update(g) PROVE NoneTwice'
      BY <2>2, ChooseNotTwice DEF Update
    <2>3. ASSUME NEW g \in Callers, UpdateFails(g) PROVE NoneTwice'
      BY <2>3, ChooseNotTwice DEF UpdateFails, NoneTwice
    <2>4. ASSUME NEW s \in Registries, Change(s) PROVE NoneTwice'
      BY <2>4 DEF Change, NoneTwice
    <2>5. CASE UNCHANGED vars
      BY <2>5 DEF vars, NoneTwice
    <2> QED BY <2>1, <2>2, <2>3, <2>4, <2>5 DEF Next
  <1> QED BY <1>1, <1>2, BridgeTypeCorrect, PTL DEF Spec
-------------------------------------------------------------------------------
(* The callers of a behaviour are callers of the bridge.                   *)
ActiveOK == active \in {Clients, Callers \ Clients}

(* A step of a query client is one of the bridge, or none that the bridge  *)
(* sees.                                                                   *)
LEMMA QueryStep ==
  ASSUME ActiveOK, [QueryNext]_allVars
  PROVE  [Next]_vars /\ ActiveOK'
  <1>1. Clients \subseteq Callers /\ active \subseteq Callers
    BY QueryAssumption DEF ActiveOK
  <1>2. ASSUME NEW c \in Clients, Ask(c) PROVE Next /\ active' = active
    BY <1>1, <1>2 DEF Ask, Next
  <1>3. ASSUME NEW c \in Clients, GetQuery(c) \/ Request(c) \/ SubscribeTopic(c)
        PROVE  UNCHANGED vars /\ active' = active
    BY <1>3 DEF GetQuery, Request, SubscribeTopic
  <1>4. ASSUME NEW g \in Callers, Call(g) PROVE Next /\ active' = active
    BY <1>4 DEF Call, NoClient, Next
  <1>5. CASE Network
    BY <1>5 DEF Network, NoClient, Next, ActiveOK
  <1>6. CASE UNCHANGED allVars
    BY <1>6 DEF allVars, ActiveOK
  <1> QED BY <1>1, <1>2, <1>3, <1>4, <1>5, <1>6 DEF QueryNext, ActiveOK

(* The query clients and the other callers use the bridge as MdnsBridge    *)
(* has it (query.py calls getHref and nothing else of mdnsbridge.py).      *)
THEOREM BridgeImplemented == QuerySpec => Spec
  <1>1. QueryInit => Init /\ ActiveOK
    BY DEF QueryInit, ActiveOK
  <1>2. ActiveOK /\ [QueryNext]_allVars => [Next]_vars /\ ActiveOK'
    BY QueryStep
  <1> QED BY <1>1, <1>2, PTL DEF QuerySpec, Spec

(* So every answer they are given is allowed, and a service answered to    *)
(* one of them is not in the cache they share until it is filled again.    *)
THEOREM SharedBridgeSafe == QuerySpec => [](TypeOK /\ Allowed /\ NoneTwice)
  BY BridgeImplemented, BridgeTypeCorrect, AlwaysAllowed, NeverTwice, PTL

(* A client's address is one that the bridge may answer, and it is at most *)
(* its third request when one is under way.                                *)
Hrefs == Registries \cup {NoHref, LocalQuery}
States == [at : {"init", "ready", "notfound", "get", "again", "subscribe"},
           url : Hrefs, count : Nat]
Sound(c) ==
  /\ client[c] \in States
  /\ client[c].url \in Registries => client[c].url \in Mode /\ Wanted(client[c].url)
  /\ client[c].at # "init" => client[c].count < Tries

(* What a client sends a request to is of the mode and the priority that   *)
(* the configuration asks for, and no call makes a fourth request          *)
(* (query.py 48-94).                                                       *)
RequestsSound == DOMAIN client = Clients /\ \A c \in Clients : Sound(c)

(* What a client makes of an answer that is allowed. *)
LEMMA AnsweredSound ==
  ASSUME NEW c \in Clients, Sound(c), client[c].at \in {"init", "again", "subscribe"},
         NEW href \in Hrefs, href \in Registries => href \in Mode /\ Wanted(href),
         priority' = priority, client'[c] = Answered(c, href)
  PROVE  Sound(c)'
  <1> USE QueryAssumption DEF Answered, Sound, States, Tries, Wanted
  <1>1. CASE client[c].at = "init"
    BY <1>1 DEF Constructed, At
  <1>2. CASE client[c].at = "again"
    BY <1>2 DEF NextUrl
  <1>3. CASE client[c].at = "subscribe"
    BY <1>3
  <1> QED BY <1>1, <1>2, <1>3

(* Every step of a client, of the others and of the network keeps this.    *)
LEMMA SoundKept ==
  ASSUME RequestsSound, TypeOK, TypeOK', Allowed', ActiveOK, [QueryNext]_allVars
  PROVE  RequestsSound'
  <1>1. Clients \subseteq Callers /\ active \subseteq Callers
    BY QueryAssumption DEF ActiveOK
  <1>2. ASSUME priority' = priority, client' = client PROVE RequestsSound'
    BY <1>2 DEF RequestsSound, Sound, Wanted
  <1>3. ASSUME NEW c \in Clients, Sound(c)', priority' = priority,
               DOMAIN client' = Clients, \A d \in Clients \ {c} : client'[d] = client[d]
        PROVE  RequestsSound'
    BY <1>3 DEF RequestsSound, Sound, Wanted
  <1>4. ASSUME NEW c \in Clients, Ask(c) PROVE RequestsSound'
    <2>1. priority' = priority /\ client[c].at \in {"init", "again", "subscribe"}
      BY <1>4 DEF Ask, GetHref, Update, UpdateFails
    <2>2. CASE client' = client
      BY <1>2, <2>1, <2>2
    <2>3. CASE client' = [client EXCEPT ![c] = Answered(c, answer'[c])]
      <3>1. /\ answer'[c] \in Hrefs
            /\ answer'[c] \in Registries => answer'[c] \in Mode /\ Wanted(answer'[c])
        BY <1>1, <2>1 DEF TypeOK, Allowed, Hrefs, Wanted
      <3>2. Sound(c)'
        BY <2>1, <2>3, <3>1, AnsweredSound DEF RequestsSound
      <3> QED BY <1>3, <2>1, <2>3, <3>2 DEF RequestsSound
    <2> QED BY <1>4, <2>2, <2>3 DEF Ask
  <1>5. ASSUME NEW c \in Clients, GetQuery(c) \/ Request(c) \/ SubscribeTopic(c)
        PROVE  RequestsSound'
    <2>1. Sound(c) /\ priority' = priority
      BY <1>5 DEF RequestsSound, GetQuery, Request, SubscribeTopic, vars
    <2>2. CASE Request(c)
      <3>1. Sound(c)'
        BY <2>1, <2>2 DEF RequestsSound, Request, Sound, States, Tries, At, Wanted
      <3> QED BY <1>3, <2>1, <2>2, <3>1 DEF RequestsSound, Request
    <2>3. CASE GetQuery(c) \/ SubscribeTopic(c)
      <3>1. Sound(c)'
        BY <2>1, <2>3 DEF RequestsSound, GetQuery, SubscribeTopic, Idle, Sound, States, Tries,
                          Wanted
      <3> QED BY <1>3, <2>1, <2>3, <3>1 DEF RequestsSound, GetQuery, SubscribeTopic
    <2> QED BY <1>5, <2>2, <2>3
  <1>6. ASSUME NEW g \in Callers, Call(g) PROVE RequestsSound'
    BY <1>2, <1>6 DEF Call, NoClient, GetHref, Update, UpdateFails
  <1>7. CASE Network \/ UNCHANGED allVars
    BY <1>2, <1>7 DEF Network, NoClient, Change, allVars, vars
  <1> QED BY <1>1, <1>4, <1>5, <1>6, <1>7 DEF QueryNext

(* Whatever the bridge answers, and whoever else uses it meanwhile, no     *)
(* query client requests anything of a service that the configuration      *)
(* excludes, nor a fourth time.                                            *)
THEOREM RequestsAlwaysSound == QuerySpec => []RequestsSound
  <1>1. QueryInit => RequestsSound /\ ActiveOK
    BY BridgeAssumption DEF QueryInit, Init, RequestsSound, Sound, States, Hrefs, At, ActiveOK
  <1>2. /\ RequestsSound /\ ActiveOK /\ TypeOK /\ (TypeOK /\ Allowed)' /\ [QueryNext]_allVars
        => (RequestsSound /\ ActiveOK)'
    BY SoundKept, QueryStep
  <1> QED BY <1>1, <1>2, SharedBridgeSafe, PTL DEF QuerySpec
===============================================================================
