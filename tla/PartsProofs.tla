------------------------------ MODULE PartsProofs ------------------------------
(***************************************************************************)
(* What is proved of the parts of nmos-common that are modelled each by    *)
(* itself: AuthKeys, and those that Parts puts together, for any values of *)
(* their constants.  Each has its inductive invariant: AuthInv, IdInv,     *)
(* HttpInv, ClientInv, ZmqInv, IpcInv, BootInv; versions are translated in *)
(* no step, and the argument is one about the list of them.                *)
(***************************************************************************)
EXTENDS AuthKeys, Parts, Sequences, FiniteSetTheorems, WellFoundedInduction, TLAPS

(* AuthKeys, for any keys, threads, refresh interval and duration of a     *)
(* fetch.  A request that has fetched a key and not stored it yet holds a  *)
(* key that the server used when the fetch was under way, so that it was   *)
(* retired no longer ago than the fetch is old; with the bound on fetches, *)
(* and the two clocks that go together, the shared key is one that was     *)
(* retired no longer ago than it was refreshed, give or take a fetch.      *)
Ats == {"idle", "url", "metadata", "jwks", "store", "accepted", "refused", "error"}
Calls == [at : Ats, token : Keys \cup {NoKey}, got : Keys \cup {NoKey}, age : 0..MaxFetch]

(* A fetched key is a key. *)
Got == \A r \in Requests : requests[r].at = "store" => requests[r].got \in Keys

AuthInv == TypeOK /\ Got /\ KeyInTime
-------------------------------------------------------------------------------
(* An action of one request leaves the others as they are, and what it     *)
(* makes of this one is a call of the right type.                          *)
LEMMA BecomesType ==
  ASSUME requests \in [Requests -> Calls], NEW r \in Requests, NEW q \in Calls,
         Becomes(r, q)
  PROVE  requests' \in [Requests -> Calls] /\ requests'[r] = q
         /\ \A s \in Requests \ {r} : requests'[s] = requests[s]
BY DEF Becomes

(* Ended and Verdict make a call that is over. *)
LEMMA EndedType ==
  ASSUME NEW how \in {"idle", "accepted", "refused", "error"}, NEW token \in Keys \cup {NoKey}
  PROVE  Ended(how, token) \in Calls /\ Ended(how, token).at = how
         /\ Ended(how, token).token = token
BY AuthAssumption DEF Ended, Request, Calls, Ats

(* A verdict is a request that has ended, with its token, accepted only for the key itself. *)
LEMMA VerdictType ==
  ASSUME NEW token \in Keys \cup {NoKey}, NEW key
  PROVE  /\ Verdict(token, key) \in Calls
         /\ Verdict(token, key).at \in {"accepted", "refused"}
         /\ Verdict(token, key).token = token
         /\ Verdict(token, key).at = "accepted" => token = key
<1>1. CASE token = key
  BY <1>1, EndedType DEF Verdict
<1>2. CASE token # key
  BY <1>2, EndedType DEF Verdict
<1> QED BY <1>1, <1>2

(* TypeOK, with the type of a call by its name. *)
LEMMA TypeSplit ==
  TypeOK <=>
    /\ class \in {"AuthMiddleware", "RequiresAuth"}
    /\ public_key \in Keys \cup {NoKey} /\ keyAge \in 0..Interval + 1
    /\ serverKey \in Keys /\ retired \in [Keys -> 0..Grace + 1]
    /\ up \in BOOLEAN /\ listed \in BOOLEAN /\ auth_href \in BOOLEAN
    /\ requests \in [Requests -> Calls]
BY DEF TypeOK, Calls, Ats
-------------------------------------------------------------------------------
(* Nothing is fetched at the start, and there is no shared key.            *)
LEMMA InitInv == Init => AuthInv
<1> SUFFICES ASSUME Init PROVE AuthInv
  OBVIOUS
<1> USE AuthAssumption
<1>1. retired \in [Keys -> 0..Grace + 1] /\ keyAge \in 0..Interval + 1
  BY DEF Init, Grace
<1>2. requests \in [Requests -> Calls] /\ \A r \in Requests : requests[r].at = "idle"
  BY EndedType DEF Init
<1>3. TypeOK
  BY <1>1, <1>2, TypeSplit DEF Init
<1> QED BY <1>2, <1>3 DEF Init, AuthInv, Got, KeyInTime

(* The two halves of KeyInTime, for the shared key and for each request. *)
Shared ==
  public_key \notin {NoKey, serverKey} =>
    retired[public_key] <= keyAge + MaxFetch \/ keyAge > Interval
Held(r) ==
  requests[r].at = "store" =>
    /\ requests[r].got \in Keys
    /\ requests[r].got = serverKey \/ retired[requests[r].got] <= requests[r].age

(* The invariant, one request at a time. *)
LEMMA InvSplit == AuthInv <=> TypeOK /\ Shared /\ \A r \in Requests : Held(r)
BY DEF AuthInv, Got, KeyInTime, Shared, Held

(* A key that is retired starts its clock at zero. *)
LEMMA RotateInv ==
  ASSUME AuthInv, NEW k \in Keys, Rotate(k)
  PROVE  AuthInv'
<1> USE AuthAssumption
<1>1. TypeOK /\ Shared /\ \A r \in Requests : Held(r)
  BY InvSplit
<1>2. retired' \in [Keys -> 0..Grace + 1] /\ retired'[serverKey] = 0
      /\ \A j \in Keys : j # serverKey => retired'[j] = retired[j]
  BY <1>1 DEF Rotate, TypeOK, Grace
<1>3. TypeOK'
  BY <1>1, <1>2, TypeSplit DEF Rotate, TypeOK, Grace
<1>4. Shared'
  BY <1>1, <1>2 DEF Rotate, Shared, TypeOK
<1>5. ASSUME NEW r \in Requests PROVE Held(r)'
  <2>1. requests[r].age >= 0
    BY <1>1 DEF TypeOK
  <2> QED BY <1>1, <1>2, <2>1 DEF Rotate, Held
<1> QED BY <1>3, <1>4, <1>5 DEF AuthInv, Got, KeyInTime, Shared, Held

(* Nothing is said of the server's reachability. *)
LEMMA SwitchInv == AuthInv /\ Switch => AuthInv'
BY DEF AuthInv, TypeOK, Got, KeyInTime, Switch, Grace

(* The clock of a retired key, the age of the refresh and that of a fetch  *)
(* go up together, until the first says too old and the second stale.      *)
LEMMA TickInv == AuthInv /\ Tick => AuthInv'
<1> SUFFICES ASSUME AuthInv, Tick PROVE AuthInv'
  OBVIOUS
<1> USE AuthAssumption
<1>1. TypeOK /\ Shared /\ \A r \in Requests : Held(r)
  BY InvSplit
<1>2. keyAge' \in 0..Interval + 1 /\ (keyAge' = keyAge + 1 \/ keyAge' > Interval)
  BY <1>1 DEF Tick, TypeOK, Least
<1>3. /\ retired' \in [Keys -> 0..Grace + 1]
      /\ \A k \in Keys : retired'[k] <= retired[k] + 1
  BY <1>1 DEF Tick, TypeOK, Least, Grace
<1>4. ASSUME NEW r \in Requests
      PROVE  /\ requests'[r] \in [at : Ats, token : Keys \cup {NoKey}, got : Keys \cup {NoKey},
                                  age : 0..MaxFetch]
             /\ requests'[r].at = requests[r].at /\ requests'[r].got = requests[r].got
             /\ requests[r].at = "store" => requests'[r].age = requests[r].age + 1
  <2>1. requests[r] \in Calls
    BY <1>1, TypeSplit
  <2>2. CASE Fetching(requests[r])
    BY <2>1, <2>2 DEF Tick, Calls
  <2>3. CASE ~Fetching(requests[r])
    BY <2>1, <2>3 DEF Tick, Calls, Fetching
  <2> QED BY <2>2, <2>3
<1>5. requests' \in [Requests -> Calls]
  BY <1>4 DEF Tick, Calls
<1>6. TypeOK'
  BY <1>1, <1>2, <1>3, <1>5 DEF Tick, TypeOK, Calls, Ats
<1>7. Shared'
  <2> SUFFICES ASSUME public_key \notin {NoKey, serverKey}, ~(keyAge' > Interval)
               PROVE  retired'[public_key] <= keyAge' + MaxFetch
    BY DEF Shared, Tick
  <2>1. public_key \in Keys /\ keyAge \in Nat /\ keyAge' = keyAge + 1
    BY <1>1, <1>2 DEF TypeOK
  <2>2. retired[public_key] <= keyAge + MaxFetch
    BY <1>1, <2>1 DEF Shared
  <2>3. retired[public_key] \in Nat /\ retired'[public_key] \in Nat
        /\ retired'[public_key] <= retired[public_key] + 1
    BY <1>1, <1>3, <2>1 DEF TypeOK, Grace
  <2> QED BY <2>1, <2>2, <2>3
<1>8. ASSUME NEW r \in Requests PROVE Held(r)'
  <2> SUFFICES ASSUME requests[r].at = "store", requests[r].got # serverKey
               PROVE  requests[r].got \in Keys /\ retired'[requests[r].got] <= requests'[r].age
    BY <1>1, <1>4 DEF Held, Tick
  <2>1. requests[r].got \in Keys /\ retired[requests[r].got] <= requests[r].age
    BY <1>1 DEF Held
  <2>2. requests[r].age \in Nat /\ retired[requests[r].got] \in Nat
        /\ retired'[requests[r].got] \in Nat
        /\ retired'[requests[r].got] <= retired[requests[r].got] + 1
    BY <1>1, <1>3, <2>1 DEF TypeOK, Grace
  <2> QED BY <1>4, <2>1, <2>2
<1> QED BY <1>6, <1>7, <1>8 DEF AuthInv, Got, KeyInTime, Shared, Held
-------------------------------------------------------------------------------
(* A step that changes one request keeps the invariant, when what it makes *)
(* of it holds what it may and the shared key stays.                       *)
LEMMA OneRequestInv ==
  ASSUME AuthInv, NEW r \in Requests, NEW q \in Calls, Becomes(r, q),
         q.at = "store" => q.got \in Keys /\ (q.got = serverKey \/ retired[q.got] <= q.age),
         auth_href' \in BOOLEAN, UNCHANGED <<class, public_key, keyAge, authServer>>
  PROVE  AuthInv'
<1>1. TypeOK /\ Shared /\ \A s \in Requests : Held(s)
  BY InvSplit
<1>2. /\ requests' \in [Requests -> Calls] /\ requests'[r] = q
      /\ \A s \in Requests \ {r} : requests'[s] = requests[s]
  BY <1>1, BecomesType, TypeSplit
<1>3. TypeOK'
  BY <1>1, <1>2 DEF TypeOK, Calls, Ats, authServer
<1>4. Shared'
  BY <1>1 DEF Shared, authServer
<1>5. ASSUME NEW s \in Requests PROVE Held(s)'
  <2>1. CASE s = r
    BY <1>2, <2>1 DEF Held, authServer
  <2>2. CASE s # r
    BY <1>1, <1>2, <2>2 DEF Held, authServer
  <2> QED BY <2>1, <2>2
<1> QED BY <1>3, <1>4, <1>5 DEF AuthInv, Got, KeyInTime, Shared, Held

(* A new request fetches nothing yet, or is over at once. *)
LEMMA AskInv ==
  ASSUME AuthInv, NEW r \in Requests, NEW socket \in BOOLEAN, NEW token \in Keys \cup {NoKey},
         Ask(r, socket, token)
  PROVE  AuthInv'
<1> DEFINE q == CASE token = NoKey -> Ended("refused", NoKey)
                  [] token # NoKey /\ socket /\ class = "AuthMiddleware"
                                  -> Ended("error", NoKey)
                  [] OTHER -> IF Stale THEN Request("url", token, NoKey, 0)
                              ELSE Verdict(token, public_key)
<1>1. Request("url", token, NoKey, 0) \in Calls /\ Request("url", token, NoKey, 0).at = "url"
  BY AuthAssumption DEF Request, Calls, Ats
<1>2. q \in Calls /\ q.at # "store"
  <2>1. CASE token = NoKey
    BY <2>1, EndedType
  <2>2. CASE token # NoKey /\ socket /\ class = "AuthMiddleware"
    BY <2>2, EndedType
  <2>3. CASE token # NoKey /\ ~(socket /\ class = "AuthMiddleware")
    BY <1>1, <2>3, VerdictType
  <2> QED BY <2>1, <2>2, <2>3
<1>3. Becomes(r, q) /\ auth_href' = auth_href
      /\ UNCHANGED <<class, public_key, keyAge, authServer>>
  BY DEF Ask
<1>4. auth_href \in BOOLEAN
  BY DEF AuthInv, TypeOK
<1> HIDE DEF q
<1> QED BY <1>2, <1>3, <1>4, OneRequestInv

(* A phase of a fetch leads to the next or to an error. *)
LEMMA FetchInv ==
  ASSUME AuthInv, NEW r \in Requests, NEW at, NEW next \in {"metadata", "jwks"}, NEW works,
         Fetch(r, at, next, works),
         auth_href' \in BOOLEAN, UNCHANGED <<class, public_key, keyAge, authServer>>
  PROVE  AuthInv'
<1>1. requests[r] \in Calls
  BY TypeSplit DEF AuthInv
<1> DEFINE q == IF works THEN [requests[r] EXCEPT !.at = next]
                ELSE Ended("error", requests[r].token)
<1>2. q \in Calls /\ q.at # "store"
  <2>1. CASE works
    BY <1>1, <2>1 DEF Calls, Ats
  <2>2. CASE ~works
    <3>1. requests[r].token \in Keys \cup {NoKey}
      BY <1>1 DEF Calls
    <3> QED BY <2>2, <3>1, EndedType
  <2> QED BY <2>1, <2>2
<1>3. Becomes(r, q)
  BY DEF Fetch
<1> HIDE DEF q
<1> QED BY <1>2, <1>3, OneRequestInv

(* What is fetched is the key of now. *)
LEMMA GetJwksInv ==
  ASSUME AuthInv, NEW r \in Requests, GetJwks(r)
  PROVE  AuthInv'
<1>1. requests[r] \in Calls /\ serverKey \in Keys /\ auth_href \in BOOLEAN
  BY TypeSplit DEF AuthInv
<1> DEFINE q == IF up THEN [requests[r] EXCEPT !.at = "store", !.got = serverKey]
                ELSE Ended("error", requests[r].token)
<1>2. q \in Calls /\ (q.at = "store" => q.got = serverKey)
  <2>1. CASE up
    BY <1>1, <2>1 DEF Calls, Ats
  <2>2. CASE ~up
    <3>1. requests[r].token \in Keys \cup {NoKey}
      BY <1>1 DEF Calls
    <3> QED BY <2>2, <3>1, EndedType
  <2> QED BY <2>1, <2>2
<1>3. Becomes(r, q) /\ auth_href' = auth_href
      /\ UNCHANGED <<class, public_key, keyAge, authServer>>
  BY DEF GetJwks
<1> HIDE DEF q
<1> QED BY <1>1, <1>2, <1>3, OneRequestInv

(* What is stored was retired, if at all, while it was being fetched. *)
LEMMA StoreInv ==
  ASSUME AuthInv, NEW r \in Requests, Store(r)
  PROVE  AuthInv'
<1>1. TypeOK /\ Shared /\ \A s \in Requests : Held(s)
  BY InvSplit
<1>2. requests[r] \in Calls /\ requests[r].at = "store"
  BY <1>1, TypeSplit DEF Store
<1> DEFINE k == requests[r].got
<1>3. k \in Keys /\ (k = serverKey \/ retired[k] <= MaxFetch)
  <2>1. k \in Keys /\ (k = serverKey \/ retired[k] <= requests[r].age)
    BY <1>1, <1>2 DEF Held
  <2>2. requests[r].age \in 0..MaxFetch /\ retired[k] \in Nat
    BY <1>1, <1>2, <2>1, AuthAssumption DEF Calls, TypeOK, Grace
  <2> QED BY <2>1, <2>2, AuthAssumption
<1>4. public_key' = k /\ keyAge' = 0 /\ Becomes(r, Verdict(requests[r].token, k))
      /\ UNCHANGED <<class, authServer, auth_href>>
  BY DEF Store, UpdatePublicKey
<1>5. requests[r].token \in Keys \cup {NoKey}
  BY <1>2 DEF Calls
<1>6. Verdict(requests[r].token, k) \in Calls /\ Verdict(requests[r].token, k).at # "store"
  BY <1>5, VerdictType
<1>7. /\ requests' \in [Requests -> Calls] /\ requests'[r].at # "store"
      /\ \A s \in Requests \ {r} : requests'[s] = requests[s]
  <2>1. requests \in [Requests -> Calls]
    BY <1>1, TypeSplit
  <2> QED BY <1>4, <1>6, <2>1, BecomesType
<1>8. TypeOK'
  BY <1>1, <1>3, <1>4, <1>7, AuthAssumption DEF TypeOK, Calls, Ats, authServer
<1>9. Shared'
  BY <1>3, <1>4, AuthAssumption DEF Shared, authServer
<1>10. ASSUME NEW s \in Requests PROVE Held(s)'
  BY <1>1, <1>4, <1>7 DEF Held, authServer
<1> QED BY <1>8, <1>9, <1>10 DEF AuthInv, Got, KeyInTime, Shared, Held

(* An answered request fetches nothing. *)
LEMMA AnswerInv ==
  ASSUME AuthInv, NEW r \in Requests, Answer(r)
  PROVE  AuthInv'
<1>1. Ended("idle", NoKey) \in Calls /\ Ended("idle", NoKey).at # "store"
  BY EndedType
<1>2. Becomes(r, Ended("idle", NoKey)) /\ auth_href' = auth_href
      /\ UNCHANGED <<class, public_key, keyAge, authServer>>
  BY DEF Answer
<1>3. auth_href \in BOOLEAN
  BY DEF AuthInv, TypeOK
<1> QED BY <1>1, <1>2, <1>3, OneRequestInv
-------------------------------------------------------------------------------
(* Every step keeps the invariant. *)
LEMMA NextInv == AuthInv /\ [Next]_vars => AuthInv'
<1> SUFFICES ASSUME AuthInv, [Next]_vars PROVE AuthInv'
  OBVIOUS
<1>1. CASE Switch
  BY <1>1, SwitchInv
<1>2. CASE Tick
  BY <1>2, TickInv
<1>3. ASSUME NEW k \in Keys, Rotate(k) PROVE AuthInv'
  BY <1>3, RotateInv
<1>4. ASSUME NEW r \in Requests, Serve(r) PROVE AuthInv'
  <2>1. CASE GetUrl(r)
    <3>1. auth_href' \in BOOLEAN
      BY <2>1 DEF GetUrl, AuthInv, TypeOK
    <3> QED BY <2>1, <3>1, FetchInv DEF GetUrl
  <2>2. CASE GetMetadata(r)
    <3>1. auth_href' \in BOOLEAN
      BY <2>2 DEF GetMetadata, AuthInv, TypeOK
    <3> QED BY <2>2, <3>1, FetchInv DEF GetMetadata
  <2>3. CASE GetJwks(r)
    BY <2>3, GetJwksInv
  <2>4. CASE Store(r)
    BY <2>4, StoreInv
  <2>5. CASE Answer(r)
    BY <2>5, AnswerInv
  <2> QED BY <1>4, <2>1, <2>2, <2>3, <2>4, <2>5 DEF Serve
<1>5. ASSUME NEW r \in Requests, NEW socket \in BOOLEAN, NEW token \in Keys \cup {NoKey},
             Ask(r, socket, token)
      PROVE AuthInv'
  BY <1>5, AskInv
<1>6. CASE UNCHANGED vars
  BY <1>6 DEF vars, authServer, AuthInv, TypeOK, Got, KeyInTime
<1> QED BY <1>1, <1>2, <1>3, <1>4, <1>5, <1>6 DEF Next

(* The invariant of the specification. *)
LEMMA AlwaysInv == Spec => []AuthInv
BY InitInv, NextInv, PTL DEF Spec

(* The two ways in which a token is accepted: its key has just been        *)
(* stored, or has been in the class since a refresh that is not stale.     *)
LEMMA StoreAccepts ==
  ASSUME AuthInv, NEW r \in Requests, Store(r), requests'[r].at = "accepted"
  PROVE  LET k == requests'[r].token IN k = serverKey \/ retired[k] <= Grace
<1> DEFINE k == requests[r].got
<1>1. requests \in [Requests -> Calls] /\ requests[r].at = "store" /\ Held(r)
  BY InvSplit, TypeSplit DEF Store
<1>2. requests[r].token \in Keys \cup {NoKey} /\ requests[r].age \in 0..MaxFetch /\ k \in Keys
  BY <1>1 DEF Calls, Held
<1>3. requests'[r] = Verdict(requests[r].token, k)
  BY <1>1 DEF Store, UpdatePublicKey, Becomes
<1>4. requests'[r].token = k
  BY <1>2, <1>3, VerdictType
<1>5. retired[k] \in Nat
  BY <1>2, AuthAssumption DEF AuthInv, TypeOK, Grace
<1>6. k = serverKey \/ retired[k] <= Grace
  BY <1>1, <1>2, <1>5, AuthAssumption DEF Held, Grace
<1> QED BY <1>4, <1>6

(* A token accepted for the cached key is one that the server uses or retired in time. *)
LEMMA AskAccepts ==
  ASSUME AuthInv, NEW r \in Requests, NEW socket \in BOOLEAN, NEW token \in Keys \cup {NoKey},
         Ask(r, socket, token), requests'[r].at = "accepted"
  PROVE  LET k == requests'[r].token IN k = serverKey \/ retired[k] <= Grace
<1> USE AuthAssumption
<1>1. TypeOK /\ Shared /\ requests \in [Requests -> Calls]
  BY InvSplit, TypeSplit
<1>2. token # NoKey /\ ~Stale /\ requests'[r] = Verdict(token, public_key)
  BY <1>1 DEF Ask, Becomes, Ended, Request
<1>3. requests'[r].token = token /\ token = public_key
  BY <1>2, VerdictType
<1>4. public_key \in Keys /\ keyAge \in Nat /\ keyAge <= Interval
  BY <1>1, <1>2 DEF TypeOK, Stale
<1>5. public_key = serverKey \/ retired[public_key] <= keyAge + MaxFetch
  BY <1>1, <1>4 DEF Shared
<1>6. retired[public_key] \in Nat
  BY <1>1, <1>4 DEF TypeOK, Grace
<1> QED BY <1>3, <1>4, <1>5, <1>6 DEF Grace

(* Every request is in a known phase and every clock within its bound:     *)
(* public_key is a key or nothing, and a fetch is in time.                 *)
THEOREM AuthTypeCorrect == Spec => []TypeOK
<1>1. AuthInv => TypeOK
  BY DEF AuthInv
<1> QED BY AlwaysInv, <1>1, PTL

(* The key of the class was retired no longer ago than it was refreshed,   *)
(* give or take a fetch, or is stale; whatever fetches overlap.            *)
THEOREM KeysInTime == Spec => []KeyInTime
<1>1. AuthInv => KeyInTime
  BY DEF AuthInv
<1> QED BY AlwaysInv, <1>1, PTL

(* No token is accepted for a key that the server has not used for longer  *)
(* than REFRESH_KEY_INTERVAL and a fetch.                                  *)
THEOREM NoOldKeyAccepted == Spec => NoOldKey
<1> DEFINE Young(k) == k = serverKey \/ retired[k] <= Grace
           Fine == \A r \in Requests : Decides(r, "accepted") => Young(requests'[r].token)
<1>1. AuthInv /\ [Next]_vars => [Fine]_vars
  <2> SUFFICES ASSUME AuthInv, Next, NEW r \in Requests, Decides(r, "accepted")
               PROVE  Young(requests'[r].token)
    OBVIOUS
  <2> USE AuthAssumption
  <2>1. TypeOK /\ Shared /\ requests \in [Requests -> Calls]
    BY InvSplit, TypeSplit
  <2>2. requests'[r] # requests[r] /\ requests'[r].at = "accepted"
    BY DEF Decides
  <2>3. CASE Store(r)
    BY <2>2, <2>3, StoreAccepts
  <2>4. ASSUME NEW socket \in BOOLEAN, NEW token \in Keys \cup {NoKey}, Ask(r, socket, token)
        PROVE  Young(requests'[r].token)
    BY <2>2, <2>4, AskAccepts
  <2>5. CASE Switch \/ \E k \in Keys : Rotate(k)
    BY <2>2, <2>5 DEF Switch, Rotate
  <2>6. CASE Tick
    BY <2>1, <2>2, <2>6 DEF Tick, Fetching, Calls
  <2>7. CASE GetUrl(r) \/ GetMetadata(r) \/ GetJwks(r) \/ Answer(r)
    <3>1. requests[r] \in Calls /\ \A q : Becomes(r, q) => requests'[r] = q
      BY <2>1 DEF Becomes
    <3>2. requests'[r].at # "accepted"
      <4>1. CASE GetUrl(r) \/ GetMetadata(r)
        BY <3>1, <4>1 DEF GetUrl, GetMetadata, Fetch, Ended, Request, Calls
      <4>2. CASE GetJwks(r)
        <5>1. CASE up
          <6>1. requests'[r] = [requests[r] EXCEPT !.at = "store", !.got = serverKey]
            BY <3>1, <4>2, <5>1 DEF GetJwks
          <6> QED BY <3>1, <6>1 DEF Calls
        <5>2. CASE ~up
          BY <3>1, <4>2, <5>2 DEF GetJwks, Ended, Request
        <5> QED BY <5>1, <5>2
      <4>3. CASE Answer(r)
        <5>1. requests'[r] = Ended("idle", NoKey)
          BY <3>1, <4>3 DEF Answer
        <5> QED BY <5>1, EndedType
      <4> QED BY <2>7, <4>1, <4>2, <4>3
    <3> QED BY <2>2, <3>2
  <2>8. ASSUME NEW s \in Requests, s # r, \/ Serve(s)
               \/ \E socket \in BOOLEAN, token \in Keys \cup {NoKey} : Ask(s, socket, token)
        PROVE  FALSE
    BY <2>1, <2>2, <2>8
       DEF Serve, GetUrl, GetMetadata, GetJwks, Store, Answer, Fetch, Ask, Becomes
  <2> QED BY <2>2, <2>3, <2>4, <2>5, <2>6, <2>7, <2>8 DEF Next, Serve
<1> QED BY AlwaysInv, <1>1, PTL DEF Spec, NoOldKey
-------------------------------------------------------------------------------
(* The parts by themselves: a step of Parts is one of each part, or leaves *)
(* it alone.                                                               *)
LEMMA PartSteps ==
  ASSUME [PartsNext]_partsVars
  PROVE  /\ [Zmq!Next]_zmq /\ [Http!Next]_http /\ [Ipc!Next]_ipc
         /\ [WebSocket!Next]_websocket /\ [Id!Next]_id /\ [Boot!Next]_boot
         /\ UNCHANGED <<part, versions>>
<1>1. CASE UNCHANGED partsVars
  BY <1>1 DEF partsVars
<1>2. CASE Of("zmq", Zmq!Next)
  BY <1>2 DEF Of
<1>3. CASE Of("http", Http!Next)
  BY <1>3 DEF Of
<1>4. CASE Of("websocket", WebSocket!Next)
  BY <1>4 DEF Of
<1>5. CASE Of("ipc", Ipc!Next)
  BY <1>5 DEF Of
<1>6. CASE Of("id", Id!Next)
  BY <1>6 DEF Of
<1>7. CASE Of("boot", Boot!Next)
  BY <1>7 DEF Of
<1> QED BY <1>1, <1>2, <1>3, <1>4, <1>5, <1>6, <1>7 DEF PartsNext
-------------------------------------------------------------------------------
(* NodeId.  Until a process overwrites another's file, one at most is      *)
(* writing it, which is empty then; and none has gone by its id yet.       *)
States == [at : {"off", "read", "open", "write", "done"}, id : Nat, warned : BOOLEAN]

IdType ==
  /\ file \in Nat \cup {None} /\ ids \in Nat /\ raced \in BOOLEAN
  /\ process \in [Processes -> States]
  /\ \A p \in Processes : process[p].at # "off" => process[p].id # 0

Writing(p) ==
  process[p].at = "write" => file = 0 /\ \A q \in Processes \ {p} : process[q].at # "write"
Goes(p) == process[p].at = "done" /\ ~process[p].warned => process[p].id = file

IdInv == IdType /\ (~raced => \A p \in Processes : Writing(p) /\ Goes(p))

LEMMA IdInit == Id!Init => IdInv
<1> SUFFICES ASSUME Id!Init PROVE IdInv
  OBVIOUS
<1>1. Id!At("off", 0) \in States
  BY DEF Id!At, States
<1>2. \A p \in Processes : process[p].at = "off"
  BY DEF Id!Init, Id!At
<1>3. IdType
  BY <1>1, <1>2 DEF Id!Init, IdType
<1> QED BY <1>2, <1>3 DEF IdInv, Writing, Goes

(* What a step of one process has to show: that its own state is right,    *)
(* and that the file is still what the others take it to be.               *)
LEMMA IdOne ==
  ASSUME IdInv, NEW p \in Processes, NEW s \in States,
         process' = [process EXCEPT ![p] = s],
         file' \in Nat \cup {None}, ids' \in Nat, raced' \in BOOLEAN, raced => raced',
         s.at # "off" => s.id # 0,
         ~raced' =>
           /\ s.at = "write" =>
                file' = 0 /\ \A q \in Processes \ {p} : process[q].at # "write"
           /\ s.at = "done" /\ ~s.warned => s.id = file'
           /\ file' # file => \A q \in Processes \ {p} : process[q].at # "write" /\
                                ~(process[q].at = "done" /\ ~process[q].warned)
           /\ \A q \in Processes \ {p} : process[q].at = "write" => s.at # "write"
  PROVE  IdInv'
<1>1. /\ process'[p] = s /\ process' \in [Processes -> States]
      /\ \A q \in Processes \ {p} : process'[q] = process[q]
  BY DEF IdInv, IdType
<1>2. IdType'
  BY <1>1 DEF IdInv, IdType
<1>3. ASSUME ~raced', NEW q \in Processes PROVE Writing(q)' /\ Goes(q)'
  <2>1. CASE q = p
    BY <1>1, <1>3, <2>1 DEF Writing, Goes
  <2>2. CASE q # p
    <3>1. Writing(q) /\ Goes(q)
      BY <1>3 DEF IdInv
    <3>2. process'[q] = process[q]
      BY <1>1, <2>2
    <3>3. Goes(q)'
      BY <1>3, <2>2, <3>1, <3>2 DEF Goes
    <3>4. ASSUME process[q].at = "write"
          PROVE  file' = 0 /\ \A r \in Processes \ {q} : process'[r].at # "write"
      <4>1. file' = 0
        BY <1>3, <2>2, <3>1, <3>4 DEF Writing
      <4>2. ASSUME NEW r \in Processes \ {q} PROVE process'[r].at # "write"
        BY <1>1, <1>3, <2>2, <3>1, <3>4 DEF Writing
      <4> QED BY <4>1, <4>2
    <3>5. Writing(q)'
      BY <3>2, <3>4 DEF Writing
    <3> QED BY <3>3, <3>5
  <2> QED BY <2>1, <2>2
<1> QED BY <1>2, <1>3 DEF IdInv

LEMMA IdStep == IdInv /\ [Id!Next]_id => IdInv'
<1> SUFFICES ASSUME IdInv, [Id!Next]_id PROVE IdInv'
  OBVIOUS
<1> USE PartsAssumption
<1>1. ASSUME NEW p \in Processes, Id!Begin(p) PROVE IdInv'
  <2> DEFINE s == Id!At(IF Id!IsThere THEN "read" ELSE "open", ids')
  <2>1. s \in States /\ s.at \in {"read", "open"} /\ s.id # 0 /\ ids' \in Nat
    BY <1>1 DEF Id!Begin, Id!At, States, IdInv, IdType
  <2>2. process' = [process EXCEPT ![p] = s] /\ UNCHANGED <<file, raced>>
    BY <1>1 DEF Id!Begin
  <2> HIDE DEF s
  <2> QED BY <2>1, <2>2, IdOne DEF IdInv, IdType
<1>2. ASSUME NEW p \in Processes, process[p].at # "off", Id!Warn(p),
             file' \in Nat \cup {None}, UNCHANGED <<ids, raced>>,
             file' # file => process[p].at = "write"
      PROVE  IdInv'
  <2> DEFINE s == [process[p] EXCEPT !.at = "done", !.warned = TRUE]
  <2>1. s \in States /\ s.at = "done" /\ s.warned /\ s.id # 0
    BY <1>2 DEF States, IdInv, IdType
  <2>2. process' = [process EXCEPT ![p] = s]
    BY <1>2 DEF Id!Warn
  <2>3. ASSUME ~raced, file' # file, NEW q \in Processes \ {p}
        PROVE  process[q].at # "write" /\ ~(process[q].at = "done" /\ ~process[q].warned)
    BY <1>2, <2>3 DEF IdInv, IdType, Writing, Goes
  <2> HIDE DEF s
  <2> QED BY <1>2, <2>1, <2>2, <2>3, IdOne DEF IdInv, IdType
<1>3. ASSUME NEW p \in Processes, Id!Read(p) PROVE IdInv'
  <2>1. CASE Id!Warn(p)
    BY <1>2, <1>3, <2>1 DEF Id!Read, IdInv, IdType
  <2>2. CASE file \notin {None, 0}
             /\ process' = [process EXCEPT ![p].at = "done", ![p].id = file]
    <3> DEFINE s == [process[p] EXCEPT !.at = "done", !.id = file]
    <3>1. s \in States /\ s.at = "done" /\ s.id = file /\ s.id # 0
      BY <2>2 DEF States, IdInv, IdType
    <3>2. process' = [process EXCEPT ![p] = s] /\ UNCHANGED <<file, ids, raced>>
      BY <1>3, <2>2 DEF Id!Read
    <3> HIDE DEF s
    <3> QED BY <3>1, <3>2, IdOne DEF IdInv, IdType
  <2> QED BY <1>3, <2>1, <2>2 DEF Id!Read
<1>4. ASSUME NEW p \in Processes, Id!OpenFile(p) PROVE IdInv'
  <2>1. CASE Id!Warn(p) /\ UNCHANGED <<file, raced>>
    BY <1>2, <1>4, <2>1 DEF Id!OpenFile, IdInv, IdType
  <2>2. CASE /\ file' = 0 /\ raced' = (raced \/ Id!IsThere)
             /\ process' = [process EXCEPT ![p].at = "write"]
    <3> DEFINE s == [process[p] EXCEPT !.at = "write"]
    <3>1. s \in States /\ s.at = "write" /\ s.id # 0
      BY <1>4 DEF Id!OpenFile, States, IdInv, IdType
    <3>2. process' = [process EXCEPT ![p] = s] /\ ids' = ids
      BY <1>4, <2>2 DEF Id!OpenFile
    <3>3. raced' \in BOOLEAN /\ (raced => raced')
      BY <2>2 DEF IdInv, IdType
    <3>4. ASSUME ~raced', NEW q \in Processes \ {p}
          PROVE  process[q].at # "write" /\ ~(process[q].at = "done" /\ ~process[q].warned)
      <4>1. ~raced /\ file = None
        BY <2>2, <3>4 DEF Id!IsThere, IdInv, IdType
      <4> QED BY <4>1 DEF IdInv, IdType, States, Writing, Goes
    <3> HIDE DEF s
    <3> QED BY <2>2, <3>1, <3>2, <3>3, <3>4, IdOne DEF IdInv, IdType
  <2> QED BY <1>4, <2>1, <2>2 DEF Id!OpenFile
<1>5. ASSUME NEW p \in Processes, Id!WriteFile(p) PROVE IdInv'
  <2>1. process[p].at = "write" /\ UNCHANGED <<ids, raced>> /\ Id!Written(p) \in Nat \ {0}
    BY <1>5 DEF Id!WriteFile, Id!Written, IdInv, IdType, States
  <2>2. CASE file' \in {file, 0, Id!Written(p)} /\ Id!Warn(p)
    BY <1>2, <2>1, <2>2 DEF IdInv, IdType
  <2>3. CASE file' = Id!Written(p) /\ process' = [process EXCEPT ![p].at = "done"]
    <3> DEFINE s == [process[p] EXCEPT !.at = "done"]
    <3>1. s \in States /\ s.at = "done" /\ s.id = file' /\ s.id # 0
      BY <2>1, <2>3 DEF Id!Written, States, IdInv, IdType
    <3>2. process' = [process EXCEPT ![p] = s]
      BY <2>3
    <3>3. ASSUME ~raced, NEW q \in Processes \ {p}
          PROVE  process[q].at # "write" /\ ~(process[q].at = "done" /\ ~process[q].warned)
      BY <2>1, <3>3 DEF IdInv, IdType, Writing, Goes
    <3>4. /\ file' \in Nat \cup {None} /\ ids' \in Nat /\ raced' \in BOOLEAN
          /\ raced' = raced
      BY <2>1, <2>3 DEF IdInv, IdType
    <3> HIDE DEF s
    <3> QED BY <3>1, <3>2, <3>3, <3>4, IdOne
  <2> QED BY <1>5, <2>2, <2>3 DEF Id!WriteFile
<1>6. ASSUME NEW p \in Processes, Id!End(p) PROVE IdInv'
  <2>1. Id!At("off", 0) \in States /\ Id!At("off", 0).at = "off"
    BY DEF Id!At, States
  <2> QED BY <1>6, <2>1, IdOne DEF Id!End, IdInv, IdType
<1>7. CASE UNCHANGED id
  BY <1>7 DEF id, IdInv, IdType, Writing, Goes
<1> QED BY <1>1, <1>3, <1>4, <1>5, <1>6, <1>7 DEF Id!Next

(* All processes of the node go by one id, the file's, or have warned that *)
(* they do not, whether reading or writing the file fails or a process     *)
(* ends in the midst of it; unless two wrote it, neither having found it   *)
(* (utils.py 51-67).                                                       *)
THEOREM AllGoByOneId == PartsSpec => []OneId
<1>1. PartsInit => IdInv
  BY IdInit DEF PartsInit
<1>2. IdInv /\ [PartsNext]_partsVars => IdInv'
  BY IdStep, PartSteps
<1>3. IdInv => OneId
  BY DEF IdInv, Goes, OneId, Id!OneId
<1> QED BY <1>1, <1>2, <1>3, PTL DEF PartsSpec
-------------------------------------------------------------------------------
(* HttpServer.  The port is the one asked for, or any was; until the event *)
(* is set it is not, and a thread that serves, or has served, has told the *)
(* API, or failed.                                                         *)
HttpInv ==
  /\ wanted \in Ports \cup {Any} /\ port \in Ports \cup {Any} /\ wanted \in {Any, port}
  /\ thread \in {"construct", "port", "bind", "set", "serve", "done"}
  /\ thread \in {"construct", "port", "bind", "set"} => ~started
  /\ thread \in {"bind", "set"} => port \in Ports
  /\ thread = "set" => bound = port
  /\ thread \in {"serve", "done"} /\ ~failed => apiPort = port /\ port \in Ports
  /\ thread = "serve" /\ ~failed => bound = port

LEMMA HttpInit == PartsInit => HttpInv
<1>1. NoServer => HttpInv
  BY DEF NoServer, HttpInv
<1>2. Http!Init => HttpInv
  BY DEF Http!Init, HttpInv
<1> QED BY <1>1, <1>2 DEF PartsInit

LEMMA HttpStep == HttpInv /\ [Http!Next]_http => HttpInv'
<1> SUFFICES ASSUME HttpInv, [Http!Next]_http PROVE HttpInv'
  OBVIOUS
<1>1. CASE Http!Construct
  BY <1>1 DEF Http!Construct, Http!Fails, HttpInv
<1>2. CASE Http!PickPort
  BY <1>2 DEF Http!PickPort, Http!Fails, HttpInv
<1>3. CASE Http!Bind
  BY <1>3 DEF Http!Bind, Http!Fails, HttpInv
<1>4. CASE Http!SetStarted
  BY <1>4 DEF Http!SetStarted, HttpInv
<1>5. CASE Http!ServeEnds
  BY <1>5 DEF Http!ServeEnds, HttpInv
<1>6. CASE UNCHANGED http
  BY <1>6 DEF http, HttpInv
<1> QED BY <1>1, <1>2, <1>3, <1>4, <1>5, <1>6 DEF Http!Next, Http!Starting

(* Whoever is woken without an exception finds the API told the port that  *)
(* was asked for, and the server at it while it serves (httpserver.py):    *)
(* the safety half of HttpReports.                                         *)
THEOREM AlwaysTruthful == PartsSpec => []Http!Truthful
<1>1. HttpInv /\ [PartsNext]_partsVars => HttpInv'
  BY HttpStep, PartSteps
<1>2. HttpInv => Http!Truthful
  BY DEF HttpInv, Http!Truthful
<1> QED BY HttpInit, <1>1, <1>2, PTL DEF PartsSpec
-------------------------------------------------------------------------------
(* WebSocketClient.  Its thread goes on until the flag is cleared, which   *)
(* only a stop does, and one before the thread runs in vain.               *)
ClientInv ==
  part = "websocket" =>
    /\ client \in {"new", "check", "dial", "connected", "done"}
    /\ client \in {"check", "dial", "connected"} /\ ~keepRunning =>
         stopped \in {"check", "dial", "connected"}
    /\ client = "done" => stopped \in {"check", "dial", "connected"}
    /\ client = "new" => stopped \in {"no", "new"}

(* Neither a server that comes and goes nor a stop that comes too early    *)
(* ends the client, only a stop of a thread that runs                      *)
(* (webSocketClient.py).                                                   *)
THEOREM OnlyStopEnds ==
  PartsSpec => [](part = "websocket" /\ client = "done" =>
                    stopped \in {"check", "dial", "connected"})
<1>1. PartsInit => ClientInv
  BY DEF PartsInit, WebSocket!Init, ClientInv
<1>2. ClientInv /\ [PartsNext]_partsVars => ClientInv'
  <2> SUFFICES ASSUME ClientInv, [WebSocket!Next]_websocket, part' = part PROVE ClientInv'
    BY PartSteps
  <2>1. CASE WebSocket!Run
    BY <2>1 DEF WebSocket!Run, ClientInv
  <2>2. CASE WebSocket!Check
    BY <2>2 DEF WebSocket!Check, WebSocket!GoesOn, ClientInv
  <2>3. CASE WebSocket!RunForever \/ WebSocket!ConnectionEnds
    BY <2>3 DEF WebSocket!RunForever, WebSocket!ConnectionEnds, ClientInv
  <2>4. CASE WebSocket!Switch \/ UNCHANGED websocket
    BY <2>4 DEF WebSocket!Switch, websocket, ClientInv
  <2>5. CASE WebSocket!Stop
    BY <2>5 DEF WebSocket!Stop, ClientInv
  <2> QED BY <2>1, <2>2, <2>3, <2>4, <2>5 DEF WebSocket!Next, WebSocket!Thread
<1>3. ClientInv => (part = "websocket" /\ client = "done" =>
                      stopped \in {"check", "dial", "connected"})
  BY DEF ClientInv
<1> QED BY <1>1, <1>2, <1>3, PTL DEF PartsSpec
-------------------------------------------------------------------------------
(* ZmqServer.  stop waits for each worker in turn; those it has waited for *)
(* have finished and do not start again.                                   *)
ZmqInv ==
  /\ numListed \in 0..NumWorkers /\ stopper \in Nat \cup {-1} /\ stopper <= numListed
  /\ DOMAIN worker = 1..NumWorkers
  /\ server = "new" => stopper = -1
  /\ server \in {"new", "bound"} \/ numListed = NumWorkers
  /\ stopper >= 0 /\ ~early => server \notin {"new", "bound"}
  /\ \A w \in 1..NumWorkers : w <= stopper => worker[w] = "finished"

LEMMA ZmqInit == Zmq!Init => ZmqInv
BY PartsAssumption DEF Zmq!Init, Zmq!Workers, ZmqInv

LEMMA ZmqStep == ZmqInv /\ [Zmq!Next]_zmq => ZmqInv'
<1> SUFFICES ASSUME ZmqInv, [Zmq!Next]_zmq PROVE ZmqInv'
  OBVIOUS
<1> USE PartsAssumption
<1>1. CASE Zmq!Run
  BY <1>1 DEF Zmq!Run, ZmqInv
<1>2. CASE Zmq!StartWorker
  BY <1>2 DEF Zmq!StartWorker, ZmqInv
<1>3. CASE Zmq!Proxy
  BY <1>3 DEF Zmq!Proxy, ZmqInv
<1>4. CASE Zmq!Stop
  <2>1. /\ stopper' = 0 /\ stopper = -1 /\ server # "new"
        /\ UNCHANGED <<server, numListed, worker>>
    BY <1>4 DEF Zmq!Stop
  <2>2. ~early' => server = "proxy"
    BY <1>4 DEF Zmq!Stop
  <2> QED BY <2>1, <2>2 DEF ZmqInv
<1>5. CASE Zmq!StopWorker \/ Zmq!Destroy
  BY <1>5 DEF Zmq!StopWorker, Zmq!Destroy, ZmqInv
<1>6. CASE Zmq!StopNext
  BY <1>6 DEF Zmq!StopNext, Zmq!InList, ZmqInv
<1>7. ASSUME NEW w \in Zmq!Workers,
             Zmq!Receive(w) \/ Zmq!Respond(w) \/ Zmq!PollEnds(w) \/ Zmq!CallbackRaises(w)
      PROVE  ZmqInv'
  <2>1. /\ worker[w] \in {"poll", "busy"} /\ UNCHANGED <<server, numListed, stopper, early>>
        /\ \E state : worker' = [worker EXCEPT ![w] = state]
    BY <1>7 DEF Zmq!Receive, Zmq!Respond, Zmq!PollEnds, Zmq!CallbackRaises
  <2> QED BY <2>1 DEF ZmqInv
<1>8. CASE UNCHANGED zmq
  BY <1>8 DEF zmq, ZmqInv
<1> QED BY <1>1, <1>2, <1>3, <1>4, <1>5, <1>6, <1>7, <1>8
        DEF Zmq!Next, Zmq!Serve, Zmq!Stopping, Zmq!Work

(* stop, called on a server that runs, destroys the context only when all  *)
(* workers have finished, so that it cuts off no request that one of them  *)
(* has received (zmqserver.py): the safety half of ZmqStops.               *)
THEOREM NeverCutOff == PartsSpec => [][Zmq!NoneCutOff]_zmq
<1>1. ZmqInv /\ [PartsNext]_partsVars => ZmqInv'
  BY ZmqStep, PartSteps
<1>2. ZmqInv /\ [Zmq!Next]_zmq => [Zmq!NoneCutOff]_zmq
  <2> SUFFICES ASSUME ZmqInv, Zmq!Next, context' # context, stopper >= 0, ~early
               PROVE  \A w \in Zmq!Workers : worker[w] = "finished"
    BY DEF Zmq!NoneCutOff
  <2>1. Zmq!Run \/ Zmq!Destroy
    BY DEF Zmq!Next, Zmq!Serve, Zmq!Stopping, Zmq!Work, Zmq!StartWorker, Zmq!Proxy, Zmq!Stop,
           Zmq!StopWorker, Zmq!StopNext, Zmq!Receive, Zmq!Respond, Zmq!PollEnds,
           Zmq!CallbackRaises
  <2>2. server # "new"
    BY DEF ZmqInv
  <2>3. stopper = NumWorkers
    BY <2>1, <2>2 DEF Zmq!Run, Zmq!Destroy, ZmqInv
  <2> QED BY <2>3, PartsAssumption DEF ZmqInv, Zmq!Workers
<1>3. ZmqInv /\ [PartsNext]_partsVars => [Zmq!NoneCutOff]_zmq
  BY <1>2, PartSteps
<1>4. PartsInit => ZmqInv
  BY ZmqInit DEF PartsInit
<1> QED BY <1>1, <1>3, <1>4, PTL DEF PartsSpec
-------------------------------------------------------------------------------
(* IpcHost.  Of the requests that wait or are being served, one at most    *)
(* was sent through the socket that a proxy has now: that of the call that *)
(* waits for its answer.                                                   *)
IpcRequests == [proxy : Proxies, socket : Nat, call : Nat, kind : Ipc!Kinds]
IpcType ==
  /\ calls \in Nat /\ pending \in Seq(IpcRequests)
  /\ proxy \in [Proxies -> [at : {"idle", "wait"}, socket : Nat, call : Nat,
                            answer : Nat \cup {None}]]
  /\ greenlet = "call" => serving \in IpcRequests

Current(r) == r.socket = proxy[r.proxy].socket
Awaited(r) ==
  LET p == r.proxy IN
    /\ r.socket <= proxy[p].socket
    /\ Current(r) => proxy[p].at = "wait" /\ proxy[p].call = r.call /\ proxy[p].answer = None
Apart(q, r) == q.proxy = r.proxy => q.socket # r.socket

Sent ==
  /\ \A i \in DOMAIN pending : Awaited(pending[i])
  /\ \A i, j \in DOMAIN pending : i # j => Apart(pending[i], pending[j])
  /\ greenlet = "call" =>
       Awaited(serving) /\ \A i \in DOMAIN pending : Apart(serving, pending[i])

(* The host is ready for the next request whenever it polls for one.       *)
Ready ==
  /\ greenlet \in {"none", "poll", "call", "dead", "closed"}
  /\ greenlet \in {"none", "poll"} => replies
  /\ stop => greenlet \in {"none", "closed"}
  /\ greenlet = "dead" => broken

IpcInv == IpcType /\ Sent /\ Ready /\ Ipc!OwnAnswer

LEMMA IpcInit == Ipc!Init => IpcInv
BY PartsAssumption DEF Ipc!Init, Ipc!Open, IpcInv, IpcType, Sent, Ready, Ipc!OwnAnswer

(* What a step that leaves the requests and the host alone must leave a    *)
(* proxy with.                                                             *)
LEMMA ProxyStep ==
  ASSUME IpcInv, NEW p \in Proxies, NEW new, proxy' = [proxy EXCEPT ![p] = new],
         new \in [at : {"idle", "wait"}, socket : Nat, call : Nat, answer : Nat \cup {None}],
         new.answer \in {None, new.call},
         \/ new.socket > proxy[p].socket
         \/ new.socket = proxy[p].socket /\ proxy[p].answer # None,
         UNCHANGED <<stop, greenlet, replies, pending, serving, calls, broken>>
  PROVE  IpcInv'
<1>1. IpcType'
  BY DEF IpcInv, IpcType
<1>2. ASSUME NEW r \in IpcRequests, Awaited(r) PROVE Awaited(r)'
  <2>1. CASE r.proxy = p
    BY <1>2, <2>1 DEF IpcInv, IpcType, Awaited, Current, IpcRequests
  <2>2. CASE r.proxy # p
    BY <1>2, <2>2 DEF IpcInv, IpcType, Awaited, Current, IpcRequests
  <2> QED BY <2>1, <2>2
<1>3. \A i \in DOMAIN pending : pending[i] \in IpcRequests
  BY DEF IpcInv, IpcType
<1>4. Sent'
  BY <1>2, <1>3 DEF IpcInv, IpcType, Sent, Apart
<1>5. Ipc!OwnAnswer'
  BY DEF IpcInv, IpcType, Ipc!OwnAnswer
<1> QED BY <1>1, <1>4, <1>5 DEF IpcInv, Ready

LEMMA InvokeStep ==
  ASSUME IpcInv, NEW p \in Proxies, NEW kind \in Ipc!Kinds, Ipc!Invoke(p, kind)
  PROVE  IpcInv'
<1> DEFINE N == Len(pending)
<1>1. PICK new \in IpcRequests :
      /\ new.proxy = p /\ new.socket = proxy[p].socket /\ new.call = calls'
      /\ pending' = Append(pending, new) /\ calls' \in Nat
      /\ proxy' = [proxy EXCEPT ![p].at = "wait", ![p].call = calls', ![p].answer = None]
      /\ proxy[p].at = "idle"
      /\ UNCHANGED <<stop, greenlet, replies, serving, broken>>
  <2> DEFINE new == [proxy |-> p, socket |-> proxy[p].socket, call |-> calls', kind |-> kind]
  <2>1. new \in IpcRequests /\ pending' = Append(pending, new) /\ calls' \in Nat
    BY DEF Ipc!Invoke, Ipc!Send, IpcInv, IpcType, IpcRequests
  <2>2. new.proxy = p /\ new.socket = proxy[p].socket /\ new.call = calls'
    OBVIOUS
  <2> HIDE DEF new
  <2> QED BY <2>1, <2>2 DEF Ipc!Invoke
<1>2. /\ N \in Nat /\ DOMAIN pending = 1..N /\ DOMAIN pending' = 1..N + 1
      /\ \A i \in 1..N : pending'[i] = pending[i] /\ pending[i] \in IpcRequests
      /\ pending'[N + 1] = new
  BY <1>1 DEF IpcInv, IpcType
<1> HIDE DEF N
<1>3. IpcType'
  <2>1. pending' \in Seq(IpcRequests)
    BY <1>1 DEF IpcInv, IpcType
  <2>2. proxy' \in [Proxies -> [at : {"idle", "wait"}, socket : Nat, call : Nat,
                                answer : Nat \cup {None}]]
    <3>1. /\ proxy' = [q \in Proxies |-> proxy'[q]]
          /\ \A q \in Proxies \ {p} : proxy'[q] = proxy[q]
      BY <1>1 DEF IpcInv, IpcType
    <3>2. proxy'[p] = [at |-> "wait", socket |-> proxy[p].socket, call |-> calls', answer |-> None]
      BY <1>1 DEF IpcInv, IpcType
    <3> QED BY <1>1, <3>1, <3>2 DEF IpcInv, IpcType
  <2> QED BY <1>1, <2>1, <2>2 DEF IpcInv, IpcType
<1>4. ASSUME NEW r \in IpcRequests, Awaited(r)
      PROVE  Awaited(r)' /\ Apart(r, new) /\ Apart(new, r)
  <2>1. CASE r.proxy = p
    <3>1. r.socket < proxy[p].socket
      BY <1>1, <1>4, <2>1 DEF IpcInv, IpcType, Awaited, Current, IpcRequests
    <3> QED BY <1>1, <2>1, <3>1 DEF IpcInv, IpcType, Awaited, Current, IpcRequests, Apart
  <2>2. CASE r.proxy # p
    BY <1>1, <1>4, <2>2 DEF IpcInv, IpcType, Awaited, Current, IpcRequests, Apart
  <2> QED BY <2>1, <2>2
<1>5. Awaited(new)'
  <2>1. /\ proxy'[p].socket = proxy[p].socket /\ proxy'[p].socket \in Nat /\ proxy'[p].at = "wait"
        /\ proxy'[p].call = calls' /\ proxy'[p].answer = None
    BY <1>1 DEF IpcInv, IpcType
  <2> QED BY <1>1, <2>1 DEF Awaited, Current
<1>6. \A i \in 1..N : Awaited(pending[i])
  BY <1>2 DEF IpcInv, Sent
<1>7. Sent'
  <2>1. ASSUME NEW i \in 1..N + 1 PROVE Awaited(pending[i])'
    <3>1. CASE i \in 1..N
      BY <1>2, <1>4, <1>6, <3>1
    <3>2. CASE i = N + 1
      BY <1>2, <1>5, <3>2
    <3> QED BY <1>2, <2>1, <3>1, <3>2
  <2>2. ASSUME NEW i \in 1..N + 1, NEW j \in 1..N + 1, i # j
        PROVE  Apart(pending'[i], pending'[j])
    <3>1. CASE i \in 1..N /\ j \in 1..N
      BY <1>2, <2>2, <3>1 DEF IpcInv, Sent
    <3>2. CASE i = N + 1 \/ j = N + 1
      BY <1>2, <1>4, <1>6, <2>2, <3>2
    <3> QED BY <1>2, <2>2, <3>1, <3>2
  <2>3. ASSUME greenlet = "call"
        PROVE  Awaited(serving)' /\ \A i \in 1..N + 1 : Apart(serving, pending'[i])
    <3>1. serving \in IpcRequests /\ Awaited(serving) /\ \A i \in 1..N : Apart(serving, pending[i])
      BY <1>2, <2>3 DEF IpcInv, IpcType, Sent
    <3>2. Awaited(serving)' /\ Apart(serving, new)
      BY <1>1, <1>4, <3>1
    <3> QED BY <1>2, <3>1, <3>2
  <2>4. serving' = serving /\ greenlet' = greenlet
    BY <1>1
  <2> QED BY <1>2, <2>1, <2>2, <2>3, <2>4 DEF Sent, Apart
<1>8. Ipc!OwnAnswer'
  BY <1>1 DEF IpcInv, IpcType, Ipc!OwnAnswer
<1> QED BY <1>1, <1>3, <1>7, <1>8 DEF IpcInv, Ready

LEMMA ReceiveStep ==
  ASSUME IpcInv, Ipc!Receive
  PROVE  IpcInv'
<1> DEFINE N == Len(pending)
<1>1. /\ greenlet = "poll" /\ replies /\ N \in Nat \ {0}
      /\ serving' = Head(pending) /\ pending' = Tail(pending)
      /\ greenlet' = "call" /\ UNCHANGED <<stop, proxy, calls, broken>>
  BY DEF Ipc!Receive, IpcInv, IpcType, Ready
<1>2. /\ DOMAIN pending = 1..N /\ DOMAIN pending' = 1..N - 1
      /\ \A i \in 1..N : pending[i] \in IpcRequests
      /\ \A i \in 1..N - 1 : pending'[i] = pending[i + 1]
      /\ serving' = pending[1] /\ pending' \in Seq(IpcRequests)
  BY <1>1 DEF IpcInv, IpcType
<1> HIDE DEF N
<1>3. IpcType'
  BY <1>1, <1>2 DEF IpcInv, IpcType
<1>4. \A r : Awaited(r) => Awaited(r)'
  BY <1>1 DEF Awaited, Current
<1>5. Sent'
  <2>1. \A i \in 1..N : Awaited(pending[i])
    BY <1>2 DEF IpcInv, Sent
  <2>2. \A i, j \in 1..N : i # j => Apart(pending[i], pending[j])
    BY <1>2 DEF IpcInv, Sent
  <2>3. ASSUME NEW i \in 1..N - 1 PROVE Awaited(pending[i])'
    <3>1. i + 1 \in 1..N /\ pending'[i] = pending[i + 1]
      BY <1>1, <1>2
    <3> QED BY <1>1, <2>1, <3>1 DEF Awaited, Current
  <2>4. Awaited(serving)'
    <3>1. 1 \in 1..N
      BY <1>1
    <3> QED BY <1>1, <1>2, <2>1, <3>1 DEF Awaited, Current
  <2>5. ASSUME NEW i \in 1..N - 1, NEW j \in 1..N - 1, i # j
        PROVE  Apart(pending'[i], pending'[j])
    BY <1>1, <1>2, <2>2, <2>5
  <2>6. \A i \in 1..N - 1 : Apart(serving', pending'[i])
    BY <1>1, <1>2, <2>2
  <2> QED BY <1>2, <2>3, <2>4, <2>5, <2>6 DEF Sent, Apart
<1>6. stop' = FALSE /\ Ready'
  BY <1>1 DEF IpcInv, Ready
<1> QED BY <1>1, <1>3, <1>5, <1>6 DEF IpcInv, Ipc!OwnAnswer

LEMMA ServeStep ==
  ASSUME IpcInv, Ipc!Serve
  PROVE  IpcInv'
<1> DEFINE p == serving.proxy
<1>1. /\ greenlet = "call" /\ serving \in IpcRequests /\ p \in Proxies /\ Awaited(serving)
      /\ ~stop /\ UNCHANGED <<stop, pending, serving, calls>> /\ greenlet' \in {"poll", "dead"}
      /\ greenlet' = "poll" => replies'
      /\ greenlet' = "dead" => broken'
  BY DEF Ipc!Serve, Ipc!IsAnswered, IpcInv, IpcType, Sent, Ready, IpcRequests
<1>2. \/ proxy' = proxy
      \/ /\ Current(serving)
         /\ proxy' = [proxy EXCEPT ![p].answer = serving.call]
  BY DEF Ipc!Serve, Current
<1>3. IpcType'
  <2>1. serving.call \in Nat
    BY <1>1 DEF IpcRequests
  <2>2. proxy' \in [Proxies -> [at : {"idle", "wait"}, socket : Nat, call : Nat,
                                answer : Nat \cup {None}]]
    BY <1>1, <1>2, <2>1 DEF IpcInv, IpcType
  <2> QED BY <1>1, <2>2 DEF IpcInv, IpcType
<1>4. ASSUME NEW i \in DOMAIN pending PROVE Awaited(pending[i])'
  <2>1. /\ pending[i] \in IpcRequests /\ pending[i].proxy \in Proxies /\ pending'[i] = pending[i]
        /\ Awaited(pending[i]) /\ Apart(serving, pending[i])
    <3>1. pending[i] \in IpcRequests
      BY DEF IpcInv, IpcType
    <3> QED BY <1>1, <3>1 DEF IpcInv, Sent, IpcRequests
  <2>2. CASE proxy' = proxy
    BY <2>1, <2>2 DEF Awaited, Current
  <2>3. CASE Current(serving) /\ proxy' = [proxy EXCEPT ![p].answer = serving.call]
    <3>1. CASE pending[i].proxy = p
      BY <1>1, <2>1, <2>3, <3>1 DEF Awaited, Current, Apart, IpcInv, IpcType
    <3>2. CASE pending[i].proxy # p
      BY <1>1, <2>1, <2>3, <3>2 DEF Awaited, Current, IpcInv, IpcType
    <3> QED BY <3>1, <3>2
  <2> QED BY <1>2, <2>2, <2>3
<1>5. Sent'
  BY <1>1, <1>4 DEF IpcInv, Sent, Apart
<1>6. Ipc!OwnAnswer'
  BY <1>1, <1>2 DEF IpcInv, IpcType, Ipc!OwnAnswer, Awaited
<1>7. Ready'
  BY <1>1 DEF Ready
<1> QED BY <1>3, <1>5, <1>6, <1>7 DEF IpcInv

LEMMA IpcStep == IpcInv /\ [Ipc!Next]_ipc => IpcInv'
<1> SUFFICES ASSUME IpcInv, [Ipc!Next]_ipc PROVE IpcInv'
  OBVIOUS
<1>1. CASE Ipc!Start \/ Ipc!Stop \/ UNCHANGED ipc
  <2>1. UNCHANGED <<replies, pending, serving, proxy, calls, broken>>
    BY <1>1 DEF Ipc!Start, Ipc!Stop, ipc
  <2>2. greenlet' = "call" => greenlet = "call"
    BY <1>1 DEF Ipc!Start, Ipc!Stop, ipc
  <2>3. IpcType' /\ Sent'
    BY <2>1, <2>2 DEF IpcInv, IpcType, Sent, Awaited, Current, Apart
  <2>4. Ready'
    BY <1>1 DEF Ipc!Start, Ipc!Stop, ipc, IpcInv, Ready
  <2> QED BY <2>1, <2>3, <2>4 DEF IpcInv, Ipc!OwnAnswer
<1>2. ASSUME NEW p \in Proxies, Ipc!Return(p) PROVE IpcInv'
  <2> DEFINE new == [proxy[p] EXCEPT !.at = "idle"]
  <2>1. proxy' = [proxy EXCEPT ![p] = new] /\ proxy[p].answer # None
    BY <1>2 DEF Ipc!Return
  <2>2. /\ new \in [at : {"idle", "wait"}, socket : Nat, call : Nat, answer : Nat \cup {None}]
        /\ new.socket = proxy[p].socket /\ new.answer \in {None, new.call}
    BY DEF IpcInv, IpcType, Ipc!OwnAnswer
  <2> HIDE DEF new
  <2> QED BY <1>2, <2>1, <2>2, ProxyStep DEF Ipc!Return
<1>3. ASSUME NEW p \in Proxies, Ipc!TimeOut(p) PROVE IpcInv'
  <2> DEFINE new == Ipc!Open(proxy[p].socket + 1)
  <2>1. proxy' = [proxy EXCEPT ![p] = new]
    BY <1>3 DEF Ipc!TimeOut, Ipc!NewSocket
  <2>2. /\ new \in [at : {"idle", "wait"}, socket : Nat, call : Nat, answer : Nat \cup {None}]
        /\ new.socket > proxy[p].socket /\ new.answer \in {None, new.call}
    BY DEF IpcInv, IpcType, Ipc!Open
  <2> HIDE DEF new
  <2> QED BY <1>3, <2>1, <2>2, ProxyStep DEF Ipc!TimeOut
<1> QED BY <1>1, <1>2, <1>3, InvokeStep, ReceiveStep, ServeStep DEF Ipc!Next

(* A call returns the answer to its own request and never that to one that *)
(* was given up before, and only a request that breaks the host ends its   *)
(* greenlet (ipc.py): the safety half of HostServes.                       *)
THEOREM AnswersOwn == PartsSpec => [](Ipc!OwnAnswer /\ (greenlet = "dead" => broken))
<1>1. PartsInit => IpcInv
  BY IpcInit DEF PartsInit
<1>2. IpcInv /\ [PartsNext]_partsVars => IpcInv'
  BY IpcStep, PartSteps
<1>3. IpcInv => Ipc!OwnAnswer /\ (greenlet = "dead" => broken)
  BY DEF IpcInv, Ready
<1> QED BY <1>1, <1>2, <1>3, PTL DEF PartsSpec
-------------------------------------------------------------------------------
(* Startup.  What each way to find interfaces gives.                       *)
BootInv ==
  /\ config \in {None, All} \cup UNION {[1..n -> Links] : n \in 1..2}
  /\ link \in [Links -> {"absent", "bare", "up"}]
  /\ gateway \in Links \cup {None}

LEMMA AnyIsUp ==
  ASSUME NEW found \in Boot!AllInterfaces
  PROVE  found = << >> \/ found[1] \in Boot!Up
BY DEF Boot!AllInterfaces

LEMMA GatewayIsUp ==
  ASSUME BootInv
  PROVE  \/ Boot!FromGateway = {<<gateway>>} /\ gateway \in Boot!Up
         \/ Boot!FromGateway \in {{<< >>}, Boot!Raises} /\ gateway \notin Boot!Up
<1>1. CASE gateway = None
  BY <1>1, PartsAssumption DEF Boot!FromGateway, Boot!Up
<1>2. CASE gateway \in Links
  <2>1. gateway # None /\ link[gateway] \in {"absent", "bare", "up"}
    BY <1>2, PartsAssumption DEF BootInv
  <2>2. CASE link[gateway] = "absent"
    BY <2>1, <2>2 DEF Boot!FromGateway, Boot!Up
  <2>3. CASE link[gateway] = "bare"
    BY <2>1, <2>3 DEF Boot!FromGateway, Boot!Up
  <2>4. CASE link[gateway] = "up"
    BY <1>2, <2>1, <2>4 DEF Boot!FromGateway, Boot!Up
  <2> QED BY <2>1, <2>2, <2>3, <2>4
<1> QED BY <1>1, <1>2 DEF BootInv

LEMMA ListedAreUp ==
  ASSUME BootInv, config \notin {None, All}
  PROVE  \/ Boot!Listed = Boot!Raises
         \/ Boot!Listed = {<< >>} /\ link[config[1]] = "bare"
         \/ \E found : /\ Boot!Listed = {found} /\ found # << >>
                       /\ found[1] = config[1] /\ config[1] \in Boot!Up
<1>1. PICK n \in 1..2 : config \in [1..n -> Links]
  BY DEF BootInv
<1>2. config \in Seq(Links) /\ Len(config) = n /\ config[1] \in Links
  BY <1>1
<1>3. \A i \in 1..n : link[config[i]] \in {"absent", "bare", "up"}
  BY <1>1 DEF BootInv
<1> DEFINE bad == {i \in DOMAIN config : link[config[i]] # "up"}
           first == CHOOSE i \in bad : \A j \in bad : i <= j
<1>4. CASE bad = {}
  <2>1. Boot!Listed = {config}
    BY <1>4 DEF Boot!Listed
  <2>2. link[config[1]] = "up"
    BY <1>1, <1>4
  <2> QED BY <1>1, <1>2, <2>1, <2>2 DEF Boot!Up
<1>5. CASE bad # {}
  <2>1. \E i \in bad : \A j \in bad : i <= j
    <3>1. bad \subseteq {1, 2}
      BY <1>1
    <3>2. CASE 1 \in bad
      BY <3>1, <3>2
    <3>3. CASE 1 \notin bad
      <4>1. bad = {2}
        BY <1>5, <3>1, <3>3
      <4> QED BY <4>1
    <3> QED BY <3>2, <3>3
  <2>2. first \in bad /\ \A j \in bad : first <= j
    BY <2>1
  <2>3. CASE link[config[first]] = "absent"
    BY <1>5, <2>3 DEF Boot!Listed
  <2>4. CASE link[config[first]] # "absent"
    <3>1. Boot!Listed = {SubSeq(config, 1, first - 1)}
      BY <1>5, <2>4 DEF Boot!Listed
    <3>2. first \in 1..n
      BY <1>1, <2>2
    <3> HIDE DEF first, bad
    <3>3. CASE first = 1
      <4>1. link[config[1]] = "bare"
        BY <1>3, <2>2, <2>4, <3>2, <3>3 DEF bad
      <4>2. SubSeq(config, 1, 0) = << >> /\ first - 1 = 0
        BY <1>2, <3>3
      <4> QED BY <3>1, <4>1, <4>2
    <3>4. CASE first = 2
      <4>1. link[config[1]] = "up"
        BY <1>1, <2>2, <3>2, <3>4 DEF bad
      <4>2. SubSeq(config, 1, 1) # << >> /\ SubSeq(config, 1, 1)[1] = config[1] /\ first - 1 = 1
        BY <1>2, <3>2, <3>4
      <4>3. Boot!Listed = {SubSeq(config, 1, 1)}
        BY <3>1, <4>2
      <4> QED BY <1>2, <4>1, <4>2, <4>3 DEF Boot!Up
    <3> QED BY <3>2, <3>3, <3>4
  <2> QED BY <2>3, <2>4
<1> QED BY <1>4, <1>5

(* The address for which webapi.py waits is that of an interface that is   *)
(* up: the first configured unless that has none, and the default gateway  *)
(* where none is configured (interfaceController.py): the safety half of   *)
(* Boots.                                                                  *)
THEOREM AddressChosen == PartsSpec => [][Boot!Chosen]_boot
<1>1. PartsInit => BootInv
  BY DEF PartsInit, NoInterface, Boot!Init, BootInv
<1>2. BootInv /\ [Boot!Next]_boot => BootInv'
  <2> SUFFICES ASSUME BootInv, [Boot!Next]_boot PROVE BootInv'
    OBVIOUS
  <2>1. CASE Boot!Wait \/ UNCHANGED boot
    BY <2>1 DEF Boot!Wait, boot, BootInv
  <2>2. ASSUME NEW l \in Links, Boot!Change(l) PROVE BootInv'
    <3>1. CASE gateway' = IF gateway = l THEN None ELSE l
      BY <2>2, <3>1 DEF Boot!Change, BootInv
    <3>2. CASE UNCHANGED gateway
      BY <2>2, <3>2 DEF Boot!Change, BootInv
    <3> QED BY <2>2, <3>1, <3>2 DEF Boot!Change
  <2> QED BY <2>1, <2>2 DEF Boot!Next
<1>3. BootInv /\ [Boot!Next]_boot => [Boot!Chosen]_boot
  <2> SUFFICES ASSUME BootInv, Boot!Next, HOST' # HOST
               PROVE  /\ link[HOST'] = "up"
                      /\ config \in {None, All} \/ HOST' = config[1] \/ link[config[1]] = "bare"
                      /\ config = None /\ gateway \in Boot!Up => HOST' = gateway
    BY DEF Boot!Chosen
  <2>1. Boot!Interfaces # Boot!Raises
    BY DEF Boot!Next, Boot!Wait, Boot!Change
  <2>2. PICK found \in Boot!Interfaces : found # << >> /\ HOST' = found[1]
    BY DEF Boot!Next, Boot!Wait, Boot!Change
  <2> DEFINE others == Boot!OrElse(Boot!FromGateway, Boot!AllInterfaces)
  <2>3. ASSUME others # Boot!Raises, found \in others
        PROVE  HOST' \in Boot!Up /\ (gateway \in Boot!Up => HOST' = gateway)
    BY <2>2, <2>3, AnyIsUp, GatewayIsUp DEF Boot!OrElse, Boot!Raises
  <2>4. Boot!Interfaces = IF Boot!FromFile = {<< >>} THEN others ELSE Boot!FromFile
    BY DEF Boot!Interfaces, Boot!OrElse
  <2> HIDE DEF others
  <2>5. CASE config = None
    <3>1. found \in others /\ others # Boot!Raises
      BY <2>1, <2>2, <2>4, <2>5, PartsAssumption DEF Boot!FromFile
    <3> QED BY <2>3, <2>5, <3>1 DEF Boot!Up
  <2>6. CASE config = All
    <3>1. config # None
      BY <2>6, PartsAssumption
    <3>2. Boot!FromFile = Boot!AllInterfaces
      BY <2>6, <3>1 DEF Boot!FromFile
    <3> QED BY <2>1, <2>2, <2>3, <2>4, <2>6, <3>1, <3>2, AnyIsUp DEF Boot!Up
  <2>7. CASE config \notin {None, All}
    <3>1. Boot!FromFile = Boot!Listed
      BY <2>7 DEF Boot!FromFile
    <3>2. CASE Boot!Listed = Boot!Raises
      BY <2>1, <2>4, <3>1, <3>2 DEF Boot!Raises
    <3>3. CASE Boot!Listed = {<< >>} /\ link[config[1]] = "bare"
      BY <2>1, <2>2, <2>3, <2>4, <2>7, <3>1, <3>3 DEF Boot!Up
    <3>4. ASSUME NEW only, Boot!Listed = {only}, only # << >>, only[1] = config[1],
                 config[1] \in Boot!Up
          PROVE  HOST' = config[1]
      BY <2>2, <2>4, <3>1, <3>4
    <3> QED BY <2>7, <3>2, <3>3, <3>4, ListedAreUp DEF Boot!Up
  <2> QED BY <2>5, <2>6, <2>7
<1>4. BootInv /\ [PartsNext]_partsVars => BootInv'
  BY <1>2, PartSteps
<1>5. BootInv /\ [PartsNext]_partsVars => [Boot!Chosen]_boot
  BY <1>3, PartSteps
<1> QED BY <1>1, <1>4, <1>5, PTL DEF PartsSpec
-------------------------------------------------------------------------------
(* ApiVersions.  The versions are in a linear order, that of the code's    *)
(* comparison.                                                             *)
Known == Version!Known

Named == Version!Named

LEMMA Compared ==
  ASSUME NEW v \in Named, NEW w \in Named
  PROVE  /\ Version!api_ver_compare(v, w) < 0 <=> Version!Older(v, w)
         /\ Version!api_ver_compare(v, w) > 0 <=> Version!Older(w, v)
         /\ Version!api_ver_compare(v, w) \in Int
<1>1. ASSUME NEW m \in 0..9, NEW n \in 0..9 PROVE Version!AsStrings(m, n) <=> m < n
  BY DEF Version!AsStrings, Version!Digits
<1>2. /\ v[1] \in 0..9 /\ v[2] \in 0..9 /\ w[1] \in 0..9 /\ w[2] \in 0..9
  BY VersionsAssumption DEF Named, Version!Named, Version!Known, Version!V1_0
<1>3. /\ Version!AsStrings(v[1], w[1]) <=> v[1] < w[1]
      /\ Version!AsStrings(w[1], v[1]) <=> w[1] < v[1]
      /\ Version!AsStrings(v[2], w[2]) <=> v[2] < w[2]
      /\ Version!AsStrings(w[2], v[2]) <=> w[2] < v[2]
  BY <1>1, <1>2
<1> QED BY <1>2, <1>3 DEF Version!api_ver_compare, Version!Older

LEMMA OlderOrder ==
  ASSUME NEW u \in Named, NEW v \in Named, NEW w \in Named
  PROVE  /\ ~Version!Older(v, v)
         /\ v = w \/ Version!Older(v, w) \/ Version!Older(w, v)
         /\ Version!Older(u, v) /\ Version!Older(v, w) => Version!Older(u, w)
         /\ v \in Known => v = Version!V1_0 \/ Version!Older(Version!V1_0, v)
<1>1. /\ u \in (0..9) \X (0..9) /\ v \in (0..9) \X (0..9) /\ w \in (0..9) \X (0..9)
      /\ v \in Known => v = <<1, 0>> \/ (v # <<1, 0>> /\ v[1] \in 1..9)
  BY VersionsAssumption DEF Named, Version!Named, Known, Version!Known, Version!V1_0
<1> QED BY <1>1 DEF Version!Older, Version!V1_0

LEMMA KnownNamed == Known \subseteq Named /\ Versions \subseteq Known /\ Version!V1_0 \in Known
BY DEF Known, Named, Version!Named, Version!Known

(* Each has a place in version_list, which is in this order.               *)
Rank(v) == Cardinality(Version!Before(v)) + 1
Count == Cardinality(Known)

LEMMA KnownFinite == IsFiniteSet(Known) /\ Count \in Nat \ {0}
<1>1. IsFiniteSet(Known)
  BY PartsAssumption, FS_EmptySet, FS_AddElement, FS_Union DEF Known, Version!Known
<1> QED BY <1>1, FS_CardinalityType, FS_EmptySet DEF Count, Known, Version!Known

LEMMA RankBound ==
  ASSUME NEW v \in Known
  PROVE  Rank(v) \in 1..Count /\ IsFiniteSet(Version!Before(v))
<1>1. Version!Before(v) \subseteq Known \ {v}
  BY Compared, OlderOrder, KnownNamed DEF Version!Before, Known
<1>2. IsFiniteSet(Known \ {v}) /\ Cardinality(Known \ {v}) = Count - 1
  BY KnownFinite, FS_RemoveElement DEF Count
<1>3. /\ IsFiniteSet(Version!Before(v))
      /\ Cardinality(Version!Before(v)) <= Count - 1
  BY <1>1, <1>2, FS_Subset
<1> QED BY <1>3, KnownFinite, FS_CardinalityType DEF Rank

LEMMA RankGrows ==
  ASSUME NEW v \in Known, NEW w \in Known, Version!Older(v, w)
  PROVE  Rank(v) < Rank(w)
<1> DEFINE more == Version!Before(v) \cup {v}
<1>1. more \subseteq Version!Before(w) /\ v \notin Version!Before(v)
  <2>1. ASSUME NEW u \in Version!Before(v) PROVE u \in Version!Before(w)
    BY <2>1, Compared, OlderOrder, KnownNamed DEF Version!Before, Known
  <2> QED BY <2>1, Compared, OlderOrder, KnownNamed DEF Version!Before, Known
<1>2. Cardinality(more) = Rank(v)
  BY <1>1, RankBound, FS_AddElement DEF Rank
<1>3. Cardinality(more) <= Cardinality(Version!Before(w))
  BY <1>1, RankBound, FS_Subset
<1>4. Cardinality(Version!Before(v)) \in Nat /\ Cardinality(Version!Before(w)) \in Nat
  BY RankBound, FS_CardinalityType
<1> QED BY <1>2, <1>3, <1>4 DEF Rank

LEMMA RankOrder ==
  ASSUME NEW v \in Known, NEW w \in Known
  PROVE  /\ Rank(v) = Rank(w) <=> v = w
         /\ Rank(v) < Rank(w) <=> Version!Older(v, w)
<1>1. Rank(v) \in Int /\ Rank(w) \in Int
  BY RankBound
<1> QED BY <1>1, RankGrows, OlderOrder, KnownNamed

(* No place is left free: there are as many as versions.                   *)
LEMMA RankOnto ==
  ASSUME NEW i \in 1..Count
  PROVE  \E v \in Known : Rank(v) = i
<1> DEFINE rank == [v \in Known |-> Rank(v)]
<1>1. rank \in [Known -> 1..Count]
  BY RankBound
<1>2. rank \in Injection(Known, 1..Count)
  BY <1>1, RankOrder DEF Injection, IsInjective
<1>3. IsFiniteSet(1..Count) /\ Cardinality(1..Count) = Count
  BY KnownFinite, FS_Interval
<1>4. rank \in Surjection(Known, 1..Count)
  BY <1>2, <1>3, FS_Injection DEF Count
<1> QED BY <1>4 DEF Surjection

LEMMA SameCardinality == \A S : Version!Cardinality(S) = Cardinality(S)
BY DEF Version!Cardinality, Cardinality

LEMMA Listing ==
  /\ DOMAIN Version!version_list = 1..Count /\ Len(Version!version_list) = Count
  /\ \A i \in 1..Count : Version!version_list[i] \in Known /\ Rank(Version!version_list[i]) = i
<1>1. Version!version_list =
        [i \in 1..Count |-> CHOOSE v \in Known : Cardinality(Version!Before(v)) = i - 1]
  BY SameCardinality DEF Version!version_list, Count, Known
<1>2. ASSUME NEW i \in 1..Count
      PROVE  Version!version_list[i] \in Known /\ Rank(Version!version_list[i]) = i
  <2>1. \E v \in Known : Cardinality(Version!Before(v)) = i - 1
    <3>1. PICK v \in Known : Rank(v) = i
      BY RankOnto
    <3>2. Cardinality(Version!Before(v)) \in Nat
      BY RankBound, FS_CardinalityType
    <3> QED BY <3>1, <3>2 DEF Rank
  <2> DEFINE u == CHOOSE v \in Known : Cardinality(Version!Before(v)) = i - 1
  <2>2. u \in Known /\ Cardinality(Version!Before(u)) = i - 1
    BY <2>1
  <2>3. Version!version_list[i] = u
    BY <1>1
  <2> HIDE DEF u
  <2> QED BY <2>2, <2>3 DEF Rank
<1>3. Len(Version!version_list) = Count
  BY <1>1, KnownFinite
<1> QED BY <1>1, <1>2, <1>3

LEMMA PlaceOf ==
  ASSUME NEW v \in Known
  PROVE  /\ Rank(v) \in 1..Count /\ Version!version_list[Rank(v)] = v
         /\ \A i \in 1..Count : Version!version_list[i] = v <=> i = Rank(v)
BY RankBound, RankOrder, Listing

LEMMA Newest ==
  /\ Version!max_ver \in Known
  /\ \A v \in Known : ~Version!Older(Version!max_ver, v)
<1>1. Version!max_ver \in Known /\ Rank(Version!max_ver) = Count
  BY Listing, KnownFinite DEF Version!max_ver
<1> QED BY <1>1, RankBound, RankOrder, KnownFinite

(* From the place of the resource's version the translation goes down to   *)
(* that of the target, where it is above it.                               *)
LEMMA LeastElement ==
  ASSUME NEW S, S \subseteq Nat, S # {}
  PROVE  \E x \in S : \A y \in S : x <= y
<1>1. PICK x \in S : \A y \in S : ~ (<<y, x>> \in OpToRel(<, Nat))
  <2>1. IsWellFoundedOn(OpToRel(<, Nat), Nat)
    BY NatLessThanWellFounded
  <2> QED BY <2>1, WFMin
<1>2. ASSUME NEW y \in S PROVE x <= y
  <2>1. ~(<<y, x>> \in {ss \in Nat \X Nat : ss[1] < ss[2]})
    BY <1>1 DEF OpToRel
  <2> QED BY <2>1
<1> QED BY <1>2

(* v1.0 is the first. *)
LEMMA Oldest == Rank(Version!V1_0) = 1
<1>1. ASSUME NEW v \in Known PROVE ~Version!Older(v, Version!V1_0)
  BY KnownNamed, OlderOrder
<1>2. Version!Before(Version!V1_0) = {}
  BY <1>1, Compared, KnownNamed DEF Version!Before, Known
<1> QED BY <1>2, FS_EmptySet DEF Rank

LEMMA ReachedIs ==
  ASSUME target_ver \in Named, NEW i \in 1..Count, NEW floor \in Known,
         \A v \in Versions : Version!Older(target_ver, v) <=> Version!Older(floor, v)
  PROVE  Version!Reached[i] = IF i <= Rank(floor) THEN i ELSE Rank(floor)
<1> DEFINE t == Rank(floor)
           Down(f) == [k \in 0..Count |->
                         IF k > 1 /\ Version!IsNewer(Version!version_list[k]) THEN f[k - 1] ELSE k]
           g == [k \in 0..Count |-> IF k <= t THEN k ELSE t]
<1>1. Count \in Nat \ {0} /\ t \in 1..Count
  BY PlaceOf, KnownFinite
<1>2. ASSUME NEW k \in 2..Count
      PROVE  Version!IsNewer(Version!version_list[k]) <=> k > t
  <2>1. Version!version_list[k] \in Versions /\ Rank(Version!version_list[k]) = k
    <3>1. k \in 1..Count
      BY <1>1
    <3> QED BY <3>1, Listing, Oldest DEF Known, Version!Known
  <2> QED BY <2>1, Compared, RankOrder, KnownNamed DEF Version!IsNewer
<1> HIDE DEF t
<1>3. g = Down(g)
  <2>1. ASSUME NEW k \in 0..Count PROVE g[k] = Down(g)[k]
    <3>1. CASE k = 0
      BY <1>1, <3>1
    <3>2. CASE k \in 1..Count
      <4>1. k - 1 \in 0..Count /\ k \in 0..Count
        BY <1>1, <3>2
      <4>2. k > 1 => k \in 2..Count
        BY <1>1, <3>2
      <4>3. Down(g)[k] = IF k > 1 /\ k > t THEN g[k - 1] ELSE k
        BY <1>2, <4>1, <4>2
      <4> QED BY <1>1, <3>2, <4>1, <4>3
    <3> QED BY <1>1, <3>1, <3>2
  <2> HIDE DEF Version!IsNewer
  <2> QED BY <2>1
<1>4. ASSUME NEW f, f = Down(f) PROVE f = g
  <2>1. f = [k \in 0..Count |-> f[k]]
    BY <1>4
  <2>2. ASSUME NEW k \in 1..Count PROVE f[k] = IF k > t /\ k > 1 THEN f[k - 1] ELSE k
    <3>1. f[k] = Down(f)[k] /\ k \in 0..Count
      BY <1>1, <1>4
    <3> QED BY <1>2, <3>1
  <2>3. f[0] = 0
    BY <1>1, <1>4
  <2> DEFINE Bad == {k \in 0..Count : f[k] # g[k]}
  <2>4. Bad = {}
    <3> SUFFICES ASSUME Bad # {} PROVE FALSE
      OBVIOUS
    <3>1. PICK k \in Bad : \A j \in Bad : k <= j
      <4>1. Bad \subseteq Nat
        BY <1>1
      <4> HIDE DEF Bad
      <4> QED BY <4>1, LeastElement
    <3>2. k \in 1..Count
      BY <1>1, <2>3
    <3>3. k - 1 \in 0..Count /\ k - 1 \notin Bad
      BY <1>1, <3>1, <3>2
    <3>4. f[k - 1] = g[k - 1]
      BY <3>3
    <3>5. f[k] = g[k]
      BY <1>1, <2>2, <3>2, <3>3, <3>4
    <3> QED BY <3>5
  <2> QED BY <2>1, <2>4
<1>5. Version!Reached = CHOOSE f : f = Down(f)
  BY Listing DEF Version!Reached
<1>6. Version!Reached = g
  <2> HIDE DEF g, Down
  <2> QED BY <1>3, <1>4, <1>5
<1> QED BY <1>1, <1>6 DEF t

(* The newest version listed that is not newer than v.                     *)
LEMMA FloorIs ==
  ASSUME NEW v \in Named, ~Version!Older(v, Version!V1_0)
  PROVE  /\ Version!Floor(v) \in Known /\ ~Version!Older(v, Version!Floor(v))
         /\ \A u \in Known : Version!Older(v, u) <=> Version!Older(Version!Floor(v), u)
<1> DEFINE IsFloor(w) == /\ ~Version!Older(v, w)
                         /\ \A u \in Known : ~Version!Older(v, u) => ~Version!Older(w, u)
           S == {n \in Nat : \E w \in Known : n = Count - Rank(w) /\ ~Version!Older(v, w)}
<1>1. \E w \in Known : IsFloor(w)
  <2>1. S \subseteq Nat /\ S # {}
    <3>1. Count - Rank(Version!V1_0) \in Nat
      BY Oldest, KnownFinite
    <3> QED BY <3>1, KnownNamed
  <2>2. PICK n \in S : \A m \in S : n <= m
    <3> HIDE DEF S
    <3> QED BY <2>1, LeastElement
  <2>3. PICK w \in Known : n = Count - Rank(w) /\ ~Version!Older(v, w)
    BY <2>2
  <2>4. ASSUME NEW u \in Known, ~Version!Older(v, u) PROVE ~Version!Older(w, u)
    <3>1. Rank(u) \in 1..Count /\ Rank(w) \in 1..Count /\ Count \in Nat
      BY RankBound, KnownFinite
    <3>2. Count - Rank(u) \in S
      BY <2>4, <3>1
    <3>3. Count - Rank(w) <= Count - Rank(u)
      BY <2>2, <2>3, <3>2
    <3> QED BY <3>1, <3>3, RankOrder
  <2> QED BY <2>3, <2>4
<1> DEFINE f == Version!Floor(v)
<1>2. f = CHOOSE w \in Known : IsFloor(w)
  BY DEF Version!Floor, Known
<1>3. f \in Known /\ IsFloor(f)
  <2> HIDE DEF f, IsFloor
  <2> QED BY <1>1, <1>2
<1> HIDE DEF f
<1>4. ASSUME NEW u \in Known, Version!Older(v, u) PROVE Version!Older(f, u)
  <2>1. f = v \/ Version!Older(f, v)
    BY <1>3, KnownNamed, OlderOrder
  <2> QED BY <1>3, <1>4, <2>1, KnownNamed, OlderOrder
<1> QED BY <1>3, <1>4 DEF f

(* From a listed version the translation goes down to the floor of the     *)
(* target, or to v1.0 if the target is older than that.                    *)
Bottom == IF Version!Older(target_ver, Version!V1_0) THEN Version!V1_0 ELSE Version!Floor(target_ver)

LEMMA BottomIs ==
  ASSUME target_ver \in Named
  PROVE  /\ Bottom \in Known
         /\ \A v \in Versions : Version!Older(target_ver, v) <=> Version!Older(Bottom, v)
<1>1. CASE Version!Older(target_ver, Version!V1_0)
  <2>1. ASSUME NEW v \in Versions
        PROVE  Version!Older(target_ver, v) /\ Version!Older(Version!V1_0, v)
    <3>1. v \in Known /\ v # Version!V1_0
      BY KnownNamed, VersionsAssumption DEF Version!V1_0
    <3> QED BY <1>1, <3>1, KnownNamed, OlderOrder
  <2> QED BY <1>1, <2>1, KnownNamed DEF Bottom
<1>2. CASE ~Version!Older(target_ver, Version!V1_0)
  BY <1>2, FloorIs, KnownNamed DEF Bottom
<1> QED BY <1>1, <1>2

LEMMA Translated ==
  ASSUME Version!Init
  PROVE  /\ target_ver \in Named /\ downgrade_ver \in Named \cup {None}
         /\ Version!Current \in Named
         /\ obj.version = None => Version!Current = Version!max_ver
         /\ Version!Current \in Known =>
              /\ Version!current_api_version =
                   IF Version!Older(Bottom, Version!Current) THEN Bottom ELSE Version!Current
              /\ Version!Left = {v \in Versions : /\ Version!Older(Bottom, v)
                                                  /\ ~Version!Older(Version!Current, v)}
         /\ Version!Current \notin Known =>
              Version!current_api_version = Version!Current /\ Version!Left = {}
<1> DEFINE C == Version!Current
           R == Version!Reached[Rank(C)]
<1>1. target_ver \in Named /\ downgrade_ver \in Named \cup {None}
  BY DEF Version!Init, Named
<1>2. C \in Named /\ (obj.version = None => C = Version!max_ver)
  BY Newest, KnownNamed DEF Version!Init, Version!Current, Named
<1>3. Bottom \in Known
  BY <1>1, BottomIs
<1>4. C \notin Known => Version!current_api_version = C /\ Version!Left = {}
  BY DEF Version!current_api_version, Version!Left, Known
<1> HIDE DEF C
<1>5. ASSUME C \in Known
      PROVE  /\ Version!current_api_version = IF Version!Older(Bottom, C) THEN Bottom ELSE C
             /\ Version!Left =
                  {v \in Versions : Version!Older(Bottom, v) /\ ~Version!Older(C, v)}
  <2>1. Version!Place = Rank(C) /\ Rank(C) \in 1..Count /\ Rank(Bottom) \in 1..Count
    <3>1. \A i \in DOMAIN Version!version_list :
            Version!version_list[i] = C <=> i = Rank(C)
      BY <1>5, PlaceOf, Listing
    <3>2. Version!Place = CHOOSE i \in DOMAIN Version!version_list : Version!version_list[i] = C
      BY DEF Version!Place, C
    <3> QED BY <1>3, <1>5, <3>1, <3>2, PlaceOf, Listing
  <2>2. R = IF Rank(C) <= Rank(Bottom) THEN Rank(C) ELSE Rank(Bottom)
    BY <1>1, <1>3, <2>1, BottomIs, ReachedIs
  <2>3. Version!current_api_version = IF Version!Older(Bottom, C) THEN Bottom ELSE C
    <3>1. Version!current_api_version = Version!version_list[R]
      BY <1>5, <2>1 DEF Version!current_api_version, C, Known
    <3>2. Version!Older(Bottom, C) <=> Rank(Bottom) < Rank(C)
      BY <1>3, <1>5, RankOrder
    <3> QED BY <1>3, <1>5, <2>1, <2>2, <3>1, <3>2, PlaceOf
  <2>4. Version!Left = {Version!version_list[i] : i \in R + 1..Rank(C)}
    BY <1>5, <2>1 DEF Version!Left, C, Known
  <2>5. R \in 1..Count
    BY <2>1, <2>2
  <2> HIDE DEF R
  <2>6. ASSUME NEW i \in R + 1..Rank(C)
        PROVE  /\ Version!version_list[i] \in Versions
               /\ Version!Older(Bottom, Version!version_list[i])
               /\ ~Version!Older(C, Version!version_list[i])
    <3> DEFINE v == Version!version_list[i]
    <3>1. i \in 1..Count /\ i > 1 /\ i <= Rank(C) /\ i > Rank(Bottom)
      BY <2>1, <2>2, <2>5, KnownFinite
    <3>2. v \in Known /\ Rank(v) = i
      BY <3>1, Listing
    <3>3. Version!Older(Bottom, v) /\ ~Version!Older(C, v)
      BY <1>3, <1>5, <2>1, <3>1, <3>2, RankOrder
    <3>4. v \in Versions
      BY <3>1, <3>2, Oldest DEF Known, Version!Known
    <3> QED BY <3>3, <3>4
  <2>7. ASSUME NEW v \in Versions, Version!Older(Bottom, v), ~Version!Older(C, v)
        PROVE  \E i \in R + 1..Rank(C) : Version!version_list[i] = v
    <3>1. v \in Known
      BY KnownNamed
    <3>2. Rank(Bottom) < Rank(v) /\ ~(Rank(C) < Rank(v)) /\ Rank(v) \in 1..Count
      BY <1>3, <1>5, <2>7, <3>1, RankOrder, PlaceOf
    <3>3. Rank(v) \in R + 1..Rank(C)
      BY <2>1, <2>2, <2>5, <3>2
    <3> QED BY <3>1, <3>3, PlaceOf
  <2> QED BY <2>3, <2>4, <2>6, <2>7
<1> QED BY <1>1, <1>2, <1>4, <1>5 DEF C

LEMMA RightAnswer == Version!Init => Version!VersionRight
<1> SUFFICES ASSUME Version!Init PROVE Version!VersionRight
  OBVIOUS
<1> DEFINE C == Version!Current
           target == target_ver
           current == Version!current_api_version
           f == Version!Floor(target)
<1>1. /\ target \in Named /\ C \in Named /\ downgrade_ver \in Named \cup {None}
      /\ obj.version = None => C = Version!max_ver
      /\ C \in Known =>
           /\ current = IF Version!Older(Bottom, C) THEN Bottom ELSE C
           /\ Version!Left = {v \in Versions : Version!Older(Bottom, v) /\ ~Version!Older(C, v)}
      /\ C \notin Known => current = C /\ Version!Left = {}
      /\ Bottom \in Known
  BY Translated, BottomIs
<1>2. Version!api_ver_compare(target, Version!max_ver) > 0 <=>
        \A v \in Known : Version!Older(v, target)
  <2>1. Version!api_ver_compare(target, Version!max_ver) > 0 <=> Version!Older(Version!max_ver, target)
    BY <1>1, Newest, Compared, KnownNamed
  <2>2. ASSUME Version!Older(Version!max_ver, target), NEW v \in Known PROVE Version!Older(v, target)
    <3>1. v = Version!max_ver \/ Version!Older(v, Version!max_ver)
      BY Newest, OlderOrder, KnownNamed
    <3> QED BY <1>1, <2>2, <3>1, Newest, OlderOrder, KnownNamed
  <2> QED BY <2>1, <2>2, Newest
<1>3. PICK t \in Types, v \in Version!Named \cup {None} :
        obj = [type |-> t, version |-> v,
               keys |-> IF v = None THEN Version!Keys ELSE Version!KeysAt(v, t)]
  BY DEF Version!Init
<1>4. obj.type = t /\ obj.version = v /\ (v # None => C = v)
  BY <1>3 DEF Version!Current
<1>5. current \in Named /\ (Version!Raises <=> Version!Older(target, current))
      /\ (Version!IsTaken <=> Version!Takes(current))
  <2>1. current \in Named
    BY <1>1, KnownNamed
  <2> HIDE DEF current
  <2>2. downgrade_ver # None =>
          (Version!api_ver_compare(current, downgrade_ver) >= 0 <=>
             ~Version!Older(current, downgrade_ver))
    BY <1>1, <2>1, Compared
  <2> QED BY <1>1, <2>1, <2>2, Compared
          DEF current, Version!Raises, Version!IsNewer, Version!IsTaken, Version!Takes
<1> HIDE DEF C, current
<1>6. Version!Result =
        [type |-> t, version |-> IF v = None THEN None ELSE current,
         keys |-> obj.keys \ ({Extra} \cup UNION {Removed[w, t] : w \in Version!Left})]
  BY <1>4 DEF Version!Result, current
<1>7. CASE Version!api_ver_compare(target, Version!max_ver) > 0
  <2>1. Version!translate_api_version = None
    BY <1>7 DEF Version!translate_api_version
  <2>2. \A u \in Version!Known : Version!Older(u, target)
    BY <1>2, <1>7 DEF Known
  <2> QED BY <2>1, <2>2 DEF Version!VersionRight
<1>8. CASE ~(Version!api_ver_compare(target, Version!max_ver) > 0)
  <2>1. /\ ~ \A u \in Version!Known : Version!Older(u, target)
        /\ Version!translate_api_version =
             IF Version!Raises THEN Error
             ELSE IF target = current \/ Version!Takes(current) THEN Version!Result ELSE None
    BY <1>2, <1>5, <1>8 DEF Version!translate_api_version, Known, current
  <2>2. C \in Known \/ C \in Unlisted
    BY <1>1 DEF Named, Version!Named, Known
  <2>3. C \in Unlisted => C \notin Known
    BY VersionsAssumption DEF Known, Version!Known, Version!V1_0
  <2>4. CASE Version!Older(target, C) /\ (C \in Unlisted \/ Version!Older(target, Version!V1_0))
    <3>1. Version!Older(target, current)
      <4>1. CASE C \in Unlisted
        BY <1>1, <2>3, <2>4, <4>1
      <4>2. CASE C \in Known
        <5>1. Version!Older(target, Version!V1_0) /\ Bottom = Version!V1_0
          BY <2>3, <2>4, <4>2 DEF Bottom
        <5> QED BY <1>1, <2>4, <4>2, <5>1
      <4> QED BY <2>2, <4>1, <4>2
    <3>2. Version!translate_api_version = Error
      BY <1>5, <2>1, <3>1
    <3> QED BY <2>1, <2>4, <3>2 DEF Version!VersionRight, C
  <2>5. CASE Version!Older(target, C) /\ ~(C \in Unlisted \/ Version!Older(target, Version!V1_0))
    <3>1. /\ C \in Known /\ Bottom = f /\ f \in Known /\ ~Version!Older(target, f)
          /\ \A u \in Known : Version!Older(target, u) <=> Version!Older(f, u)
      BY <1>1, <2>2, <2>5, FloorIs DEF Bottom
    <3>2. current = f
      BY <1>1, <2>5, <3>1
    <3>3. Version!translate_api_version =
            IF f = target \/ Version!Takes(f) THEN Version!Result ELSE None
      BY <1>5, <2>1, <3>1, <3>2
    <3>4. Version!Result = Version!At(f)
      <4> DEFINE gone == UNION {Removed[w, t] : w \in Version!Left}
                 kept == Version!KeysAt(f, t)
      <4>1. ASSUME NEW k \in obj.keys PROVE k \in gone <=> k \notin kept
        <5>1. k \in Version!Keys
          BY <1>3 DEF Version!KeysAt
        <5>2. ASSUME NEW w \in Versions, Version!Older(f, w), k \in Removed[w, t]
              PROVE  w \in Version!Left
          <6>1. w \in Known
            BY KnownNamed
          <6>2. ASSUME Version!Older(C, w) PROVE FALSE
            <7>1. v # None
              BY <1>1, <1>4, <6>1, <6>2, Newest
            <7>2. k \in Version!KeysAt(C, t)
              BY <1>3, <1>4, <7>1
            <7> QED BY <5>2, <6>2, <7>2 DEF Version!KeysAt
          <6> QED BY <1>1, <3>1, <5>2, <6>2
        <5>3. \A w \in Version!Left : w \in Versions /\ Version!Older(f, w)
          BY <1>1, <3>1
        <5> QED BY <5>1, <5>2, <5>3 DEF Version!KeysAt
      <4>2. obj.keys \ ({Extra} \cup gone) = (obj.keys \cap kept) \ {Extra}
        BY <4>1
      <4> HIDE DEF f
      <4>3. Version!Result = [type |-> t, version |-> IF v = None THEN None ELSE f,
                              keys |-> obj.keys \ ({Extra} \cup gone)]
        BY <1>6, <3>2
      <4>4. Version!At(f) = [type |-> t, version |-> IF v = None THEN None ELSE f,
                             keys |-> (obj.keys \cap kept) \ {Extra}]
        BY <1>4 DEF Version!At
      <4> HIDE DEF gone, kept
      <4> QED BY <4>2, <4>3, <4>4
    <3> QED BY <2>1, <2>5, <3>3, <3>4 DEF Version!VersionRight, C
  <2>6. CASE ~Version!Older(target, C)
    <3>1. current = C /\ Version!Left = {}
      <4>1. CASE C \in Known
        <5>1. ~Version!Older(target, Version!V1_0)
          <6>1. C = Version!V1_0 \/ Version!Older(Version!V1_0, C)
            BY <4>1, OlderOrder, KnownNamed
          <6> QED BY <1>1, <2>6, <6>1, OlderOrder, KnownNamed
        <5>2. \A u \in Known : Version!Older(target, u) <=> Version!Older(Bottom, u)
          BY <1>1, <5>1, FloorIs DEF Bottom
        <5>3. ASSUME NEW w \in Versions, Version!Older(Bottom, w) PROVE Version!Older(C, w)
          <6>1. Version!Older(target, w) /\ w \in Named
            BY <5>2, <5>3, KnownNamed
          <6>2. C = target \/ Version!Older(C, target)
            BY <1>1, <2>6, OlderOrder
          <6> QED BY <1>1, <6>1, <6>2, OlderOrder
        <5> QED BY <1>1, <2>6, <4>1, <5>2, <5>3
      <4>2. CASE C \notin Known
        BY <1>1, <4>2
      <4> QED BY <4>1, <4>2
    <3>2. Version!translate_api_version =
            IF C = target \/ Version!Takes(C) THEN Version!Result ELSE None
      BY <1>5, <2>1, <2>6, <3>1
    <3>3. Version!Result = [obj EXCEPT !.keys = @ \ {Extra}]
      <4>1. UNION {Removed[w, t] : w \in Version!Left} = {}
        BY <3>1
      <4>2. Version!Result = [type |-> t, version |-> v, keys |-> obj.keys \ {Extra}]
        BY <1>4, <1>6, <3>1, <4>1
      <4> QED BY <1>3, <4>2
    <3> QED BY <2>1, <2>6, <3>2, <3>3 DEF Version!VersionRight, C
  <2> QED BY <2>4, <2>5, <2>6
<1> QED BY <1>7, <1>8

(* Whatever the versions, resources and requests, a client is given its    *)
(* version of a resource exactly, an older one that it takes, or none; and *)
(* a resource raises that would have to leave a version that is not listed *)
(* (utils.py 80-127).                                                      *)
THEOREM ExactVersion == PartsSpec => []VersionRight
<1> DEFINE VersionInv == part = "versions" => Version!Init
<1>1. PartsInit => VersionInv
  BY DEF PartsInit
<1>2. VersionInv /\ [PartsNext]_partsVars => VersionInv'
  BY PartSteps DEF versions, Version!Init
<1>3. VersionInv => VersionRight
  BY RightAnswer DEF VersionRight
<1> HIDE DEF VersionInv
<1> QED BY <1>1, <1>2, <1>3, PTL DEF PartsSpec
===============================================================================
