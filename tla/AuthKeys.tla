------------------------------- MODULE AuthKeys -------------------------------
(***************************************************************************)
(* The key against which access tokens are checked: AuthMiddleware of      *)
(* nmoscommon/auth/auth_middleware.py and RequiresAuth of nmos_auth.py,    *)
(* the deprecated decorator that does the same.                            *)
(*                                                                         *)
(* The public key of the authorisation server is kept in the class, shared *)
(* by all its instances, and fetched again by the first request that finds *)
(* it an hour old: from the address that the mDNS bridge knows, by way of  *)
(* the server's metadata.  Requests run concurrently, so that several may  *)
(* fetch it at once, and one may store what another has replaced.          *)
(*                                                                         *)
(* Time passes in ticks.  The requests of a fetch have timeouts, so that   *)
(* a fetch ends within MaxFetch ticks.                                     *)
(***************************************************************************)
EXTENDS Integers

CONSTANTS
  Requests,     \* the threads that serve requests
  Keys,         \* the keys of the server
  NoKey,        \* no key, or no usable credentials
  Interval,     \* REFRESH_KEY_INTERVAL, in ticks
  MaxFetch      \* the ticks a fetch takes at most

ASSUME AuthAssumption ==
  NoKey \notin Keys /\ Interval \in Nat /\ MaxFetch \in Nat

VARIABLES
  class,        \* "AuthMiddleware" or "RequiresAuth"
  public_key,   \* the shared key
  keyAge,       \* the ticks since key_last_refreshed, as far as they matter
  serverKey,    \* the key with which the server signs tokens
  retired,      \* the ticks since it last signed with each other key
  up,           \* the server answers
  listed,       \* the bridge knows the server's address
  auth_href,    \* the instance has known it before
  requests      \* what each thread is doing

authServer == <<serverKey, retired, up, listed>>
vars == <<class, public_key, keyAge, authServer, auth_href, requests>>

Least(a, b) == IF a < b THEN a ELSE b
Grace == Interval + MaxFetch
Fetching(q) == q.at \in {"url", "metadata", "jwks", "store"}

Request(at, token, got, age) == [at |-> at, token |-> token, got |-> got, age |-> age]
Ended(how, token) == Request(how, token, NoKey, 0)
Becomes(r, q) == requests' = [requests EXCEPT ![r] = q]
-------------------------------------------------------------------------------
(* The server and the bridge. *)
Rotate(k) ==
  /\ k # serverKey /\ serverKey' = k
  /\ retired' = [retired EXCEPT ![serverKey] = 0]
  /\ UNCHANGED <<class, public_key, keyAge, up, listed, auth_href, requests>>

Switch ==
  /\ \/ up' = ~up /\ UNCHANGED listed
     \/ listed' = ~listed /\ UNCHANGED up
  /\ UNCHANGED <<class, public_key, keyAge, serverKey, retired, auth_href, requests>>

Tick ==
  /\ \A r \in Requests : Fetching(requests[r]) => requests[r].age < MaxFetch
  /\ keyAge' = Least(keyAge + 1, Interval + 1)
  /\ retired' = [k \in Keys |-> IF k = serverKey THEN 0 ELSE Least(retired[k] + 1, Grace + 1)]
  /\ requests' = [r \in Requests |-> IF Fetching(requests[r])
                                     THEN [requests[r] EXCEPT !.age = @ + 1]
                                     ELSE requests[r]]
  /\ UNCHANGED <<class, public_key, serverKey, up, listed, auth_href>>
-------------------------------------------------------------------------------
NeverStale == public_key = NoKey                        \* mutant of the next
Stale == public_key = NoKey \/ keyAge > Interval

(* The token is checked against the key of the class. *)
Verdict(token, key) == Ended(IF token = key THEN "accepted" ELSE "refused", token)

(* processAccessToken: without credentials the request is refused.  The    *)
(* middleware's handling of web sockets leaves out an argument of the call,*)
(* and refuses them all.                                                   *)
Ask(r, socket, token) ==
  /\ requests[r].at = "idle"
  /\ Becomes(r,
       CASE token = NoKey                       -> Ended("refused", NoKey)
         [] token # NoKey /\ socket /\ class = "AuthMiddleware"
                                               -> Ended("error", NoKey)
         [] OTHER -> IF Stale THEN Request("url", token, NoKey, 0)
                     ELSE Verdict(token, public_key))
  /\ UNCHANGED <<class, public_key, keyAge, authServer, auth_href>>

(* The address, the metadata and the keys are fetched one after the other; *)
(* a request whose fetch fails at any of them is answered with an error,   *)
(* and the key stays as it is.                                             *)
Fetch(r, at, next, works) ==
  /\ requests[r].at = at
  /\ Becomes(r, IF works THEN [requests[r] EXCEPT !.at = next]
                ELSE Ended("error", requests[r].token))

GetUrl(r) ==
  /\ Fetch(r, "url", "metadata", listed \/ auth_href)
  /\ auth_href' = (auth_href \/ listed)
  /\ UNCHANGED <<class, public_key, keyAge, authServer>>

GetMetadata(r) ==
  /\ Fetch(r, "metadata", "jwks", up)
  /\ UNCHANGED <<class, public_key, keyAge, authServer, auth_href>>

GetJwks(r) ==
  /\ requests[r].at = "jwks"
  /\ Becomes(r, IF up THEN [requests[r] EXCEPT !.at = "store", !.got = serverKey]
                ELSE Ended("error", requests[r].token))
  /\ UNCHANGED <<class, public_key, keyAge, authServer, auth_href>>

UpdateAgeOnly(k) == public_key' = (IF public_key = NoKey THEN k ELSE public_key)
                    /\ keyAge' = 0                      \* mutant of the next
UpdatePublicKey(k) == public_key' = k /\ keyAge' = 0

Store(r) ==
  /\ requests[r].at = "store"
  /\ UpdatePublicKey(requests[r].got)
  /\ Becomes(r, Verdict(requests[r].token, public_key'))
  /\ UNCHANGED <<class, authServer, auth_href>>

(* The application serves the request, or the error is answered. *)
Answer(r) ==
  /\ requests[r].at \in {"accepted", "refused", "error"}
  /\ Becomes(r, Ended("idle", NoKey))
  /\ UNCHANGED <<class, public_key, keyAge, authServer, auth_href>>

Serve(r) == GetUrl(r) \/ GetMetadata(r) \/ GetJwks(r) \/ Store(r) \/ Answer(r)
-------------------------------------------------------------------------------
Init ==
  /\ class \in {"AuthMiddleware", "RequiresAuth"}
  /\ public_key = NoKey /\ keyAge = Interval + 1
  /\ serverKey \in Keys
  /\ retired = [k \in Keys |-> IF k = serverKey THEN 0 ELSE Grace + 1]
  /\ up \in BOOLEAN /\ listed \in BOOLEAN /\ auth_href = FALSE
  /\ requests = [r \in Requests |-> Ended("idle", NoKey)]

Next ==
  \/ Switch \/ Tick \/ \E k \in Keys : Rotate(k)
  \/ \E r \in Requests :
       Serve(r) \/ \E socket \in BOOLEAN, token \in Keys \cup {NoKey} : Ask(r, socket, token)

(* Time passes, and a thread serves its request; nobody need ask.          *)
Fairness == WF_vars(Tick) /\ \A r \in Requests : WF_vars(Serve(r))

Spec == Init /\ [][Next]_vars
FairSpec == Spec /\ Fairness
-------------------------------------------------------------------------------
TypeOK ==
  /\ class \in {"AuthMiddleware", "RequiresAuth"}
  /\ public_key \in Keys \cup {NoKey} /\ keyAge \in 0..Interval + 1
  /\ serverKey \in Keys /\ retired \in [Keys -> 0..Grace + 1]
  /\ up \in BOOLEAN /\ listed \in BOOLEAN /\ auth_href \in BOOLEAN
  /\ requests \in [Requests ->
       [at : {"idle", "url", "metadata", "jwks", "store", "accepted", "refused", "error"},
        token : Keys \cup {NoKey}, got : Keys \cup {NoKey}, age : 0..MaxFetch]]

(* A key that the server no longer signs with is used to accept a token    *)
(* for the refresh interval and the time of a fetch at most, although a    *)
(* slow request may store it over a newer one, and no tick longer.         *)
Decides(r, how) == requests'[r] # requests[r] /\ requests'[r].at = how
NoOldKey ==
  [][\A r \in Requests : Decides(r, "accepted") =>
       LET k == requests'[r].token IN k = serverKey \/ retired[k] <= Grace]_vars

(* What makes it so: the older the shared key's refresh, the longer ago    *)
(* may it have been retired; a key that is being fetched was in use when   *)
(* the fetch began.                                                        *)
KeyInTime ==
  /\ public_key \notin {NoKey, serverKey} =>
       retired[public_key] <= keyAge + MaxFetch \/ keyAge > Interval
  /\ \A r \in Requests : requests[r].at = "store" =>
       requests[r].got = serverKey \/ retired[requests[r].got] <= requests[r].age

(* While the server keeps its key and can be reached, its tokens are in    *)
(* the end no more turned down: neither for a key retired in between, nor  *)
(* because a slow fetch keeps bringing it back.                            *)
Recovers ==
  \A k \in Keys :
    <>[](serverKey = k /\ up /\ (listed \/ auth_href)) =>
      <>[](\A r \in Requests : requests[r].token = k => requests[r].at \notin {"refused", "error"})
===============================================================================
