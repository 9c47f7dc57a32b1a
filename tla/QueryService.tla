----------------------------- MODULE QueryService -----------------------------
(***************************************************************************)
(* The QueryService of nmoscommon/query.py over the bridge of MdnsBridge:  *)
(* it asks the bridge for the address of a query service, keeps it, and    *)
(* has another when a request to it fails, three times at most.  Several   *)
(* clients of one process share the bridge, and with it the cache from     *)
(* which each answer of it is taken.                                       *)
(*                                                                         *)
(* A behaviour has either the clients or the other callers of MdnsBridge.  *)
(***************************************************************************)
EXTENDS MdnsBridge

CONSTANTS
  Clients,           \* the query clients among the callers
  Working,           \* the services that answer requests while they are there
  LinkLocal,         \* those with a link-local IPv6 address, "fe80:"
  MaxIter,           \* 20
  MaxSubscriptions   \* bound: subscriptions of all clients

ASSUME QueryAssumption ==
  /\ Clients \subseteq Callers /\ Working \cup LinkLocal \subseteq Registries
  /\ \A c \in Clients : Suits[c] = Registries      \* getHref without a version
  /\ {MaxIter, MaxSubscriptions} \subseteq Nat

VARIABLES
  active,       \* the callers of this behaviour
  client,       \* each client: where it is, its _query_url, and a count: of iter
                \* in the constructor, of try_i in a call
  subscriptions

allVars == <<vars, active, client, subscriptions>>

Tries == 3      \* len(backoff)
-------------------------------------------------------------------------------
At(at, url, count) == [at |-> at, url |-> url, count |-> count]

(* The constructor asks again for an address that is not link-local.       *)
Constructed(c, href) ==
  IF href \in LinkLocal /\ client[c].count <= MaxIter
    THEN [client[c] EXCEPT !.count = @ + 1]
    ELSE At("ready", href, 0)

(* _get_query goes on with the new address, subscribe_topic makes one      *)
(* request, whatever comes of it, and keeps no address.                    *)
KeepUrl(c, href) == client[c].url                       \* mutant of the next
NextUrl(c, href) == href

Answered(c, href) ==
  CASE client[c].at = "init"      -> Constructed(c, href)
    [] client[c].at = "again"     -> [client[c] EXCEPT !.at = "get", !.url = NextUrl(c, href)]
    [] client[c].at = "subscribe" -> [client[c] EXCEPT !.at = "ready"]

(* A client in getHref. *)
Ask(c) ==
  /\ client[c].at \in {"init", "again", "subscribe"}
  /\ GetHref(c) \/ Update(c) \/ UpdateFails(c)
  /\ client' = IF pc'[c] = "out" THEN [client EXCEPT ![c] = Answered(c, answer'[c])]
               ELSE client
  /\ UNCHANGED <<active, subscriptions>>

Idle(c) == client[c].at \in {"ready", "notfound"}

GetQuery(c) ==
  /\ Idle(c)
  /\ client' = [client EXCEPT ![c].at = "get"]
  /\ UNCHANGED <<vars, active, subscriptions>>

(* The local query service, and no address, may answer or fail, or fail.   *)
MayAnswer(url) == url = LocalQuery \/ url \in (found \cap Working)
MayFail(url) == url \notin (found \cap Working)

Request(c) ==
  /\ client[c].at = "get"
  /\ LET url == client[c].url  try_i == client[c].count IN
     \/ /\ MayAnswer(url)
        /\ client' = [client EXCEPT ![c] = At("ready", url, 0)]
     \/ /\ MayFail(url)
        /\ client' = [client EXCEPT ![c] =
                        IF try_i = Tries - 1 THEN At("notfound", url, 0)
                        ELSE At("again", url, try_i + 1)]
  /\ UNCHANGED <<vars, active, subscriptions>>

SubscribeTopic(c) ==
  /\ Idle(c)
  /\ subscriptions < MaxSubscriptions /\ subscriptions' = subscriptions + 1
  /\ client' = [client EXCEPT ![c].at = "subscribe"]
  /\ UNCHANGED <<vars, active>>

(* The other callers, and the network. *)
NoClient == UNCHANGED <<active, client, subscriptions>>
Call(g) == (GetHref(g) \/ Update(g) \/ UpdateFails(g)) /\ NoClient
Network == \E s \in Registries : Change(s) /\ NoClient
-------------------------------------------------------------------------------
QueryInit ==
  /\ Init
  /\ active \in {Clients, Callers \ Clients}
  /\ client = [c \in Clients |-> At("init", NoHref, 0)]
  /\ subscriptions = 0

QueryNext ==
  \/ \E c \in active \cap Clients :
       Ask(c) \/ GetQuery(c) \/ Request(c) \/ SubscribeTopic(c)
  \/ \E g \in active \ Clients : Call(g)
  \/ Network

(* Clients call again and again, and each request comes to an end.         *)
QueryFairness ==
  /\ \A g \in Callers : /\ WF_allVars(g \in active \ Clients /\ GetHref(g) /\ NoClient)
                        /\ WF_allVars(g \in active \ Clients /\ Update(g) /\ NoClient)
  /\ \A c \in Clients : WF_allVars(c \in active /\ (Ask(c) \/ GetQuery(c) \/ Request(c)))

QuerySpec == QueryInit /\ [][QueryNext]_allVars /\ QueryFairness
-------------------------------------------------------------------------------
(* Callers that ask again and again are answered, between them, with every *)
(* service that stays, and at last with none that has gone.                *)
CallersServed == active # Clients => EveryoneTried /\ Recovers

(* Clients that share a bridge do not keep the service that works from one *)
(* another: when one stays on the network, of the priorities wanted, the   *)
(* calls of each client fail no more after some time.                      *)
QueryRecovers ==
  priority < 100 /\ active = Clients =>
    \A s \in (Working \cap Mode) \ LinkLocal :
      Pri[s] < 100 /\ <>[](s \in found) =>
        <>[](\A c \in Clients : client[c].at # "notfound")
===============================================================================
