------------------------------ MODULE Aggregator ------------------------------
(***************************************************************************)
(* The Aggregator of nmoscommon/aggregator.py: the proxy through which a   *)
(* node keeps itself and its resources registered with a remote            *)
(* Registration API.  Two greenlets share its state with the client:       *)
(*                                                                         *)
(*   "hb"  _heartbeat, which re-registers the node when it is not believed *)
(*         to be registered and beats for it when it is;                   *)
(*   "q"   _process_queue, which sends the queued POSTs and DELETEs.       *)
(*                                                                         *)
(* gevent switches greenlets only where one waits for the network, so an   *)
(* action runs from one wait of a greenlet to the next.  There are three   *)
(* waits in _SEND: for the mDNS bridge to name a registry (phase           *)
(* "resolve"), for the registry to serve the request ("request") and for   *)
(* its answer to reach the greenlet ("answered").                          *)
(***************************************************************************)
EXTENDS P2PCount, Sequences, FiniteSets

CONSTANTS
  Keys,           \* the keys of the resources, the node's excepted
  Node,           \* the node itself, as a queue item or a parent
  Parent,         \* the resource (or Node) each resource refers to
  Rank,           \* the place of each resource's type in registration_order
  Data, BadData,  \* the contents of a resource; BadData the registry refuses
  None,           \* no such resource
  Hrefs, NoHref,  \* what the mDNS bridge answers: a registry, or ""
  Stores,         \* the registries' databases,
  Backend,        \*   and the one behind each href
  Leftover,       \* contents an earlier process may have left in a registry
  TrueDivision,   \* Python 3: status_code/100 is not rounded down
  Faults,         \* the kinds of fault that may happen
  Hasty,          \* the client may call while the node is being registered,
                  \*   and register below a parent whose DELETE is still queued
  MaxFaults, MaxOps, MaxNodeRegs   \* bounds: faults, and the client's calls

ASSUME ParameterAssumption ==
  /\ Node \notin Keys /\ None \notin Data
  /\ NoHref \notin Hrefs /\ IsFiniteSet(Keys)
  /\ Parent \in [Keys -> Keys \cup {Node}]
  /\ Rank \in [Keys -> Nat]
  /\ Backend \in [Hrefs -> Stores]
  /\ Leftover \subseteq Data
  /\ TrueDivision \in BOOLEAN /\ Hasty \in BOOLEAN
  /\ Faults \subseteq {"fail", "refuse", "lose", "late", "garble", "forget",
                "nohref", "outage"}
  /\ {MaxFaults, MaxOps, MaxNodeRegs} \subseteq Nat

VARIABLES
  node,        \* _registered["node"] is not None
  registered,  \* _registered["registered"]
  mirror,      \* _registered["entities"]
  queue,       \* _reg_queue
  running,     \* _running
  aggregator,  \* the href of the registry in use
  p2p,         \* the MDNSUpdater's switch
  pc,          \* what each greenlet is doing
  call,        \* where each greenlet is in _SEND
  cur,         \* the request the queue greenlet is sending
  store,       \* the contents of the registries' databases
  late,        \* timed-out requests that a registry may yet serve
  dead,        \* there is no registry any more
  faults, ops, nodeRegs   \* what has been used of the bounds

client == <<node, mirror>>
network == <<store, late, dead>>
budget == <<faults, ops, nodeRegs>>
vars == <<node, registered, mirror, queue, running, aggregator, p2p, pc, call,
          cur, store, late, dead, faults, ops, nodeRegs>>

Greenlets == {"hb", "q"}
Entities == Keys \cup {Node}
Item == [method : {"POST", "DELETE"}, key : Entities]
Request == [method : {"POST", "DELETE", "BEAT"}, key : Entities,
            data : Data \cup {None}]
Contents == [node : BOOLEAN, res : [Keys -> Data \cup {None}]]
Answers == {"ok", "400", "404", "failed"}
Calls == [phase : {"none", "resolve", "request", "answered"},
          tries : 0..3, to : Hrefs \cup {NoHref}, answer : Answers]

Post(k) == [method |-> "POST", key |-> k]
Delete(k) == [method |-> "DELETE", key |-> k]
-------------------------------------------------------------------------------
(* The registry, as the code in src/ relies on it: deleting a node deletes *)
(* its resources, a resource needs its node and its parent, and only a     *)
(* registered node may beat.                                               *)

Empty == [node |-> FALSE, res |-> [k \in Keys |-> None]]

Accepts(s, r) ==
  CASE r.method = "BEAT"                  -> s.node
    [] r.method = "DELETE" /\ r.key = Node -> s.node
    [] r.method = "DELETE" /\ r.key # Node -> s.res[r.key] # None
    [] r.method = "POST" /\ r.key = Node   -> TRUE
    [] r.method = "POST" /\ r.key # Node   ->
         /\ s.node /\ r.data # BadData
         /\ Parent[r.key] # Node => s.res[Parent[r.key]] # None

After(s, r) ==
  CASE ~Accepts(s, r) \/ r.method = "BEAT" -> s
    [] Accepts(s, r) /\ r.method = "DELETE" /\ r.key = Node -> Empty
    [] Accepts(s, r) /\ r.method = "POST" /\ r.key = Node ->
         [s EXCEPT !.node = TRUE]
    [] Accepts(s, r) /\ r.method # "BEAT" /\ r.key # Node ->
         [s EXCEPT !.res[r.key] = r.data]

AnswerTo(s, r) ==
  IF Accepts(s, r) THEN "ok" ELSE IF r.method = "POST" THEN "400" ELSE "404"
-------------------------------------------------------------------------------
(* _SEND.  (R.status_code/100) == 4 rounds down on Python 2 only: on       *)
(* Python 3 no status but 400 itself raises InvalidRequest.                *)
IsClientErrorOnPython3(a) == a = "400"             \* mutant of the next
IsClientError(a) == a = "400" \/ (a = "404" /\ ~TrueDivision)

(* The exceptions _SEND raises count towards peer-to-peer discovery. *)
RaisedUncounted(p) == p                            \* mutant of the next
Raised(p) == IncCount(p)

(* It raises NoAggregator or, after three tries, TooManyRetries. *)
GivesUpWithoutHref(tries, href) == href = NoHref   \* mutant of the next
GivesUp(tries, href) == tries = 3 \/ href = NoHref

NoCall == [phase |-> "none", tries |-> 0, to |-> NoHref, answer |-> "ok"]

Attempt(tries, href) ==
  [phase |-> IF href = NoHref THEN "resolve" ELSE "request",
   tries |-> tries, to |-> href, answer |-> "ok"]

(* Greenlet g enters _SEND at a place of its code, the aggregator being agg. *)
Send(g, place, agg) ==
  /\ pc' = [pc EXCEPT ![g] = place]
  /\ call' = [call EXCEPT ![g] = Attempt(0, agg)]

(* Greenlet g leaves _SEND for a place where it makes no call. *)
Rest(g, place) ==
  /\ pc' = [pc EXCEPT ![g] = place]
  /\ call' = [call EXCEPT ![g] = NoCall]

(* The request that greenlet g is sending. *)
SentWithoutClear(g) ==                             \* mutant of the next
  CASE pc[g] \in {"beat", "clear", "confirm", "nodebeat"} ->
         [method |-> "BEAT", key |-> Node, data |-> None]
    [] pc[g] = "post" -> [method |-> "POST", key |-> Node, data |-> None]
    [] OTHER -> cur
Sent(g) ==
  CASE pc[g] \in {"beat", "confirm", "nodebeat"} ->
         [method |-> "BEAT", key |-> Node, data |-> None]
    [] pc[g] = "clear" -> [method |-> "DELETE", key |-> Node, data |-> None]
    [] pc[g] = "post" -> [method |-> "POST", key |-> Node, data |-> None]
    [] OTHER -> cur
-------------------------------------------------------------------------------
(* What each greenlet does when _SEND returns or raises.  out is "ok", the *)
(* status of an InvalidRequest ("400", "404"), or "failed" (NoAggregator,  *)
(* TooManyRetries or a ValueError of R.json()); p and agg are the switch and the aggregator that _SEND *)
(* leaves behind.                                                          *)

(* The heartbeat: a 404 or an unexpected error marks the node for          *)
(* re-registration, another client error stops the proxy.                  *)
BeatDone(out, p, agg) ==
  /\ pc["hb"] = "beat"
  /\ registered' = (registered /\ out \in {"ok", "400"})
  /\ p2p' = IF out = "404" THEN IncCount(p) ELSE p
  /\ running' = (running /\ out # "400")
  /\ aggregator' = agg
  /\ Rest("hb", IF out = "400" THEN "done" ELSE "sleep")
  /\ UNCHANGED <<queue, mirror, cur>>

(* _process_reregister after DELETE /resource/nodes: unless the call       *)
(* failed, drain the queue and post the node (which the client may have    *)
(* unregistered meanwhile: a TypeError, caught below the POST).            *)
ClearDone(out, p, agg) ==
  /\ pc["hb"] = "clear"
  /\ IF out = "failed"
       THEN /\ Rest("hb", "sleep")
            /\ aggregator' = agg /\ p2p' = p
            /\ UNCHANGED <<registered, queue>>
       ELSE /\ registered' = FALSE
            /\ p2p' = IncCount(p)
            /\ queue' = << >>
            /\ IF node THEN Send("hb", "post", agg) /\ aggregator' = agg
                       ELSE Rest("hb", "sleep") /\ aggregator' = NoHref
  /\ UNCHANGED <<running, mirror, cur>>

PostDone(out, p, agg) ==
  /\ pc["hb"] = "post"
  /\ p2p' = p
  /\ IF out = "ok" /\ node
       THEN Send("hb", "confirm", agg) /\ aggregator' = agg
       ELSE Rest("hb", "sleep") /\ aggregator' = NoHref
  /\ UNCHANGED <<registered, running, queue, mirror, cur>>

(* The orders in which a set of resources may be queued again: by type as  *)
(* registration_order has it, in any order within a type.                  *)
UnsortedOrders(S) ==                                  \* mutant of the next
  {f \in [1..Cardinality(S) -> S] : \A k \in S : \E i \in DOMAIN f : f[i] = k}
RequeueOrders(S) ==
  {f \in [1..Cardinality(S) -> S] :
     /\ \A k \in S : \E i \in DOMAIN f : f[i] = k
     /\ \A i, j \in DOMAIN f : i < j => Rank[f[i]] <= Rank[f[j]]}

MirroredDevices == {k \in Keys : mirror[k] # None /\ Rank[k] = 1}
                                                      \* mutant of the next
Mirrored == {k \in Keys : mirror[k] # None}

Posts(f) == [i \in DOMAIN f |-> Post(f[i])]

(* The node is registered: every mirrored resource is queued again. *)
ConfirmDone(out, p, agg) ==
  /\ pc["hb"] = "confirm"
  /\ IF out = "ok"
       THEN /\ registered' = TRUE
            /\ p2p' = Disable(p)
            /\ aggregator' = agg
            /\ \E f \in RequeueOrders(Mirrored) : queue' = queue \o Posts(f)
       ELSE /\ p2p' = p
            /\ aggregator' = NoHref
            /\ UNCHANGED <<registered, queue>>
  /\ Rest("hb", "sleep")
  /\ UNCHANGED <<running, mirror, cur>>

(* The node's queued POST, then its first heartbeat: any exception of the  *)
(* two is caught on the spot.                                              *)
NodeDone(out, p, agg) ==
  /\ pc["q"] = "node"
  /\ IF out = "ok" /\ node THEN Send("q", "nodebeat", agg)
                           ELSE Rest("q", "idle")
  /\ p2p' = p /\ aggregator' = agg
  /\ UNCHANGED <<registered, running, queue, mirror, cur>>

NodeBeatDone(out, p, agg) ==
  /\ pc["q"] = "nodebeat"
  /\ registered' = (registered \/ out = "ok")
  /\ p2p' = IF out = "ok" THEN Disable(p) ELSE p
  /\ Rest("q", "idle")
  /\ aggregator' = agg
  /\ UNCHANGED <<running, queue, mirror, cur>>

(* A resource the registry refuses leaves the mirror; if the client        *)
(* unregistered it meanwhile the del raises, and the outermost handler     *)
(* marks the node unregistered, as it does when the call failed.           *)
ResourceDone(out, p, agg) ==
  /\ pc["q"] = "res"
  /\ LET refused == out \in {"400", "404"}
         raised == out = "failed" \/ (refused /\ mirror[cur.key] = None)
     IN /\ mirror' = IF refused THEN [mirror EXCEPT ![cur.key] = None] ELSE mirror
        /\ registered' = (registered /\ ~raised)
        /\ p2p' = IF raised THEN Disable(p) ELSE p
  /\ Rest("q", "idle")
  /\ aggregator' = agg
  /\ UNCHANGED <<running, queue, cur>>

DeleteDone(out, p, agg) ==
  /\ pc["q"] = "delete"
  /\ registered' = (registered /\ out # "failed")
  /\ p2p' = IF out = "failed" THEN Disable(p) ELSE p
  /\ Rest("q", "idle")
  /\ aggregator' = agg
  /\ UNCHANGED <<running, queue, mirror, cur>>

Return(g, out, p, agg) ==
  /\ \/ g = "hb" /\ \/ BeatDone(out, p, agg) \/ ClearDone(out, p, agg)
                    \/ PostDone(out, p, agg) \/ ConfirmDone(out, p, agg)
     \/ g = "q" /\ \/ NodeDone(out, p, agg) \/ NodeBeatDone(out, p, agg)
                   \/ ResourceDone(out, p, agg) \/ DeleteDone(out, p, agg)
  /\ UNCHANGED node
-------------------------------------------------------------------------------
(* _SEND, continued. *)

Spend(kind) ==
  /\ kind \in Faults /\ faults < MaxFaults
  /\ faults' = faults + 1
  /\ UNCHANGED <<ops, nodeRegs>>

(* The bridge answers getHref.  After the third failed try _SEND gives up  *)
(* whatever the answer; without a registry it gives up at once.            *)
Resolve(g, href) ==
  /\ call[g].phase = "resolve"
  /\ IF href = NoHref /\ ~dead THEN Spend("nohref") ELSE UNCHANGED budget
  /\ IF GivesUp(call[g].tries, href)
       THEN Return(g, "failed", Raised(p2p), href)
       ELSE /\ call' = [call EXCEPT ![g] = Attempt(call[g].tries, href)]
            /\ aggregator' = href
            /\ UNCHANGED <<client, registered, queue, running, p2p, pc, cur>>
  /\ UNCHANGED network

Answered(g, a) ==
  /\ call' = [call EXCEPT ![g] = [@ EXCEPT !.phase = "answered", !.answer = a]]
  /\ UNCHANGED <<client, registered, queue, running, aggregator, p2p, pc, cur>>

(* The registry serves the request. *)
Serve(g) ==
  /\ call[g].phase = "request" /\ ~dead
  /\ LET s == Backend[call[g].to]
     IN /\ Answered(g, AnswerTo(store[s], Sent(g)))
        /\ store' = [store EXCEPT ![s] = After(@, Sent(g))]
  /\ UNCHANGED <<late, dead, budget>>

(* The answer reaches the greenlet: success and InvalidRequest leave _SEND, *)
(* anything else has the bridge name another registry.                      *)
Deliver(g) ==
  /\ call[g].phase = "answered"
  /\ LET a == call[g].answer
     IN \/ a = "ok" /\ Return(g, "ok", p2p, aggregator)
        \/ IsClientError(a) /\ Return(g, a, Raised(p2p), aggregator)
        \/ /\ a # "ok" /\ ~IsClientError(a)
           /\ call' = [call EXCEPT ![g].phase = "resolve", ![g].tries = @ + 1]
           /\ UNCHANGED <<client, registered, queue, running, aggregator, p2p,
                          pc, cur>>
  /\ UNCHANGED <<network, budget>>

(* Faults: no connection or a 5xx; a 4xx issued incorrectly (the comment at *)
(* line 269); a timeout whose request was served, or will be served later.  *)
Fail(g) ==
  /\ call[g].phase = "request"
  /\ IF dead THEN UNCHANGED budget ELSE Spend("fail")
  /\ Answered(g, "failed") /\ UNCHANGED network

Refuse(g) ==
  /\ call[g].phase = "request" /\ ~dead /\ Spend("refuse")
  /\ Answered(g, "400") /\ UNCHANGED network

Lose(g) ==
  /\ call[g].phase = "answered" /\ call[g].answer # "failed" /\ Spend("lose")
  /\ Answered(g, "failed") /\ UNCHANGED network

TimeOut(g) ==
  /\ call[g].phase = "request" /\ Spend("late")
  /\ Answered(g, "failed")
  /\ late' = late \cup {[to |-> Backend[call[g].to], req |-> Sent(g)]}
  /\ UNCHANGED <<store, dead>>

(* A success whose body is not the JSON it says it is: R.json() raises,     *)
(* which with older releases of requests leaves _SEND at once (the newer   *)
(* ones raise a RequestException, as if the answer were lost).             *)
Garble(g) ==
  /\ call[g].phase = "answered" /\ call[g].answer = "ok" /\ Spend("garble")
  /\ Return(g, "failed", p2p, aggregator) /\ UNCHANGED network

ServeLate ==
  \E m \in late :
    /\ store' = [store EXCEPT ![m.to] = After(@, m.req)]
    /\ late' = late \ {m}
    /\ UNCHANGED <<client, registered, queue, running, aggregator, p2p, pc,
                   call, cur, dead, budget>>

(* A registry restarts empty, or collects a node it has not heard from. *)
Forget(s) ==
  /\ store[s].node /\ Spend("forget")
  /\ store' = [store EXCEPT ![s] = Empty]
  /\ UNCHANGED <<client, registered, queue, running, aggregator, p2p, pc, call,
                 cur, late, dead>>

(* All registries go for good. *)
Outage ==
  /\ ~dead /\ Spend("outage")
  /\ dead' = TRUE
  /\ UNCHANGED <<client, registered, queue, running, aggregator, p2p, pc, call,
                 cur, store, late>>
-------------------------------------------------------------------------------
(* _heartbeat wakes up from its five seconds of sleep. *)
Wake ==
  /\ pc["hb"] = "sleep"
  /\ \/ /\ ~running
        /\ Rest("hb", "done") /\ UNCHANGED <<registered, p2p>>
     \/ /\ running /\ ~registered /\ ~node        \* nothing to register yet
        /\ UNCHANGED <<pc, call, registered, p2p>>
     \/ /\ running /\ ~registered /\ node
        /\ Send("hb", "clear", aggregator) /\ UNCHANGED <<registered, p2p>>
     \/ /\ running /\ registered /\ node
        /\ Send("hb", "beat", aggregator) /\ UNCHANGED <<registered, p2p>>
     \/ /\ running /\ registered /\ ~node
        /\ registered' = FALSE /\ p2p' = IncCount(p2p)
        /\ UNCHANGED <<pc, call>>
  /\ UNCHANGED <<client, queue, running, aggregator, cur, network, budget>>

(* _process_queue takes the head of the queue.  A resource's data is read  *)
(* from the mirror now, not when it was queued; one no longer in the       *)
(* mirror, or a node that is gone, is skipped, without a wait.             *)
QueueEndsWhenEmpty == ~running /\ queue = << >>    \* mutant of the next
QueueMayEnd == ~running /\ (~registered \/ queue = << >>)

Skipped(item) ==
  item.method = "POST" /\ IF item.key = Node THEN ~node ELSE mirror[item.key] = None

PlaceOf(item) ==
  CASE item.method = "DELETE"                   -> "delete"
    [] item.method = "POST" /\ item.key = Node -> "node"
    [] item.method = "POST" /\ item.key # Node -> "res"

RequestFor(item) ==
  [method |-> item.method, key |-> item.key,
   data |-> IF PlaceOf(item) = "res" THEN mirror[item.key] ELSE None]

Take ==
  /\ pc["q"] = "idle" /\ registered /\ queue # << >>
  /\ \/ /\ \A i \in DOMAIN queue : Skipped(queue[i])
        /\ queue' = << >>
        /\ UNCHANGED <<pc, call, cur>>
     \/ \E n \in DOMAIN queue :
          /\ \A i \in 1 .. n - 1 : Skipped(queue[i])
          /\ ~Skipped(queue[n])
          /\ queue' = SubSeq(queue, n + 1, Len(queue))
          /\ Send("q", PlaceOf(queue[n]), aggregator)
          /\ cur' = RequestFor(queue[n])
  /\ UNCHANGED <<client, registered, running, aggregator, p2p, network, budget>>

QueueEnds ==
  /\ pc["q"] = "idle" /\ QueueMayEnd
  /\ Rest("q", "done")
  /\ UNCHANGED <<client, registered, queue, running, aggregator, p2p, cur,
                 network, budget>>
-------------------------------------------------------------------------------
(* The client.  It registers a resource after its parent and unregisters   *)
(* it before, as the IS-04 data model requires.                            *)
Count(counter, bound) == counter < bound /\ counter' = counter + 1

MayCall == Hasty \/ pc["hb"] \notin {"clear", "post", "confirm"}

DeleteQueued(k) == \E i \in DOMAIN queue : queue[i] = Delete(k)

Enqueue(item) ==
  /\ queue' = Append(queue, item)
  /\ UNCHANGED <<registered, running, aggregator, p2p, pc, call, cur, network,
                 faults>>

RegisterNode ==
  /\ Count(nodeRegs, MaxNodeRegs)
  /\ node' = TRUE
  /\ Enqueue(Post(Node)) /\ UNCHANGED <<mirror, ops>>

UnregisterNode ==
  /\ node
  /\ node' = FALSE
  /\ Enqueue(Delete(Node)) /\ UNCHANGED <<mirror, ops, nodeRegs>>

Register(k, d) ==
  /\ Parent[k] # Node =>
       mirror[Parent[k]] # None /\ (Hasty \/ ~DeleteQueued(Parent[k]))
  /\ MayCall /\ Count(ops, MaxOps)
  /\ mirror' = [mirror EXCEPT ![k] = d]
  /\ Enqueue(Post(k)) /\ UNCHANGED <<node, nodeRegs>>

Unregister(k) ==
  /\ \A c \in Keys : Parent[c] = k => mirror[c] = None
  /\ MayCall /\ Count(ops, MaxOps)
  /\ mirror' = [mirror EXCEPT ![k] = None]
  /\ Enqueue(Delete(k)) /\ UNCHANGED <<node, nodeRegs>>

Stop ==
  /\ running /\ running' = FALSE
  /\ UNCHANGED <<client, registered, queue, aggregator, p2p, pc, call, cur,
                 network, budget>>

Terminated ==
  /\ pc = [g \in Greenlets |-> "done"]
  /\ UNCHANGED vars
-------------------------------------------------------------------------------
Init ==
  /\ node = FALSE /\ registered = FALSE
  /\ mirror = [k \in Keys |-> None]
  /\ queue = << >>
  /\ running = TRUE
  /\ aggregator = NoHref
  /\ p2p \in InitSwitch
  /\ pc = [g \in Greenlets |-> IF g = "hb" THEN "sleep" ELSE "idle"]
  /\ call = [g \in Greenlets |-> NoCall]
  /\ cur = [method |-> "BEAT", key |-> Node, data |-> None]
  /\ store \in [Stores -> {Empty} \cup
                  {[node |-> TRUE, res |-> [k \in Keys |-> d]] : d \in Leftover}]
  /\ late = {} /\ dead = FALSE
  /\ faults = 0 /\ ops = 0 /\ nodeRegs = 0

Step(g) == \/ \E href \in Hrefs \cup {NoHref} : Resolve(g, href)
           \/ Deliver(g)

Client == \/ RegisterNode \/ UnregisterNode \/ Stop
          \/ \E k \in Keys, d \in Data : Register(k, d)
          \/ \E k \in Keys : Unregister(k)

Fault == \/ \E g \in Greenlets : Fail(g) \/ Refuse(g) \/ Lose(g) \/ TimeOut(g)
                                \/ Garble(g)
         \/ \E s \in Stores : Forget(s)
         \/ Outage

Next ==
  \/ Wake \/ Take \/ QueueEnds
  \/ \E g \in Greenlets : Step(g) \/ Serve(g)
  \/ ServeLate
  \/ Fault
  \/ Client
  \/ Terminated

(* The greenlets run while they can, a request sent is answered (or fails, *)
(* when there is no registry), and the bridge answers; the client and the  *)
(* faults owe nothing.                                                     *)
Fairness ==
  /\ WF_vars(Wake) /\ WF_vars(Take) /\ WF_vars(QueueEnds)
  /\ \A g \in Greenlets : WF_vars(Step(g)) /\ WF_vars(Serve(g) \/ (dead /\ Fail(g)))

Spec == Init /\ [][Next]_vars
FairSpec == Spec /\ Fairness
-------------------------------------------------------------------------------
Types ==
  /\ node \in BOOLEAN /\ registered \in BOOLEAN /\ running \in BOOLEAN
  /\ mirror \in [Keys -> Data \cup {None}]
  /\ queue \in Seq(Item)
  /\ aggregator \in Hrefs \cup {NoHref}
  /\ p2p \in Switch
  /\ pc \in [Greenlets -> {"sleep", "beat", "clear", "post", "confirm", "idle",
                           "node", "nodebeat", "res", "delete", "done"}]
  /\ call \in [Greenlets -> Calls]
  /\ cur \in Request
  /\ store \in [Stores -> Contents]
  /\ late \subseteq [to : Stores, req : Request] /\ dead \in BOOLEAN
  /\ faults \in Nat /\ ops \in Nat /\ nodeRegs \in Nat

Retries ==
  \A g \in Greenlets :
    /\ call[g].phase \in {"request", "answered"} => call[g].tries < 3
    /\ call[g].phase = "request" => call[g].to \in Hrefs

(* Every variable has its type, and no request is sent a fourth time or    *)
(* without a registry to send it to.                                       *)
TypeOK == Types /\ Retries

(* The registry in use, as the database behind the current href. *)
Current == IF aggregator \in Hrefs THEN store[Backend[aggregator]] ELSE Empty

(* A POST of k is queued, and no DELETE of k behind it. *)
Pending(k) ==
  \E i \in DOMAIN queue :
    /\ queue[i] = Post(k)
    /\ \A j \in DOMAIN queue : j > i => queue[j] # Delete(k)

Sending(k) == pc["q"] \in {"res", "delete"} /\ cur.key = k

Stored(k, s) == store[s].res[k] = mirror[k]

(* The queue greenlet is sending what the mirror holds, and if the registry *)
(* has accepted it then the registry still has it.                          *)
InFlight(k, s) ==
  /\ pc["q"] = "res" /\ cur = [method |-> "POST", key |-> k, data |-> mirror[k]]
  /\ ~DeleteQueued(k)
  /\ (call["q"].phase = "answered" /\ call["q"].answer = "ok") => Stored(k, s)

Covered(k, s) ==
  \/ Pending(k)
  \/ InFlight(k, s)
  \/ Stored(k, s) /\ ~DeleteQueued(k) /\ ~Sending(k)
  \/ ~store[s].node

(* While the node is believed registered, each resource of the mirror is   *)
(* on its way to the registry or there with the mirror's contents, unless  *)
(* the registry has lost the node (which the next heartbeat finds out).    *)
(* This is what _process_reregister's draining and requeueing, racing with *)
(* the queue greenlet and the client, must keep true.                      *)
MirrorCovered ==
  registered /\ node =>
    \A k \in Keys, s \in Stores : mirror[k] # None => Covered(k, s)

(* While the client keeps its node registered, a resource the registry     *)
(* would take leaves the mirror only by a call of the client.  The order   *)
(* in which resources are queued and queued again, parents first and the   *)
(* node before all, is what keeps a POST from being refused.               *)
KeepsResources ==
  [][\A k \in Keys :
       node /\ mirror[k] \notin {None, BadData} /\ mirror'[k] = None
         => ops' = ops + 1]_vars

Quiet ==
  /\ registered /\ node /\ queue = << >>
  /\ pc["hb"] = "sleep" /\ pc["q"] = "idle"

(* When nothing is left to send, the registry in use holds for this node   *)
(* exactly what the mirror holds: nothing is missing, and nothing is left  *)
(* of an earlier process or of a resource unregistered since.              *)
InSync == Quiet /\ Current.node => Current.res = mirror

(* Once the client is done and the faults are over, a node that the client *)
(* has registered is registered for good and the registry holds the data.  *)
Converges ==
  <>[](node /\ running =>
         /\ registered /\ Current.node
         /\ \A k \in Keys : mirror[k] # None => Current.res[k] = mirror[k])

(* register: "Node registration is managed by heartbeat thread so may take *)
(* up to 5 seconds!" (line 188): every try of a registered node that fails *)
(* is followed by another.                                                 *)
NodeRegisters == node ~> (registered \/ ~node \/ ~running \/ dead)

(* When there is no registry any more, the failures of a registered node   *)
(* add up until peer-to-peer discovery cuts in, although the queue         *)
(* greenlet's own failures reset the count.                                *)
PeerToPeer == node /\ dead ~> (p2p.enable \/ ~node \/ ~running)

(* After stop() both greenlets end, so its two joins return. *)
Stops == ~running ~> \A g \in Greenlets : pc[g] = "done"
===============================================================================
