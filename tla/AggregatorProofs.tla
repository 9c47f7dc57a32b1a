--------------------------- MODULE AggregatorProofs ---------------------------
(***************************************************************************)
(* Proofs about Aggregator: its type invariant, and MirrorCovered for any  *)
(* number of resources, calls, hrefs and faults.                           *)
(***************************************************************************)
EXTENDS Aggregator, FiniteSetTheorems, SequenceTheorems, TLAPS

Places == {"sleep", "beat", "clear", "post", "confirm", "idle", "node",
           "nodebeat", "res", "delete", "done"}

(* Where each greenlet can be, and that it is in _SEND exactly there. *)
Control ==
  /\ pc["hb"] \in {"sleep", "beat", "clear", "post", "confirm", "done"}
  /\ pc["q"] \in {"idle", "node", "nodebeat", "res", "delete", "done"}
  /\ \A g \in Greenlets :
       call[g].phase = "none" <=> pc[g] \in {"sleep", "idle", "done"}
  /\ pc["q"] = "res" => cur.method = "POST" /\ cur.key \in Keys
  /\ pc["q"] = "delete" => cur.method = "DELETE"

NodePostQueued == \E i \in DOMAIN queue : queue[i] = Post(Node)

(* A node registered once is posted by the heartbeat only: its queued POST *)
(* is drained before registered is set.  So no other greenlet sets the     *)
(* flag between the clearing of the registry and the requeueing.           *)
NodeOnce ==
  /\ nodeRegs = 0 => ~node /\ ~registered /\ pc["hb"] \in {"sleep", "done"}
  /\ pc["hb"] \in {"clear", "post", "confirm"} => ~registered
  /\ registered \/ pc["hb"] \in {"post", "confirm"} => ~NodePostQueued
  /\ pc["q"] \notin {"node", "nodebeat"}
  /\ late = {}

-------------------------------------------------------------------------------
(* Lemmas on the operators. *)

(* The switch stays a switch whatever the greenlets do to it. *)
LEMMA SwitchType ==
  ASSUME NEW p \in Switch
  PROVE  IncCount(p) \in Switch /\ Disable(p) \in Switch /\ Raised(p) \in Switch
  BY CutInAssumption DEF Switch, IncCount, Disable, Raised

(* Entering _SEND: a call either waits for an href or is on its way to one. *)
LEMMA AttemptType ==
  ASSUME NEW t \in 0..3, NEW h \in Hrefs \cup {NoHref}
  PROVE  /\ Attempt(t, h) \in Calls
         /\ Attempt(t, h).phase \in {"resolve", "request"}
         /\ Attempt(t, h).phase = "request" => Attempt(t, h).to \in Hrefs
         /\ Attempt(t, h).answer = "ok"
         /\ NoCall \in Calls /\ NoCall.phase = "none"
  BY DEF Attempt, Calls, NoCall, Answers

(* What a greenlet sends is a request. *)
LEMMA SentType ==
  ASSUME cur \in Request, NEW g \in Greenlets
  PROVE  Sent(g) \in Request
  BY DEF Sent, Request, Entities

(* A registry answers with contents of its kind, and one of the answers. *)
LEMMA ServedType ==
  ASSUME NEW s \in Contents, NEW r \in Request
  PROVE  After(s, r) \in Contents /\ AnswerTo(s, r) \in Answers /\ Empty \in Contents
<1>1. Empty \in Contents
  BY DEF Empty, Contents
<1>2. AnswerTo(s, r) \in Answers
  BY DEF AnswerTo, Answers
<1>3. [s EXCEPT !.node = TRUE] \in Contents
  BY DEF Contents
<1>4. ASSUME r.key \in Keys
      PROVE  [s EXCEPT !.res[r.key] = r.data] \in Contents
  BY <1>4 DEF Contents, Request
<1>5. After(s, r) \in Contents
  <2>1. r.key \in Keys \/ r.key = Node
    BY DEF Request, Entities
  <2>2. r.method \in {"POST", "DELETE", "BEAT"}
    BY DEF Request
  <2> QED  BY <1>1, <1>3, <1>4, <2>1, <2>2 DEF After
<1> QED  BY <1>1, <1>2, <1>5

(* What re-registration appends to the queue: a POST of each mirrored key, *)
(* and nothing else.                                                       *)
LEMMA Requeue ==
  ASSUME NEW f \in RequeueOrders(Mirrored)
  PROVE  /\ Posts(f) \in Seq(Item)
         /\ \A i \in DOMAIN Posts(f) : \E k \in Keys : Posts(f)[i] = Post(k)
         /\ \A k \in Mirrored : \E i \in DOMAIN Posts(f) : Posts(f)[i] = Post(k)
<1>1. Mirrored \subseteq Keys /\ Cardinality(Mirrored) \in Nat
  BY ParameterAssumption, FS_Subset, FS_CardinalityType DEF Mirrored
<1>2. /\ f \in [1..Cardinality(Mirrored) -> Mirrored]
      /\ \A k \in Mirrored : \E i \in DOMAIN f : f[i] = k
  BY DEF RequeueOrders
<1>3. /\ DOMAIN Posts(f) = 1..Cardinality(Mirrored)
      /\ DOMAIN f = 1..Cardinality(Mirrored)
      /\ \A i \in 1..Cardinality(Mirrored) : f[i] \in Keys /\ Posts(f)[i] = Post(f[i])
  BY <1>1, <1>2 DEF Posts
<1>4. \A k \in Keys : Post(k) \in Item
  BY DEF Post, Item, Entities
<1>5. Posts(f) \in Seq(Item)
  <2>1. Posts(f) = [i \in 1..Cardinality(Mirrored) |-> Post(f[i])]
    BY <1>3 DEF Posts
  <2> QED  BY <1>1, <1>3, <1>4, <2>1, IsASeq
<1> QED  BY <1>2, <1>3, <1>5
-------------------------------------------------------------------------------
(* Type correctness. *)

(* The inductive invariant behind MirrorCovered. *)
IInv == TypeOK /\ Control /\ NodeOnce /\ MirrorCovered

(* What Send and Rest leave of the calls and the places. *)
LEMMA SendType ==
  ASSUME TypeOK, NEW g \in Greenlets, NEW place \in Places,
         NEW agg \in Hrefs \cup {NoHref},
         Send(g, place, agg) \/ Rest(g, place)
  PROVE  /\ pc' \in [Greenlets -> Places] /\ call' \in [Greenlets -> Calls]
         /\ Retries'
         /\ pc' = [pc EXCEPT ![g] = place]
         /\ \A h \in Greenlets : h # g => call'[h] = call[h]
<1>1. Attempt(0, agg).tries = 0 /\ NoCall.tries = 0 /\ NoCall.phase = "none"
  BY DEF Attempt, NoCall
<1>2. PICK c \in Calls : /\ call' = [call EXCEPT ![g] = c] /\ c.tries = 0
                         /\ c.phase = "request" => c.to \in Hrefs
                         /\ pc' = [pc EXCEPT ![g] = place]
  BY <1>1, AttemptType DEF Send, Rest
<1>3. call \in [Greenlets -> Calls] /\ pc \in [Greenlets -> Places]
  BY DEF TypeOK, Types, Places
<1>4. call' \in [Greenlets -> Calls] /\ \A h \in Greenlets : h # g => call'[h] = call[h]
  BY <1>2, <1>3
<1>5. Retries'
  BY <1>2, <1>3 DEF TypeOK, Retries
<1> QED
  BY <1>2, <1>3, <1>4, <1>5

(* What the queue greenlet takes: n entries, of which all but the last are *)
(* skipped, and the last is sent unless it is skipped as well.             *)
Taken(n) ==
  /\ Len(queue) \in Nat /\ DOMAIN queue = 1..Len(queue)
  /\ queue[n] \in Item /\ queue' \in Seq(Item)
  /\ DOMAIN queue' = 1..Len(queue) - n
  /\ \A i \in 1..Len(queue) - n : queue'[i] = queue[i + n]
  /\ \A i \in 1..n - 1 : Skipped(queue[i])
  /\ \/ Skipped(queue[n]) /\ n = Len(queue) /\ UNCHANGED <<pc, call, cur>>
     \/ /\ ~Skipped(queue[n]) /\ cur' = RequestFor(queue[n])
        /\ Send("q", PlaceOf(queue[n]), aggregator)

LEMMA TakeTakes ==
  ASSUME Types, Take
  PROVE \E n \in 1..Len(queue) : Taken(n)
<1>1. /\ queue \in Seq(Item) /\ queue # << >>
      /\ Len(queue) \in Nat \ {0} /\ DOMAIN queue = 1..Len(queue)
      /\ \A i \in 1..Len(queue) : queue[i] \in Item
  BY LenProperties, EmptySeq, ElementOfSeq DEF Types, Take
<1>2. CASE /\ \A i \in DOMAIN queue : Skipped(queue[i])
           /\ queue' = << >> /\ UNCHANGED <<pc, call, cur>>
  <2>1. DOMAIN queue' = 1..Len(queue) - Len(queue) /\ queue' \in Seq(Item)
    BY <1>1, <1>2
  <2>2. Taken(Len(queue))
    BY <1>1, <1>2, <2>1 DEF Taken
  <2> QED BY <1>1, <2>2
<1>3. CASE \E n \in DOMAIN queue :
             /\ \A i \in 1 .. n - 1 : Skipped(queue[i])
             /\ ~Skipped(queue[n])
             /\ queue' = SubSeq(queue, n + 1, Len(queue))
             /\ Send("q", PlaceOf(queue[n]), aggregator)
             /\ cur' = RequestFor(queue[n])
  <2>1. PICK n \in 1..Len(queue) :
          /\ \A i \in 1 .. n - 1 : Skipped(queue[i])
          /\ ~Skipped(queue[n])
          /\ queue' = SubSeq(queue, n + 1, Len(queue))
          /\ Send("q", PlaceOf(queue[n]), aggregator)
          /\ cur' = RequestFor(queue[n])
    BY <1>1, <1>3
  <2>2. /\ queue' \in Seq(Item) /\ Len(queue') = Len(queue) - n
        /\ \A i \in 1..Len(queue) - n : queue'[i] = queue[i + n]
    <3>1. /\ n + 1 \in Int /\ Len(queue) \in Int
          /\ \A i \in n + 1 .. Len(queue) : queue[i] \in Item
      BY <1>1
    <3>2. /\ queue' \in Seq(Item)
          /\ Len(queue') = IF n + 1 <= Len(queue) THEN Len(queue) - (n + 1) + 1 ELSE 0
          /\ \A i \in 1 .. Len(queue) - (n + 1) + 1 : queue'[i] = queue[n + 1 + i - 1]
      BY <2>1, <3>1, SubSeqProperties
    <3>3. Len(queue) - (n + 1) + 1 = Len(queue) - n
      BY <1>1
    <3>4. \A i \in 1..Len(queue) - n : n + 1 + i - 1 = i + n
      BY <1>1
    <3>0. n \in Int /\ n <= Len(queue) /\ Len(queue) \in Int
      BY <1>1
    <3>5. (IF n + 1 <= Len(queue) THEN Len(queue) - n ELSE 0) = Len(queue) - n
      <4>1. CASE n + 1 <= Len(queue)
        BY <4>1
      <4>2. CASE ~(n + 1 <= Len(queue))
        <5>1. Len(queue) - n = 0
          BY <3>0, <4>2
        <5> QED BY <4>2, <5>1
      <4> QED BY <4>1, <4>2
    <3> QED BY <3>2, <3>3, <3>4, <3>5
  <2>3. DOMAIN queue' = 1..Len(queue) - n
    BY <2>2, LenProperties
  <2>4. Taken(n)
    BY <1>1, <2>1, <2>2, <2>3 DEF Taken
  <2> QED BY <2>4
<1> QED BY <1>2, <1>3 DEF Take

(* Where the queue greenlet goes with an entry that it does not skip, and  *)
(* what it sends there.                                                    *)
LEMMA TakenItem ==
  ASSUME NEW item \in Item
  PROVE  /\ PlaceOf(item) \in {"delete", "node", "res"}
         /\ PlaceOf(item) = "delete" <=> item.method = "DELETE"
         /\ PlaceOf(item) = "node" <=> item.method = "POST" /\ item.key = Node
         /\ PlaceOf(item) = "res" => item.method = "POST" /\ item.key \in Keys
         /\ RequestFor(item).method = item.method /\ RequestFor(item).key = item.key
         /\ RequestFor(item).data = IF PlaceOf(item) = "res" THEN mirror[item.key] ELSE None
         /\ mirror \in [Keys -> Data \cup {None}] => RequestFor(item) \in Request
<1>1. /\ item.method = "DELETE" \/ (item.method = "POST" /\ (item.key = Node \/ item.key # Node))
      /\ item.key \in Entities /\ item.method \in {"POST", "DELETE"}
  BY DEF Item
<1>2. /\ item.method = "DELETE" => PlaceOf(item) = "delete"
      /\ item.method = "POST" /\ item.key = Node => PlaceOf(item) = "node"
      /\ item.method = "POST" /\ item.key # Node => PlaceOf(item) = "res"
  BY <1>1 DEF PlaceOf
<1>3. PlaceOf(item) = "res" => item.key \in Keys
  BY <1>1, <1>2 DEF Entities
<1>4. /\ RequestFor(item).method = item.method /\ RequestFor(item).key = item.key
      /\ RequestFor(item).data = IF PlaceOf(item) = "res" THEN mirror[item.key] ELSE None
  BY DEF RequestFor
<1>5. mirror \in [Keys -> Data \cup {None}] => RequestFor(item) \in Request
  BY <1>1, <1>3 DEF RequestFor, Request
<1> QED BY <1>1, <1>2, <1>3, <1>4, <1>5

(* _SEND returning or raising keeps the types. *)
LEMMA ReturnType ==
  ASSUME TypeOK, NEW g \in Greenlets, NEW out, NEW p \in Switch,
         NEW agg \in Hrefs \cup {NoHref}, Return(g, out, p, agg)
  PROVE  /\ node' \in BOOLEAN /\ registered' \in BOOLEAN /\ running' \in BOOLEAN
         /\ mirror' \in [Keys -> Data \cup {None}]
         /\ queue' \in Seq(Item)
         /\ aggregator' \in Hrefs \cup {NoHref}
         /\ p2p' \in Switch
         /\ pc' \in [Greenlets -> Places]
         /\ call' \in [Greenlets -> Calls]
         /\ cur' \in Request
         /\ Retries'
<1> USE SendType DEF Places
<1>1. IncCount(p) \in Switch /\ Disable(p) \in Switch /\ NoHref \in Hrefs \cup {NoHref}
  BY SwitchType
<1>2. node' = node /\ node \in BOOLEAN
  BY DEF Return, TypeOK, Types
<1>3. CASE BeatDone(out, p, agg)
  BY <1>1, <1>2, <1>3 DEF BeatDone, TypeOK, Types, Greenlets
<1>4. CASE ClearDone(out, p, agg)
  <2>1. queue' \in Seq(Item) /\ registered' \in BOOLEAN /\ p2p' \in Switch
    <3>1. CASE out = "failed"
      BY <1>1, <1>4, <3>1 DEF ClearDone, TypeOK, Types
    <3>2. CASE out # "failed"
      <4>1. queue' = << >> /\ registered' = FALSE /\ p2p' = IncCount(p)
        BY <1>4, <3>2 DEF ClearDone
      <4> QED  BY <1>1, <4>1, EmptySeq
    <3> QED  BY <3>1, <3>2
  <2>2. /\ Send("hb", "post", agg) \/ Rest("hb", "sleep")
        /\ aggregator' \in {agg, NoHref}
        /\ UNCHANGED <<running, mirror, cur>>
    BY <1>4 DEF ClearDone
  <2> QED  BY <1>2, <2>1, <2>2 DEF TypeOK, Types, Greenlets
<1>5. CASE PostDone(out, p, agg)
  BY <1>1, <1>2, <1>5 DEF PostDone, TypeOK, Types, Greenlets
<1>6. CASE ConfirmDone(out, p, agg)
  <2>1. queue' \in Seq(Item)
    <3>1. CASE UNCHANGED queue
      BY <3>1 DEF TypeOK, Types
    <3>2. CASE \E f \in RequeueOrders(Mirrored) : queue' = queue \o Posts(f)
      BY <3>2, Requeue, ConcatProperties DEF TypeOK, Types
    <3> QED  BY <1>6, <3>1, <3>2 DEF ConfirmDone
  <2> QED  BY <1>1, <1>2, <1>6, <2>1 DEF ConfirmDone, TypeOK, Types, Greenlets
<1>7. CASE NodeDone(out, p, agg)
  BY <1>1, <1>2, <1>7 DEF NodeDone, TypeOK, Types, Greenlets
<1>8. CASE NodeBeatDone(out, p, agg)
  BY <1>1, <1>2, <1>8 DEF NodeBeatDone, TypeOK, Types, Greenlets
<1>9. CASE ResourceDone(out, p, agg)
  BY <1>1, <1>2, <1>9 DEF ResourceDone, TypeOK, Types, Greenlets
<1>10. CASE DeleteDone(out, p, agg)
  BY <1>1, <1>2, <1>10 DEF DeleteDone, TypeOK, Types, Greenlets
<1> QED
  BY <1>3, <1>4, <1>5, <1>6, <1>7, <1>8, <1>9, <1>10 DEF Return

(* An answer set on a call that was on its way. *)
LEMMA AnsweredType ==
  ASSUME TypeOK, NEW g \in Greenlets, NEW a \in Answers, Answered(g, a),
         call[g].phase \in {"request", "answered"}
  PROVE  /\ call' \in [Greenlets -> Calls] /\ Retries'
         /\ UNCHANGED <<client, registered, queue, running, aggregator, p2p, pc, cur>>
<1> DEFINE c == [call[g] EXCEPT !.phase = "answered", !.answer = a]
<1>1. /\ call' = [call EXCEPT ![g] = c] /\ call \in [Greenlets -> Calls]
      /\ c \in Calls /\ c.phase = "answered" /\ c.tries = call[g].tries
  BY DEF Answered, TypeOK, Types, Calls
<1> HIDE DEF c
<1>2. call' \in [Greenlets -> Calls]
  BY <1>1
<1>3. \A h \in Greenlets : h # g => call'[h] = call[h]
  BY <1>1
<1>4. Retries'
  <2>1. call'[g].phase = "answered" /\ call'[g].tries < 3
    BY <1>1 DEF TypeOK, Retries
  <2> QED  BY <1>3, <2>1 DEF TypeOK, Retries
<1> QED  BY <1>2, <1>4 DEF Answered

(* The types hold from one step to the next. *)
LEMMA TypeStep == TypeOK /\ [Next]_vars => TypeOK'
<1> SUFFICES ASSUME TypeOK, [Next]_vars PROVE TypeOK'
  OBVIOUS
<1> USE DEF client, network, budget
<1>1. /\ Types /\ Retries
      /\ pc \in [Greenlets -> Places]
      /\ NoHref \in Hrefs \cup {NoHref} /\ p2p \in Switch
  BY DEF TypeOK, Types, Places
<1>2. CASE Wake
  <2>1. /\ registered' \in BOOLEAN /\ p2p' \in Switch
        /\ pc' \in [Greenlets -> Places] /\ call' \in [Greenlets -> Calls] /\ Retries'
    <3>1. CASE Rest("hb", "done") /\ UNCHANGED <<registered, p2p>>
      BY <1>1, <3>1, SendType DEF Places, TypeOK, Types, Greenlets
    <3>2. CASE Send("hb", "clear", aggregator) /\ UNCHANGED <<registered, p2p>>
      BY <1>1, <3>2, SendType DEF Places, TypeOK, Types, Greenlets
    <3>3. CASE Send("hb", "beat", aggregator) /\ UNCHANGED <<registered, p2p>>
      BY <1>1, <3>3, SendType DEF Places, TypeOK, Types, Greenlets
    <3>4. CASE UNCHANGED <<pc, call>> /\ registered' \in {registered, FALSE}
               /\ p2p' \in {p2p, IncCount(p2p)}
      BY <1>1, <3>4, SwitchType DEF TypeOK, Types, Retries
    <3> QED  BY <1>2, <3>1, <3>2, <3>3, <3>4 DEF Wake
  <2> QED  BY <1>1, <1>2, <2>1 DEF Wake, TypeOK, Types, Places
<1>3. CASE Take
  <2>0. PICK n \in 1..Len(queue) : Taken(n)
    BY <1>1, <1>3, TakeTakes
  <2>1. /\ queue[n] \in Item /\ queue' \in Seq(Item)
        /\ \/ UNCHANGED <<pc, call, cur>>
           \/ /\ cur' = RequestFor(queue[n])
              /\ Send("q", PlaceOf(queue[n]), aggregator)
    BY <2>0 DEF Taken
  <2>2. cur' \in Request
    BY <1>1, <2>1, TakenItem DEF Types
  <2>3. pc' \in [Greenlets -> Places] /\ call' \in [Greenlets -> Calls] /\ Retries'
    <3>1. CASE UNCHANGED <<pc, call>>
      BY <1>1, <3>1 DEF Retries, Types
    <3>2. CASE Send("q", PlaceOf(queue[n]), aggregator)
      <4>1. PlaceOf(queue[n]) \in Places
        BY <2>1, TakenItem DEF Places
      <4> QED BY <1>1, <3>2, <4>1, SendType DEF Types, Greenlets
    <3> QED  BY <2>1, <3>1, <3>2
  <2> QED  BY <1>1, <1>3, <2>1, <2>2, <2>3 DEF Take, TypeOK, Types, Places
<1>4. CASE QueueEnds
  <2>1. /\ pc' \in [Greenlets -> Places] /\ call' \in [Greenlets -> Calls] /\ Retries'
    BY <1>1, <1>4, SendType DEF QueueEnds, Places, Greenlets
  <2> QED  BY <1>1, <1>4, <2>1 DEF QueueEnds, TypeOK, Types, Places
<1>5. ASSUME NEW g \in Greenlets, NEW href \in Hrefs \cup {NoHref}, Resolve(g, href)
      PROVE  TypeOK'
  <2>1. UNCHANGED network /\ faults' \in Nat /\ ops' \in Nat /\ nodeRegs' \in Nat
    BY <1>1, <1>5 DEF Resolve, Spend, Types
  <2>2. CASE Return(g, "failed", Raised(p2p), href)
    BY <1>1, <2>1, <2>2, ReturnType, SwitchType DEF TypeOK, Types, Places
  <2>3. CASE /\ ~GivesUp(call[g].tries, href)
             /\ call' = [call EXCEPT ![g] = Attempt(call[g].tries, href)]
             /\ aggregator' = href
             /\ UNCHANGED <<client, registered, queue, running, p2p, pc, cur>>
    <3>1. call[g].tries \in 0..2
      BY <1>1, <2>3 DEF Types, Calls, GivesUp
    <3>2. Attempt(call[g].tries, href) \in Calls
      BY <3>1, AttemptType
    <3>3. call' \in [Greenlets -> Calls] /\ Retries'
      BY <1>1, <2>3, <3>1, <3>2 DEF Types, Retries, Attempt
    <3> QED  BY <1>1, <2>1, <2>3, <3>3 DEF TypeOK, Types, Places
  <2> QED  BY <1>5, <2>2, <2>3 DEF Resolve
<1>6. ASSUME NEW g \in Greenlets, Deliver(g) PROVE TypeOK'
  <2>1. UNCHANGED <<network, budget>> /\ aggregator \in Hrefs \cup {NoHref}
    BY <1>1, <1>6 DEF Deliver, Types
  <2>2. CASE \E out : \E p \in Switch : Return(g, out, p, aggregator)
    BY <1>1, <2>1, <2>2, ReturnType DEF TypeOK, Types, Places
  <2>3. CASE /\ call' = [call EXCEPT ![g].phase = "resolve", ![g].tries = @ + 1]
             /\ UNCHANGED <<client, registered, queue, running, aggregator, p2p,
                            pc, cur>>
    <3>1. call[g].tries \in 0..2
      BY <1>1, <1>6 DEF Deliver, Types, Calls, Retries
    <3>2. call' \in [Greenlets -> Calls] /\ Retries'
      BY <1>1, <2>3, <3>1 DEF Types, Retries, Calls
    <3> QED  BY <1>1, <2>1, <2>3, <3>2 DEF TypeOK, Types, Places
  <2> QED  BY <1>1, <1>6, <2>2, <2>3, SwitchType DEF Deliver
<1>7. ASSUME NEW g \in Greenlets, Serve(g) PROVE TypeOK'
  <2> DEFINE s == Backend[call[g].to]
  <2>1. /\ Answered(g, AnswerTo(store[s], Sent(g)))
        /\ store' = [store EXCEPT ![s] = After(@, Sent(g))]
        /\ UNCHANGED <<late, dead, budget>> /\ call[g].phase = "request"
    BY <1>7 DEF Serve
  <2>2. Sent(g) \in Request
    BY <1>1, SentType DEF Types
  <2>3. store' \in [Stores -> Contents]
    BY <1>1, <2>1, <2>2, ServedType DEF Types
  <2>4. AnswerTo(store[s], Sent(g)) \in Answers
    BY DEF AnswerTo, Answers
  <2> QED  BY <1>1, <2>1, <2>3, <2>4, AnsweredType DEF TypeOK, Types, Places
<1>8. CASE ServeLate
  <2>1. PICK m \in late : /\ store' = [store EXCEPT ![m.to] = After(@, m.req)]
                          /\ late' = late \ {m}
    BY <1>8 DEF ServeLate
  <2>2. store' \in [Stores -> Contents]
    BY <1>1, <2>1, ServedType DEF Types
  <2> QED  BY <1>1, <1>8, <2>1, <2>2 DEF ServeLate, TypeOK, Types, Retries, Places
<1>9. ASSUME NEW g \in Greenlets, Fail(g) \/ Refuse(g) \/ Lose(g)
      PROVE  TypeOK'
  <2>1. PICK a \in Answers : Answered(g, a) /\ call[g].phase \in {"request", "answered"}
    BY <1>9 DEF Fail, Refuse, Lose, Answers
  <2>2. UNCHANGED <<network, ops, nodeRegs>> /\ faults' \in Nat
    BY <1>1, <1>9 DEF Fail, Refuse, Lose, Spend, Types
  <2> QED  BY <1>1, <2>1, <2>2, AnsweredType DEF TypeOK, Types, Places
<1>10. ASSUME NEW g \in Greenlets, TimeOut(g) PROVE TypeOK'
  <2>1. /\ Answered(g, "failed") /\ "failed" \in Answers /\ call[g].phase = "request"
        /\ UNCHANGED <<store, dead, ops, nodeRegs>> /\ faults' \in Nat
    BY <1>1, <1>10 DEF TimeOut, Spend, Types, Answers
  <2>2. late' \subseteq [to : Stores, req : Request]
    <3>1. Backend[call[g].to] \in Stores
      BY <1>1, <2>1, ParameterAssumption DEF Retries
    <3> QED  BY <1>1, <1>10, <3>1, SentType DEF TimeOut, Types
  <2> QED  BY <1>1, <2>1, <2>2, AnsweredType DEF TypeOK, Types, Places
<1>11. ASSUME NEW s \in Stores, Forget(s) PROVE TypeOK'
  <2>1. Empty \in Contents
    BY DEF Empty, Contents
  <2> QED  BY <1>1, <1>11, <2>1 DEF Forget, Spend, TypeOK, Types, Retries, Places
<1>12. ASSUME NEW item \in Item, Enqueue(item),
              node' \in BOOLEAN, mirror' \in [Keys -> Data \cup {None}],
              ops' \in Nat, nodeRegs' \in Nat
       PROVE  TypeOK'
  BY <1>1, <1>12, AppendProperties DEF Enqueue, TypeOK, Types, Retries, Places
<1>13. CASE Client
  <2>1. \A k \in Entities : Post(k) \in Item /\ Delete(k) \in Item
    BY DEF Post, Delete, Item
  <2>2. CASE RegisterNode \/ UnregisterNode
    <3>1. Post(Node) \in Item /\ Delete(Node) \in Item
      BY <2>1 DEF Entities
    <3>2. /\ Enqueue(Post(Node)) \/ Enqueue(Delete(Node))
          /\ node' \in BOOLEAN /\ UNCHANGED <<mirror, ops>>
          /\ nodeRegs' \in {nodeRegs, nodeRegs + 1}
      BY <2>2 DEF RegisterNode, UnregisterNode, Count
    <3> QED  BY <1>1, <1>12, <3>1, <3>2 DEF Types
  <2>3. ASSUME NEW k \in Keys, NEW d \in Data, Register(k, d) PROVE TypeOK'
    BY <1>1, <1>12, <2>1, <2>3 DEF Register, Count, Types, Entities
  <2>4. ASSUME NEW k \in Keys, Unregister(k) PROVE TypeOK'
    BY <1>1, <1>12, <2>1, <2>4 DEF Unregister, Count, Types, Entities
  <2>5. CASE Stop
    BY <1>1, <2>5 DEF Stop, TypeOK, Types, Retries
  <2> QED  BY <1>13, <2>2, <2>3, <2>4, <2>5 DEF Client
<1>14. CASE UNCHANGED vars
  BY <1>1, <1>14 DEF vars, TypeOK, Types, Retries
<1>15. CASE Outage
  BY <1>1, <1>15 DEF Outage, Spend, TypeOK, Types, Retries, Places
<1>16. ASSUME NEW g \in Greenlets, Garble(g) PROVE TypeOK'
  <2>1. UNCHANGED network /\ faults' \in Nat /\ ops' \in Nat /\ nodeRegs' \in Nat
    BY <1>1, <1>16 DEF Garble, Spend, Types
  <2>2. Return(g, "failed", p2p, aggregator)
    BY <1>16 DEF Garble
  <2> QED  BY <1>1, <2>1, <2>2, ReturnType DEF TypeOK, Types, Places
<1> QED
  BY <1>2, <1>3, <1>4, <1>5, <1>6, <1>7, <1>8, <1>9, <1>10, <1>11, <1>13, <1>14,
     <1>15, <1>16 DEF Next, Step, Fault, Terminated

(* The initial states are of their types. *)
LEMMA InitType == Init => TypeOK
<1> SUFFICES ASSUME Init PROVE TypeOK
  OBVIOUS
<1>1. store \in [Stores -> Contents]
  <2> DEFINE S == {Empty} \cup
               {[node |-> TRUE, res |-> [k \in Keys |-> d]] : d \in Leftover}
  <2>1. \A d \in Leftover : [node |-> TRUE, res |-> [k \in Keys |-> d]] \in Contents
    BY ParameterAssumption DEF Contents
  <2>2. Empty \in Contents
    BY DEF Empty, Contents
  <2>3. S \subseteq Contents /\ store \in [Stores -> S]
    BY <2>1, <2>2 DEF Init
  <2> HIDE DEF S
  <2> QED  BY <2>3
<1>2. InitSwitch \subseteq Switch /\ NoCall \in Calls /\ NoCall.phase = "none"
  BY DEF InitSwitch, Switch, NoCall, Calls, Answers
<1> QED  BY <1>1, <1>2, EmptySeq
            DEF Init, TypeOK, Types, Retries, Request, Entities, Greenlets

(* Type correctness: the state of the greenlets, the client, the network   *)
(* and the registries is always of the kind Types names; in particular a  *)
(* call is never tried a fourth time.                                      *)
THEOREM TypeCorrect == Spec => []TypeOK
<1>1. TypeOK /\ [Next]_vars => TypeOK'
  BY TypeStep
<1> QED
  BY InitType, <1>1, PTL DEF Spec
-------------------------------------------------------------------------------
(* Where the greenlets can be. *)

(* The theorem below is about one database behind all hrefs, a node that   *)
(* the client registers once, and requests that are served before they     *)
(* time out or not at all.                                                 *)
Restrictions ==
  /\ \A s, t \in Stores : s = t
  /\ MaxNodeRegs <= 1
  /\ "late" \notin Faults

(* What Send and Rest leave, as Control sees it. *)
LEMMA SendControl ==
  ASSUME TypeOK, NEW g \in Greenlets, NEW place \in Places,
         NEW agg \in Hrefs \cup {NoHref}
  PROVE  /\ Send(g, place, agg) => /\ pc' = [pc EXCEPT ![g] = place]
                                   /\ call'[g].phase \in {"resolve", "request"}
                                   /\ call'[g].answer = "ok"
                                   /\ \A h \in Greenlets \ {g} : call'[h] = call[h]
         /\ Rest(g, place) => /\ pc' = [pc EXCEPT ![g] = place]
                              /\ call'[g].phase = "none"
                              /\ \A h \in Greenlets \ {g} : call'[h] = call[h]
<1>1. call \in [Greenlets -> Calls]
  BY DEF TypeOK, Types
<1>2. /\ Attempt(0, agg).phase \in {"resolve", "request"} /\ NoCall.phase = "none"
      /\ Attempt(0, agg).answer = "ok"
  BY AttemptType
<1> QED  BY <1>1, <1>2 DEF Send, Rest

(* The queue's entries after each way of changing it. *)
LEMMA QueueEntries ==
  ASSUME queue \in Seq(Item)
  PROVE  /\ \A item \in Item : queue' = Append(queue, item) =>
              /\ DOMAIN queue' = 1..Len(queue) + 1 /\ DOMAIN queue = 1..Len(queue)
              /\ \A i \in 1..Len(queue) : queue'[i] = queue[i]
              /\ queue'[Len(queue) + 1] = item
         /\ queue # << >> /\ queue' = Tail(queue) =>
              /\ Len(queue) \in Nat \ {0}
              /\ DOMAIN queue = 1..Len(queue) /\ DOMAIN queue' = 1..Len(queue) - 1
              /\ \A i \in 1..Len(queue) - 1 : queue'[i] = queue[i + 1]
              /\ Head(queue) = queue[1] /\ Head(queue) \in Item
         /\ \A tail \in Seq(Item) : queue' = queue \o tail =>
              /\ DOMAIN queue' = 1..Len(queue) + Len(tail)
              /\ DOMAIN queue = 1..Len(queue) /\ DOMAIN tail = 1..Len(tail)
              /\ \A i \in 1..Len(queue) : queue'[i] = queue[i]
              /\ \A i \in 1..Len(tail) : queue'[Len(queue) + i] = tail[i]
  BY AppendProperties, HeadTailProperties, ConcatProperties, LenProperties

(* The requests of different entities, and their two methods, differ. *)
LEMMA ItemsDiffer ==
  /\ \A k \in Keys : Post(k) # Post(Node)
  /\ \A j, k \in Entities : Delete(j) # Post(k)
  /\ \A j, k \in Entities : j # k => Delete(j) # Delete(k)
  BY ParameterAssumption DEF Post, Delete

(* _SEND returning or raising keeps the greenlets where they may be. *)
LEMMA ReturnControl ==
  ASSUME TypeOK, Control, NodeOnce, NEW g \in Greenlets, NEW out,
         NEW p \in Switch, NEW agg \in Hrefs \cup {NoHref},
         Return(g, out, p, agg), UNCHANGED <<nodeRegs, late>>
  PROVE  Control' /\ NodeOnce'
<1>1. /\ pc \in [Greenlets -> Places] /\ "hb" \in Greenlets /\ "q" \in Greenlets
      /\ "hb" # "q" /\ UNCHANGED node
      /\ \A h \in Greenlets : h = "hb" \/ h = "q"
  BY DEF TypeOK, Types, Places, Greenlets, Return
<1>2. ASSUME NEW h \in Greenlets, NEW place \in Places,
             \/ Send(h, place, agg) /\ place \notin {"sleep", "idle", "done"}
             \/ Rest(h, place) /\ place \in {"sleep", "idle", "done"},
             IF h = "hb" THEN place \in {"sleep", "post", "confirm", "done"}
                         ELSE place = "idle",
             UNCHANGED cur
      PROVE  Control'
  <2>1. /\ pc' = [pc EXCEPT ![h] = place]
        /\ call'[h].phase = "none" <=> place \in {"sleep", "idle", "done"}
        /\ \A i \in Greenlets \ {h} : call'[i] = call[i]
    BY <1>2, SendControl
  <2>2. \A i \in Greenlets :
          call'[i].phase = "none" <=> pc'[i] \in {"sleep", "idle", "done"}
    BY <1>1, <2>1 DEF Control
  <2> QED  BY <1>1, <1>2, <2>1, <2>2 DEF Control
<1>3. CASE BeatDone(out, p, agg)
  <2>1. PICK place \in {"sleep", "done"} : Rest("hb", place)
    BY <1>3 DEF BeatDone
  <2>2. Control'
    BY <1>1, <1>2, <1>3, <2>1 DEF BeatDone, Places
  <2>3. pc' = [pc EXCEPT !["hb"] = place] /\ registered' \in BOOLEAN
        /\ (registered' => registered) /\ UNCHANGED queue
    BY <1>3, <2>1 DEF BeatDone, Rest, TypeOK, Types
  <2> QED  BY <1>1, <2>1, <2>2, <2>3 DEF NodeOnce, NodePostQueued
<1>4. CASE ClearDone(out, p, agg)
  <2>1. /\ \/ Rest("hb", "sleep") /\ registered' = registered
           \/ Rest("hb", "sleep") /\ ~registered'
           \/ Send("hb", "post", agg) /\ ~registered' /\ queue' = << >>
        /\ UNCHANGED cur
    BY <1>4 DEF ClearDone
  <2>2. Control'
    <3>1. CASE Rest("hb", "sleep")
      BY <1>1, <1>2, <2>1, <3>1 DEF Places
    <3>2. CASE Send("hb", "post", agg)
      BY <1>1, <1>2, <2>1, <3>2 DEF Places
    <3> QED  BY <2>1, <3>1, <3>2
  <2>3. pc["hb"] = "clear" /\ ~registered /\ nodeRegs # 0
    BY <1>4 DEF ClearDone, NodeOnce
  <2>4. queue' = << >> => ~NodePostQueued'
    BY DEF NodePostQueued
  <2>5. \/ pc' = [pc EXCEPT !["hb"] = "sleep"] /\ ~registered'
        \/ pc' = [pc EXCEPT !["hb"] = "post"] /\ ~registered' /\ queue' = << >>
    <3>1. /\ Rest("hb", "sleep") => pc' = [pc EXCEPT !["hb"] = "sleep"]
          /\ Send("hb", "post", agg) => pc' = [pc EXCEPT !["hb"] = "post"]
      BY DEF Rest, Send
    <3> QED  BY <2>1, <2>3, <3>1
  <2> QED  BY <1>1, <2>2, <2>3, <2>4, <2>5 DEF NodeOnce
<1>5. CASE PostDone(out, p, agg)
  <2>1. (Rest("hb", "sleep") \/ Send("hb", "confirm", agg)) /\ UNCHANGED cur
    BY <1>5 DEF PostDone
  <2>2. Control'
    <3>1. CASE Rest("hb", "sleep")
      BY <1>1, <1>2, <2>1, <3>1 DEF Places
    <3>2. CASE Send("hb", "confirm", agg)
      BY <1>1, <1>2, <2>1, <3>2 DEF Places
    <3> QED  BY <2>1, <3>1, <3>2
  <2>3. /\ pc' = [pc EXCEPT !["hb"] = "sleep"] \/ pc' = [pc EXCEPT !["hb"] = "confirm"]
        /\ UNCHANGED <<registered, queue>> /\ pc["hb"] = "post"
    BY <1>5, <2>1 DEF PostDone, Rest, Send
  <2> QED  BY <1>1, <2>2, <2>3 DEF NodeOnce, NodePostQueued
<1>6. CASE ConfirmDone(out, p, agg)
  <2>1. Control'
    BY <1>1, <1>2, <1>6 DEF ConfirmDone, Places
  <2>2. ~NodePostQueued'
    <3>1. ~NodePostQueued
      BY <1>6 DEF ConfirmDone, NodeOnce
    <3>2. CASE UNCHANGED queue
      BY <3>1, <3>2 DEF NodePostQueued
    <3>3. ASSUME NEW f \in RequeueOrders(Mirrored), queue' = queue \o Posts(f)
          PROVE  ~NodePostQueued'
      <4> DEFINE tail == Posts(f)
      <4>1. tail \in Seq(Item) /\ \A i \in DOMAIN tail : tail[i] # Post(Node)
        BY <3>3, Requeue, ItemsDiffer
      <4>0. queue' = queue \o tail
        BY <3>3
      <4> HIDE DEF tail
      <4>2. /\ DOMAIN queue' = 1..Len(queue) + Len(tail)
            /\ DOMAIN queue = 1..Len(queue) /\ DOMAIN tail = 1..Len(tail)
            /\ \A i \in 1..Len(queue) : queue'[i] = queue[i]
            /\ \A i \in 1..Len(tail) : queue'[Len(queue) + i] = tail[i]
            /\ Len(queue) \in Nat /\ Len(tail) \in Nat
        BY <4>0, <4>1, QueueEntries, LenProperties DEF TypeOK, Types
      <4>3. \A i \in DOMAIN queue' :
              i \in 1..Len(queue) \/ (i - Len(queue) \in 1..Len(tail)
                                      /\ i = Len(queue) + (i - Len(queue)))
        BY <4>2
      <4> QED  BY <3>1, <4>1, <4>2, <4>3 DEF NodePostQueued
    <3> QED  BY <1>6, <3>2, <3>3 DEF ConfirmDone
  <2>3. pc' = [pc EXCEPT !["hb"] = "sleep"] /\ nodeRegs # 0
    BY <1>6 DEF ConfirmDone, Rest, NodeOnce
  <2> QED  BY <1>1, <2>1, <2>2, <2>3 DEF NodeOnce
<1>7. CASE ResourceDone(out, p, agg) \/ DeleteDone(out, p, agg)
  <2>1. Rest("q", "idle") /\ UNCHANGED <<queue, cur>> /\ (registered' => registered)
    BY <1>7 DEF ResourceDone, DeleteDone, TypeOK, Types
  <2>2. Control'
    BY <1>1, <1>2, <2>1 DEF Places
  <2>3. pc' = [pc EXCEPT !["q"] = "idle"]
    BY <2>1 DEF Rest
  <2> QED  BY <1>1, <2>1, <2>2, <2>3 DEF NodeOnce, NodePostQueued
<1> QED
  BY <1>3, <1>4, <1>5, <1>6, <1>7 DEF Return, NodeDone, NodeBeatDone, NodeOnce

(* Inside _SEND a greenlet stays where it is. *)
LEMMA PhaseStep ==
  ASSUME TypeOK, Control, NodeOnce, NEW g \in Greenlets, NEW c \in Calls,
         call' = [call EXCEPT ![g] = c], call[g].phase # "none", c.phase # "none",
         UNCHANGED <<node, registered, queue, pc, cur, late, nodeRegs>>
  PROVE  Control' /\ NodeOnce'
<1>1. call \in [Greenlets -> Calls]
  BY DEF TypeOK, Types
<1>2. \A h \in Greenlets : call'[h].phase = "none" <=> call[h].phase = "none"
  BY <1>1
<1> QED  BY <1>2 DEF Control, NodeOnce, NodePostQueued

(* One step keeps Control and NodeOnce. *)
LEMMA ControlStep ==
  Restrictions /\ TypeOK /\ Control /\ NodeOnce /\ [Next]_vars
    => Control' /\ NodeOnce'
<1> SUFFICES ASSUME Restrictions, TypeOK, Control, NodeOnce, [Next]_vars
             PROVE  Control' /\ NodeOnce'
  OBVIOUS
<1> USE DEF client, network, budget
<1>1. /\ pc \in [Greenlets -> Places] /\ call \in [Greenlets -> Calls]
      /\ queue \in Seq(Item) /\ p2p \in Switch
      /\ aggregator \in Hrefs \cup {NoHref}
      /\ "hb" \in Greenlets /\ "q" \in Greenlets
      /\ \A h \in Greenlets : h = "hb" \/ h = "q"
  BY DEF TypeOK, Types, Places, Greenlets
<1>2. CASE Wake
  <2>1. /\ \/ Rest("hb", "done") /\ registered' = registered
           \/ Send("hb", "clear", aggregator) /\ ~registered' /\ node
           \/ Send("hb", "beat", aggregator) /\ registered' = registered /\ node
           \/ UNCHANGED <<pc, call>> /\ (registered' => registered)
        /\ UNCHANGED <<node, queue, cur, late, nodeRegs>> /\ pc["hb"] = "sleep"
    BY <1>2 DEF Wake
  <2>2. CASE Rest("hb", "done") /\ registered' = registered
    <3>1. /\ pc' = [pc EXCEPT !["hb"] = "done"] /\ call'["hb"].phase = "none"
          /\ call'["q"] = call["q"]
      BY <1>1, <2>2, SendControl DEF Places
    <3> QED  BY <1>1, <2>1, <2>2, <3>1 DEF Control, NodeOnce, NodePostQueued
  <2>3. CASE Send("hb", "clear", aggregator) /\ ~registered' /\ node
    <3>1. /\ pc' = [pc EXCEPT !["hb"] = "clear"] /\ call'["hb"].phase # "none"
          /\ call'["q"] = call["q"]
      BY <1>1, <2>3, SendControl DEF Places
    <3> QED  BY <1>1, <2>1, <2>3, <3>1 DEF Control, NodeOnce, NodePostQueued
  <2>4. CASE Send("hb", "beat", aggregator) /\ registered' = registered /\ node
    <3>1. /\ pc' = [pc EXCEPT !["hb"] = "beat"] /\ call'["hb"].phase # "none"
          /\ call'["q"] = call["q"]
      BY <1>1, <2>4, SendControl DEF Places
    <3> QED  BY <1>1, <2>1, <2>4, <3>1 DEF Control, NodeOnce, NodePostQueued
  <2>5. CASE UNCHANGED <<pc, call>> /\ (registered' => registered)
    BY <1>1, <2>1, <2>5 DEF Control, NodeOnce, NodePostQueued
  <2> QED  BY <2>1, <2>2, <2>3, <2>4, <2>5
<1>3. CASE Take
  <2>1. /\ pc["q"] = "idle" /\ registered
        /\ UNCHANGED <<node, registered, late, nodeRegs>>
    BY <1>3 DEF Take
  <2>0. PICK n \in 1..Len(queue) : Taken(n)
    BY <1>3, TakeTakes DEF TypeOK
  <2>2. /\ Len(queue) \in Nat /\ DOMAIN queue = 1..Len(queue)
        /\ queue[n] \in Item /\ DOMAIN queue' = 1..Len(queue) - n
        /\ \A i \in 1..Len(queue) - n : queue'[i] = queue[i + n]
        /\ \/ UNCHANGED <<pc, call, cur>>
           \/ /\ cur' = RequestFor(queue[n])
              /\ Send("q", PlaceOf(queue[n]), aggregator)
    BY <2>0 DEF Taken
  <2> DEFINE item == queue[n]
  <2>3. item # Post(Node) /\ ~NodePostQueued'
    BY <2>1, <2>2 DEF NodeOnce, NodePostQueued
  <2>4. PlaceOf(item) \in {"delete", "res"}
    <3>1. item.method = "POST" /\ item.key = Node => item = Post(Node)
      BY <2>2 DEF Item, Post
    <3> QED BY <2>2, <2>3, <3>1, TakenItem
  <2>5. CASE UNCHANGED <<pc, call, cur>>
    BY <2>1, <2>3, <2>5 DEF Control, NodeOnce
  <2>6. CASE Send("q", PlaceOf(item), aggregator) /\ cur' = RequestFor(item)
    <3>1. /\ pc' = [pc EXCEPT !["q"] = PlaceOf(item)] /\ call'["q"].phase # "none"
          /\ call'["hb"] = call["hb"]
      BY <1>1, <2>4, <2>6, SendControl DEF Places
    <3>2. /\ PlaceOf(item) = "res" => cur'.method = "POST" /\ cur'.key \in Keys
          /\ PlaceOf(item) = "delete" => cur'.method = "DELETE"
      BY <2>2, <2>6, TakenItem
    <3> HIDE DEF item
    <3> QED  BY <1>1, <2>1, <2>3, <2>4, <3>1, <3>2 DEF Control, NodeOnce
  <2> QED  BY <2>2, <2>5, <2>6
<1>4. CASE QueueEnds
  <2>1. /\ pc' = [pc EXCEPT !["q"] = "done"] /\ call'["q"].phase = "none"
        /\ call'["hb"] = call["hb"] /\ pc["q"] = "idle"
        /\ UNCHANGED <<node, registered, queue, cur, late, nodeRegs>>
    BY <1>1, <1>4, SendControl DEF QueueEnds, Places
  <2> QED  BY <1>1, <2>1 DEF Control, NodeOnce, NodePostQueued
<1>5. ASSUME NEW g \in Greenlets, NEW href \in Hrefs \cup {NoHref}, Resolve(g, href)
      PROVE  Control' /\ NodeOnce'
  <2>1. UNCHANGED <<nodeRegs, late>> /\ call[g].phase # "none"
    BY <1>5 DEF Resolve, Spend
  <2>2. CASE Return(g, "failed", Raised(p2p), href)
    BY <1>1, <2>1, <2>2, ReturnControl, SwitchType
  <2>3. CASE /\ ~GivesUp(call[g].tries, href)
             /\ call' = [call EXCEPT ![g] = Attempt(call[g].tries, href)]
             /\ UNCHANGED <<client, registered, queue, running, p2p, pc, cur>>
    <3>1. call[g].tries \in 0..3
      BY <1>1 DEF Calls
    <3> QED  BY <2>1, <2>3, <3>1, AttemptType, PhaseStep
  <2> QED  BY <1>5, <2>2, <2>3 DEF Resolve
<1>6. ASSUME NEW g \in Greenlets, Deliver(g) PROVE Control' /\ NodeOnce'
  <2>1. UNCHANGED <<nodeRegs, late>> /\ call[g].phase = "answered"
    BY <1>6 DEF Deliver
  <2>2. CASE \E out : \E p \in Switch : Return(g, out, p, aggregator)
    BY <1>1, <2>1, <2>2, ReturnControl
  <2>3. CASE /\ call' = [call EXCEPT ![g].phase = "resolve", ![g].tries = @ + 1]
             /\ UNCHANGED <<client, registered, queue, running, aggregator, p2p,
                            pc, cur>>
    <3>1. /\ DOMAIN call' = Greenlets
          /\ \A h \in Greenlets : h # g => call'[h] = call[h]
          /\ call'[g].phase = "resolve"
      BY <1>1, <2>3 DEF Calls
    <3>2. \A h \in Greenlets : call'[h].phase = "none" <=> call[h].phase = "none"
      BY <2>1, <3>1
    <3> QED  BY <2>1, <2>3, <3>2 DEF Control, NodeOnce, NodePostQueued
  <2> QED  BY <1>1, <1>6, <2>2, <2>3, SwitchType DEF Deliver
<1>7. ASSUME NEW g \in Greenlets, NEW a, Answered(g, a),
             call[g].phase \in {"request", "answered"}, UNCHANGED <<late, nodeRegs>>
      PROVE  Control' /\ NodeOnce'
  <2>1. call'[g].phase = "answered" /\ \A h \in Greenlets \ {g} : call'[h] = call[h]
    BY <1>1, <1>7 DEF Answered, Calls
  <2>2. \A h \in Greenlets : call'[h].phase = "none" <=> call[h].phase = "none"
    BY <1>7, <2>1
  <2> QED  BY <1>7, <2>2 DEF Answered, Control, NodeOnce, NodePostQueued
<1>8. ASSUME NEW g \in Greenlets, Serve(g) \/ Fail(g) \/ Refuse(g) \/ Lose(g)
      PROVE  Control' /\ NodeOnce'
  BY <1>7, <1>8 DEF Serve, Fail, Refuse, Lose, Spend
<1>9. ASSUME NEW g \in Greenlets, TimeOut(g) PROVE FALSE
  BY <1>9 DEF TimeOut, Spend, Restrictions
<1>10. CASE ServeLate
  BY <1>10 DEF ServeLate, NodeOnce
<1>11. CASE (\E s \in Stores : Forget(s)) \/ Outage \/ Stop
  BY <1>1, <1>11 DEF Forget, Outage, Spend, Stop, Control, NodeOnce, NodePostQueued
<1>12. ASSUME NEW item \in Item, Enqueue(item), item # Post(Node),
              node' => node, UNCHANGED nodeRegs
       PROVE  Control' /\ NodeOnce'
  <2>1. NodePostQueued' => NodePostQueued
    BY <1>1, <1>12, QueueEntries, LenProperties DEF Enqueue, NodePostQueued
  <2> QED  BY <1>1, <1>12, <2>1 DEF Enqueue, Control, NodeOnce
<1>13. CASE Client
  <2>1. \A k \in Entities : Post(k) \in Item /\ Delete(k) \in Item
    BY DEF Post, Delete, Item
  <2>2. CASE RegisterNode
    <3>1. nodeRegs = 0 /\ nodeRegs' = 1
      BY <2>2, ParameterAssumption
         DEF RegisterNode, Count, Restrictions, TypeOK, Types
    <3>2. ~registered /\ pc["hb"] \in {"sleep", "done"}
      BY <3>1 DEF NodeOnce
    <3> QED  BY <2>2, <3>1, <3>2 DEF RegisterNode, Enqueue, Control, NodeOnce
  <2>3. CASE UnregisterNode
    BY <1>12, <2>1, <2>3, ItemsDiffer DEF UnregisterNode, Entities
  <2>4. ASSUME NEW k \in Keys, NEW d \in Data, Register(k, d)
        PROVE  Control' /\ NodeOnce'
    BY <1>12, <2>1, <2>4, ItemsDiffer DEF Register, Entities
  <2>5. ASSUME NEW k \in Keys, Unregister(k) PROVE Control' /\ NodeOnce'
    BY <1>12, <2>1, <2>5, ItemsDiffer DEF Unregister, Entities
  <2> QED  BY <1>11, <1>13, <2>2, <2>3, <2>4, <2>5 DEF Client
<1>14. CASE UNCHANGED vars
  BY <1>14 DEF vars, Control, NodeOnce, NodePostQueued
<1>15. ASSUME NEW g \in Greenlets, Garble(g) PROVE Control' /\ NodeOnce'
  <2>1. UNCHANGED <<nodeRegs, late>> /\ Return(g, "failed", p2p, aggregator)
    BY <1>15 DEF Garble, Spend
  <2> QED  BY <1>1, <2>1, ReturnControl
<1> QED
  BY <1>2, <1>3, <1>4, <1>5, <1>6, <1>8, <1>9, <1>10, <1>11, <1>13, <1>14, <1>15
     DEF Next, Step, Fault, Terminated
-------------------------------------------------------------------------------
(* Every mirrored resource stays covered. *)

(* A resource stays covered while the queue, the queue greenlet's request, *)
(* the registry and the mirror's copy do not change, and no answer arrives *)
(* that says "ok".                                                         *)
LEMMA CoveredFrame ==
  ASSUME NEW k \in Keys, NEW s \in Stores, Covered(k, s),
         mirror'[k] = mirror[k], pc'["q"] = pc["q"],
         UNCHANGED <<queue, cur, store>>,
         call'["q"].phase = "answered" /\ call'["q"].answer = "ok" =>
           call["q"].phase = "answered" /\ call["q"].answer = "ok"
  PROVE  Covered(k, s)'
<1>1. Pending(k)' <=> Pending(k)
  BY DEF Pending
<1>2. DeleteQueued(k)' <=> DeleteQueued(k)
  BY DEF DeleteQueued
<1>3. Sending(k)' <=> Sending(k)
  BY DEF Sending
<1>4. Stored(k, s)' <=> Stored(k, s)
  BY DEF Stored
<1>5. InFlight(k, s) => InFlight(k, s)'
  BY <1>2, <1>4 DEF InFlight
<1> QED  BY <1>1, <1>2, <1>3, <1>4, <1>5 DEF Covered

(* The queue greenlet ends a request for a resource: whatever was covered  *)
(* otherwise than by that request still is.                                *)
LEMMA CoveredAtRest ==
  ASSUME NEW k \in Keys, NEW s \in Stores, Covered(k, s),
         mirror'[k] = mirror[k], pc'["q"] \in {"idle", "done"},
         UNCHANGED <<queue, store>>,
         InFlight(k, s) => call["q"].phase = "answered" /\ call["q"].answer = "ok"
  PROVE  Covered(k, s)'
<1>1. (Pending(k)' <=> Pending(k)) /\ (DeleteQueued(k)' <=> DeleteQueued(k))
  BY DEF Pending, DeleteQueued
<1>2. ~Sending(k)' /\ (Stored(k, s)' <=> Stored(k, s))
  BY DEF Sending, Stored
<1>3. InFlight(k, s) => Stored(k, s) /\ ~DeleteQueued(k)
  BY DEF InFlight
<1> QED  BY <1>1, <1>2, <1>3 DEF Covered

(* A call of the client that queues anything but a DELETE of a resource    *)
(* leaves the resource covered.                                            *)
LEMMA CoveredEnqueue ==
  ASSUME NEW k \in Keys, NEW s \in Stores, NEW item \in Item, queue \in Seq(Item),
         Covered(k, s), item # Delete(k), mirror'[k] = mirror[k],
         queue' = Append(queue, item), UNCHANGED <<pc, call, cur, store>>
  PROVE  Covered(k, s)'
<1>1. /\ DOMAIN queue' = 1..Len(queue) + 1 /\ DOMAIN queue = 1..Len(queue)
      /\ \A i \in 1..Len(queue) : queue'[i] = queue[i]
      /\ queue'[Len(queue) + 1] = item /\ Len(queue) \in Nat
  BY QueueEntries, LenProperties
<1>2. Pending(k) => Pending(k)'
  BY <1>1 DEF Pending
<1>3. ~DeleteQueued(k) => ~DeleteQueued(k)'
  BY <1>1 DEF DeleteQueued
<1>4. (Sending(k)' <=> Sending(k)) /\ (Stored(k, s)' <=> Stored(k, s))
  BY DEF Sending, Stored
<1>5. InFlight(k, s) => InFlight(k, s)'
  BY <1>3, <1>4 DEF InFlight
<1> QED  BY <1>2, <1>3, <1>4, <1>5 DEF Covered

(* _SEND returning or raising leaves the mirrored resources covered.       *)
LEMMA ReturnCovered ==
  ASSUME IInv, NEW g \in Greenlets, NEW out \in Answers, NEW p, NEW agg,
         Return(g, out, p, agg), UNCHANGED store,
         out = "ok" => call[g].phase = "answered" /\ call[g].answer = "ok"
  PROVE  MirrorCovered'
<1> SUFFICES ASSUME NEW k \in Keys, NEW s \in Stores,
                    registered', node', mirror'[k] # None
             PROVE  Covered(k, s)'
  BY DEF MirrorCovered
<1>1. /\ node /\ pc \in [Greenlets -> Places] /\ queue \in Seq(Item)
      /\ "hb" \in Greenlets /\ "q" \in Greenlets
      /\ mirror \in [Keys -> Data \cup {None}] /\ call \in [Greenlets -> Calls]
  BY DEF Return, IInv, TypeOK, Types, Places, Greenlets
<1>2. registered /\ mirror[k] # None => Covered(k, s)
  BY <1>1 DEF IInv, MirrorCovered
<1>3. CASE BeatDone(out, p, agg)
  <2>1. /\ registered /\ UNCHANGED <<queue, mirror, cur>>
        /\ pc'["q"] = pc["q"] /\ call'["q"] = call["q"]
    BY <1>1, <1>3 DEF BeatDone, Rest, Greenlets
  <2> QED  BY <1>2, <2>1, CoveredFrame
<1>4. CASE ClearDone(out, p, agg) \/ PostDone(out, p, agg)
  BY <1>4 DEF ClearDone, PostDone, IInv, NodeOnce
<1>5. CASE ConfirmDone(out, p, agg)
  <2>1. PICK f \in RequeueOrders(Mirrored) : queue' = queue \o Posts(f)
    BY <1>5 DEF ConfirmDone, IInv, NodeOnce
  <2>2. k \in Mirrored
    BY <1>5 DEF ConfirmDone, Mirrored
  <2> DEFINE tail == Posts(f)
  <2>3. /\ tail \in Seq(Item)
        /\ \A i \in DOMAIN tail : tail[i] # Delete(k)
        /\ \E i \in DOMAIN tail : tail[i] = Post(k)
    BY <2>2, Requeue, ItemsDiffer DEF Entities
  <2>4. queue' = queue \o tail
    BY <2>1
  <2> HIDE DEF tail
  <2>5. /\ DOMAIN queue' = 1..Len(queue) + Len(tail) /\ DOMAIN tail = 1..Len(tail)
        /\ \A i \in 1..Len(tail) : queue'[Len(queue) + i] = tail[i]
        /\ Len(queue) \in Nat /\ Len(tail) \in Nat
    BY <1>1, <2>3, <2>4, QueueEntries, LenProperties
  <2>6. PICK i \in 1..Len(tail) : tail[i] = Post(k)
    BY <2>3, <2>5
  <2>7. Len(queue) + i \in DOMAIN queue' /\ queue'[Len(queue) + i] = Post(k)
    BY <2>5, <2>6
  <2>8. \A j \in DOMAIN queue' : j > Len(queue) + i => queue'[j] # Delete(k)
    <3> SUFFICES ASSUME NEW j \in DOMAIN queue', j > Len(queue) + i
                 PROVE  queue'[j] # Delete(k)
      OBVIOUS
    <3>1. j - Len(queue) \in 1..Len(tail) /\ j = Len(queue) + (j - Len(queue))
      BY <2>5, <2>6
    <3> QED  BY <2>3, <2>5, <3>1
  <2>9. Pending(k)'
    BY <2>7, <2>8 DEF Pending
  <2> QED  BY <2>9 DEF Covered
<1>6. CASE g = "q" /\ ResourceDone(out, p, agg)
  <2>1. /\ pc["q"] = "res" /\ pc'["q"] = "idle" /\ UNCHANGED queue
        /\ registered /\ out # "failed"
    BY <1>1, <1>6 DEF ResourceDone, Rest, Greenlets
  <2>2. mirror'[k] = mirror[k] /\ (k = cur.key => out \notin {"400", "404"})
    BY <1>1, <1>6 DEF ResourceDone
  <2>3. InFlight(k, s) => k = cur.key
    BY DEF InFlight
  <2>4. InFlight(k, s) => call["q"].phase = "answered" /\ call["q"].answer = "ok"
    BY <1>6, <2>1, <2>2, <2>3 DEF Answers
  <2> QED  BY <1>2, <2>1, <2>2, <2>4, CoveredAtRest
<1>7. CASE DeleteDone(out, p, agg)
  <2>1. /\ pc["q"] = "delete" /\ pc'["q"] = "idle" /\ UNCHANGED <<queue, mirror>>
        /\ registered
    BY <1>1, <1>7 DEF DeleteDone, Rest, Greenlets
  <2>2. ~InFlight(k, s)
    BY <2>1 DEF InFlight
  <2> QED  BY <1>2, <2>1, <2>2, CoveredAtRest
<1> QED
  BY <1>3, <1>4, <1>5, <1>6, <1>7 DEF Return, NodeDone, NodeBeatDone, IInv, NodeOnce

(* A registry serves a request of the queue greenlet: the resource of the  *)
(* request is stored or deleted, every other resource is left alone.       *)
LEMMA QueueServed ==
  ASSUME IInv, Restrictions, Serve("q"), NEW k \in Keys, NEW s \in Stores,
         mirror[k] # None, Covered(k, s)
  PROVE  Covered(k, s)'
<1>1. /\ "q" \in Greenlets /\ call \in [Greenlets -> Calls]
      /\ store \in [Stores -> Contents] /\ cur \in Request
  BY DEF IInv, TypeOK, Types, Greenlets
<1>2. call["q"].phase = "request" /\ Backend[call["q"].to] = s
  BY <1>1, ParameterAssumption DEF Serve, IInv, TypeOK, Retries, Restrictions
<1>3. pc["q"] \in {"res", "delete"} /\ Sent("q") = cur
  BY <1>1, <1>2 DEF IInv, Control, NodeOnce, Sent
<1>4. /\ call'["q"].phase = "answered" /\ call'["q"].answer = AnswerTo(store[s], cur)
      /\ store'[s] = After(store[s], cur)
      /\ UNCHANGED <<queue, mirror, pc, cur>>
  BY <1>1, <1>2, <1>3 DEF Serve, Answered, Calls, client
<1>5. (Pending(k)' <=> Pending(k)) /\ (DeleteQueued(k)' <=> DeleteQueued(k))
  BY <1>4 DEF Pending, DeleteQueued
<1>6. Sending(k)' <=> Sending(k)
  BY <1>4 DEF Sending
<1>7. CASE ~Accepts(store[s], cur)
  <2>1. store'[s] = store[s] /\ call'["q"].answer # "ok"
    BY <1>4, <1>7 DEF After, AnswerTo
  <2>2. InFlight(k, s) => InFlight(k, s)'
    BY <1>4, <1>5, <2>1 DEF InFlight
  <2>3. Stored(k, s)' <=> Stored(k, s)
    BY <1>4, <2>1 DEF Stored
  <2> QED  BY <1>5, <1>6, <2>1, <2>2, <2>3 DEF Covered
<1>8. CASE Accepts(store[s], cur) /\ cur.key = Node
  <2>1. cur.method = "DELETE" /\ store'[s] = Empty
    BY <1>3, <1>4, <1>8, ParameterAssumption DEF After, IInv, Control
  <2> QED  BY <2>1 DEF Covered, Empty
<1>9. CASE Accepts(store[s], cur) /\ cur.key # Node
  <2>1. /\ cur.key \in Keys /\ cur.method \in {"POST", "DELETE"}
        /\ pc["q"] = "res" <=> cur.method = "POST"
    BY <1>1, <1>3, <1>9 DEF Request, Entities, IInv, Control
  <2>2. store'[s] = [store[s] EXCEPT !.res[cur.key] = cur.data]
    BY <1>4, <1>9, <2>1 DEF After
  <2>3. /\ store'[s].node = store[s].node
        /\ store'[s].res[cur.key] = cur.data
        /\ k # cur.key => store'[s].res[k] = store[s].res[k]
    BY <1>1, <2>1, <2>2 DEF Contents
  <2>4. CASE Pending(k) \/ ~store[s].node
    BY <1>5, <2>3, <2>4 DEF Covered
  <2>5. CASE InFlight(k, s)
    <3>1. Stored(k, s)'
      BY <1>4, <2>3, <2>5 DEF InFlight, Stored
    <3> QED  BY <1>4, <1>5, <2>5, <3>1 DEF InFlight, Covered
  <2>6. CASE Stored(k, s) /\ ~DeleteQueued(k) /\ ~Sending(k)
    <3>1. k # cur.key
      BY <1>3, <2>6 DEF Sending
    <3> QED  BY <1>4, <1>5, <1>6, <2>3, <2>6, <3>1 DEF Stored, Covered
  <2> QED  BY <2>4, <2>5, <2>6 DEF Covered
<1> QED  BY <1>7, <1>8, <1>9

(* The queue greenlet takes from the queue: a pending POST moves up or     *)
(* becomes the request; it is not skipped.                                 *)
LEMMA TakeCovered ==
  ASSUME IInv, Take, NEW k \in Keys, NEW s \in Stores,
         mirror[k] # None, Covered(k, s)
  PROVE  Covered(k, s)'
<1>1. /\ pc["q"] = "idle" /\ "q" \in Greenlets /\ pc \in [Greenlets -> Places]
      /\ call \in [Greenlets -> Calls] /\ aggregator \in Hrefs \cup {NoHref}
      /\ UNCHANGED <<mirror, store>>
  BY DEF Take, IInv, TypeOK, Types, Greenlets, Places, client, network
<1>2. PICK n \in 1..Len(queue) : Taken(n)
  BY TakeTakes DEF IInv, TypeOK
<1>3. /\ Len(queue) \in Nat /\ DOMAIN queue = 1..Len(queue)
      /\ queue[n] \in Item /\ DOMAIN queue' = 1..Len(queue) - n
      /\ \A i \in 1..Len(queue) - n : queue'[i] = queue[i + n]
      /\ \A i \in 1..n - 1 : Skipped(queue[i])
      /\ \/ Skipped(queue[n]) /\ n = Len(queue) /\ UNCHANGED <<pc, call, cur>>
         \/ /\ ~Skipped(queue[n]) /\ cur' = RequestFor(queue[n])
            /\ Send("q", PlaceOf(queue[n]), aggregator)
  BY <1>2 DEF Taken
<1> DEFINE item == queue[n]
<1>4. ~Skipped(Post(k)) /\ ~Skipped(Delete(k))
  BY ParameterAssumption DEF Skipped, Post, Delete
<1>5. PlaceOf(item) \in {"delete", "node", "res"}
  BY <1>3, TakenItem
<1>6. /\ Send("q", PlaceOf(item), aggregator) =>
           /\ pc'["q"] = PlaceOf(item) /\ call'["q"].phase \in {"resolve", "request"}
  BY <1>1, <1>5, SendControl DEF IInv, Places
<1>7. /\ item = Post(k) => PlaceOf(item) = "res"
      /\ PlaceOf(item) = "res" => item.key \in Keys /\ item.method = "POST"
      /\ RequestFor(item).method = item.method /\ RequestFor(item).key = item.key
      /\ PlaceOf(item) = "res" => RequestFor(item).data = mirror[item.key]
  <2>1. item = Post(k) => item.method = "POST" /\ item.key # Node
    BY ParameterAssumption DEF Post
  <2>2. item = Post(k) => PlaceOf(item) = "res"
    BY <1>3, <2>1, TakenItem
  <2> QED BY <1>3, <2>2, TakenItem
<1>8. n \in Int /\ n >= 1 /\ n <= Len(queue) /\ Len(queue) \in Int
  <2>1. Len(queue) \in Nat
    BY <1>3
  <2> QED BY <2>1
<1>9. ASSUME NEW j \in DOMAIN queue'
       PROVE  j + n \in DOMAIN queue /\ queue'[j] = queue[j + n]
  <2>1. j \in 1..Len(queue) - n
    BY <1>3, <1>9
  <2>2. j + n \in 1..Len(queue)
    BY <1>8, <2>1
  <2> QED BY <1>3, <2>1, <2>2
<1>10. ~DeleteQueued(k) => ~DeleteQueued(k)'
  BY <1>9 DEF DeleteQueued
<1>11. Stored(k, s)' <=> Stored(k, s)
  BY <1>1 DEF Stored
<1>12. ASSUME ~DeleteQueued(k)', item.key = k, PlaceOf(item) = "res",
             Send("q", "res", aggregator), cur' = RequestFor(item)
      PROVE  Covered(k, s)'
  <2>1. RequestFor(item) = [method |-> "POST", key |-> k, data |-> mirror[k]]
    BY <1>7, <1>12 DEF RequestFor
  <2>2. pc'["q"] = "res" /\ call'["q"].phase # "answered"
    BY <1>6, <1>12
  <2>3. InFlight(k, s)'
    BY <1>1, <1>12, <2>1, <2>2 DEF InFlight
  <2> QED  BY <2>3 DEF Covered
<1>13. CASE Pending(k)
  <2>1. PICK i \in 1..Len(queue) :
          queue[i] = Post(k) /\ \A j \in DOMAIN queue : j > i => queue[j] # Delete(k)
    BY <1>3, <1>13 DEF Pending
  <2>2. i >= n
    <3>1. ~Skipped(queue[i])
      BY <1>4, <2>1
    <3>2. i \notin 1..n - 1
      BY <1>3, <3>1
    <3>3. i \in Int /\ i >= 1
      BY <1>8
    <3> QED BY <1>8, <3>2, <3>3
  <2>3. CASE i = n
    <3>1. item = Post(k) /\ item.key = k /\ ~Skipped(item)
      BY <1>4, <2>1, <2>3 DEF Post
    <3>2. ASSUME NEW j \in DOMAIN queue' PROVE queue'[j] # Delete(k)
      <4>1. j \in Int /\ j >= 1 /\ j + n \in DOMAIN queue /\ queue'[j] = queue[j + n]
        BY <1>3, <1>9
      <4>2. j + n > i
        BY <1>8, <2>3, <4>1
      <4> QED BY <2>1, <4>1, <4>2
    <3>4. ~DeleteQueued(k)'
      BY <3>2 DEF DeleteQueued
    <3>3. PlaceOf(item) = "res" /\ Send("q", PlaceOf(item), aggregator) /\ cur' = RequestFor(item)
      BY <1>3, <1>7, <3>1
    <3> QED  BY <1>12, <3>1, <3>3, <3>4
  <2>4. CASE i > n
    <3>1. i - n \in DOMAIN queue' /\ queue'[i - n] = Post(k)
      BY <1>3, <2>1, <2>4
    <3>2. ASSUME NEW j \in DOMAIN queue', j > i - n PROVE queue'[j] # Delete(k)
      <4>1. j \in 1..Len(queue) - n /\ j + n \in DOMAIN queue /\ j + n > i
        BY <1>3, <2>4, <3>2
      <4> QED BY <1>3, <2>1, <4>1
    <3> QED  BY <3>1, <3>2 DEF Pending, Covered
  <2> QED  BY <1>3, <2>1, <2>2, <2>3, <2>4
<1>14. CASE Stored(k, s) /\ ~DeleteQueued(k) /\ ~Sending(k)
  <2>1. item # Delete(k)
    BY <1>3, <1>14 DEF DeleteQueued
  <2>2. CASE UNCHANGED <<pc, call, cur>>
    BY <1>10, <1>11, <1>14, <2>2 DEF Sending, Covered
  <2>3. CASE item.key # k /\ cur' = RequestFor(item)
    <3>1. ~Sending(k)'
      BY <1>7, <2>3 DEF Sending
    <3> QED  BY <1>10, <1>11, <1>14, <3>1 DEF Covered
  <2>4. CASE /\ item.key = k /\ cur' = RequestFor(item)
             /\ Send("q", PlaceOf(item), aggregator)
    <3>1. PlaceOf(item) = "delete" => item = Delete(k)
      BY <1>3, <2>4, TakenItem DEF Item, Delete
    <3>2. PlaceOf(item) = "node" => item.key = Node
      BY <1>3, TakenItem
    <3>3. PlaceOf(item) = "res"
      BY <1>5, <2>1, <2>4, <3>1, <3>2, ParameterAssumption
    <3> QED  BY <1>10, <1>12, <1>14, <2>4, <3>3
  <2> QED  BY <1>3, <2>2, <2>3, <2>4
<1>15. CASE ~store[s].node
  BY <1>1, <1>15 DEF Covered
<1> QED  BY <1>1, <1>13, <1>14, <1>15 DEF Covered, InFlight

(* One step keeps every mirrored resource covered. *)
LEMMA CoveredStep ==
  Restrictions /\ IInv /\ [Next]_vars => MirrorCovered'
<1> SUFFICES ASSUME Restrictions, IInv, [Next]_vars PROVE MirrorCovered'
  OBVIOUS
<1> USE DEF client, network, budget
<1>1. /\ pc \in [Greenlets -> Places] /\ call \in [Greenlets -> Calls]
      /\ queue \in Seq(Item) /\ mirror \in [Keys -> Data \cup {None}]
      /\ aggregator \in Hrefs \cup {NoHref}
      /\ "hb" \in Greenlets /\ "q" \in Greenlets
      /\ \A g \in Greenlets : g = "hb" \/ g = "q"
  BY DEF IInv, TypeOK, Types, Places, Greenlets
<1>2. ASSUME NEW k \in Keys, NEW s \in Stores, registered, node, mirror[k] # None
      PROVE  Covered(k, s)
  BY <1>2 DEF IInv, MirrorCovered
<1>3. ASSUME (registered' /\ node') => (registered /\ node),
             UNCHANGED <<queue, mirror, cur, store>>, pc'["q"] = pc["q"],
             call'["q"].phase = "answered" /\ call'["q"].answer = "ok" =>
               call["q"].phase = "answered" /\ call["q"].answer = "ok"
      PROVE  MirrorCovered'
  BY <1>2, <1>3, CoveredFrame DEF MirrorCovered
<1>4. CASE Wake
  <2>1. /\ (registered' => registered)
        /\ UNCHANGED <<node, queue, mirror, cur, store>>
        /\ \/ UNCHANGED <<pc, call>>
           \/ Rest("hb", "done")
           \/ \E place \in {"clear", "beat"} : Send("hb", place, aggregator)
    BY <1>4 DEF Wake
  <2>2. pc'["q"] = pc["q"] /\ call'["q"] = call["q"]
    BY <1>1, <2>1 DEF Rest, Send
  <2> QED  BY <1>3, <2>1, <2>2
<1>5. CASE Take
  <2>1. UNCHANGED <<registered, node, mirror>>
    BY <1>5 DEF Take
  <2> QED  BY <1>2, <1>5, <2>1, TakeCovered DEF MirrorCovered
<1>6. CASE QueueEnds
  <2>1. /\ pc["q"] = "idle" /\ pc'["q"] = "done"
        /\ UNCHANGED <<registered, node, mirror, queue, store>>
    BY <1>1, <1>6 DEF QueueEnds, Rest
  <2>2. \A k \in Keys, s \in Stores : ~InFlight(k, s)
    BY <2>1 DEF InFlight
  <2> QED  BY <1>2, <2>1, <2>2, CoveredAtRest DEF MirrorCovered
<1>7. ASSUME NEW g \in Greenlets, NEW href \in Hrefs \cup {NoHref}, Resolve(g, href)
      PROVE  MirrorCovered'
  <2>1. CASE Return(g, "failed", Raised(p2p), href)
    BY <1>7, <2>1, ReturnCovered DEF Resolve, Answers
  <2>2. CASE /\ call' = [call EXCEPT ![g] = Attempt(call[g].tries, href)]
             /\ UNCHANGED <<client, registered, queue, running, p2p, pc, cur>>
    <3>1. call[g].tries \in 0..3
      BY <1>1 DEF Calls
    <3>2. Attempt(call[g].tries, href).phase # "answered"
      BY <3>1, AttemptType
    <3>3. call'["q"].phase = "answered" => call'["q"] = call["q"]
      BY <1>1, <2>2, <3>2
    <3> QED  BY <1>3, <1>7, <2>2, <3>3 DEF Resolve
  <2> QED  BY <1>7, <2>1, <2>2 DEF Resolve
<1>8. ASSUME NEW g \in Greenlets, Deliver(g) PROVE MirrorCovered'
  <2>1. /\ call[g].phase = "answered" /\ call[g].answer \in Answers
        /\ UNCHANGED store
    BY <1>1, <1>8 DEF Deliver, Calls
  <2>2. ASSUME NEW p, Return(g, call[g].answer, p, aggregator) PROVE MirrorCovered'
    BY <2>1, <2>2, ReturnCovered
  <2>3. CASE /\ call[g].answer # "ok"
             /\ call' = [call EXCEPT ![g].phase = "resolve", ![g].tries = @ + 1]
             /\ UNCHANGED <<client, registered, queue, running, aggregator, p2p,
                            pc, cur>>
    <3>1. call'[g].phase = "resolve" /\ \A h \in Greenlets \ {g} : call'[h] = call[h]
      BY <1>1, <2>3 DEF Calls
    <3> QED  BY <1>1, <1>3, <2>1, <2>3, <3>1
  <2> QED  BY <1>8, <2>2, <2>3 DEF Deliver
<1>9. CASE Serve("hb")
  <2>1. Sent("hb").method = "BEAT" \/ ~registered
    <3>1. /\ pc["hb"] \in {"beat", "clear", "post", "confirm"}
          /\ pc["hb"] \in {"clear", "post", "confirm"} => ~registered
      BY <1>1, <1>9 DEF Serve, IInv, Control, NodeOnce
    <3>2. pc["hb"] = "beat" => Sent("hb").method = "BEAT"
      BY DEF Sent
    <3> QED  BY <3>1, <3>2
  <2>2. CASE ~registered
    BY <1>9, <2>2 DEF Serve, Answered, MirrorCovered
  <2>3. CASE Sent("hb").method = "BEAT"
    <3>1. After(store[Backend[call["hb"].to]], Sent("hb"))
            = store[Backend[call["hb"].to]]
      BY <2>3 DEF After
    <3>2. UNCHANGED store
      BY <1>9, <3>1 DEF Serve, IInv, TypeOK, Types
    <3>3. call'["q"] = call["q"]
      BY <1>1, <1>9 DEF Serve, Answered
    <3> QED  BY <1>3, <1>9, <3>2, <3>3 DEF Serve, Answered
  <2> QED  BY <2>1, <2>2, <2>3
<1>10. CASE Serve("q")
  <2>1. UNCHANGED <<registered, node, mirror>>
    BY <1>10 DEF Serve, Answered
  <2> QED  BY <1>2, <1>10, <2>1, QueueServed DEF MirrorCovered
<1>11. ASSUME NEW g \in Greenlets, Fail(g) \/ Refuse(g) \/ Lose(g)
       PROVE  MirrorCovered'
  <2>1. PICK a \in {"failed", "400"} : Answered(g, a) /\ UNCHANGED store
    BY <1>11 DEF Fail, Refuse, Lose
  <2>2. call'[g].answer # "ok" /\ \A h \in Greenlets \ {g} : call'[h] = call[h]
    BY <1>1, <2>1 DEF Answered, Calls
  <2> QED  BY <1>1, <1>3, <2>1, <2>2 DEF Answered
<1>12. ASSUME NEW g \in Greenlets, TimeOut(g) PROVE FALSE
  BY <1>12 DEF TimeOut, Spend, Restrictions
<1>13. CASE ServeLate
  BY <1>13 DEF ServeLate, IInv, NodeOnce
<1>14. ASSUME NEW s \in Stores, Forget(s) PROVE MirrorCovered'
  <2>1. \A t \in Stores : ~store'[t].node
    BY <1>14 DEF Forget, Restrictions, Empty, IInv, TypeOK, Types
  <2> QED  BY <2>1 DEF MirrorCovered, Covered
<1>15. CASE Client
  <2>1. \A k \in Entities : Post(k) \in Item /\ Delete(k) \in Item
    BY DEF Post, Delete, Item
  <2>2. CASE Stop
    BY <1>3, <2>2 DEF Stop
  <2>3. CASE RegisterNode
    BY <2>3, ParameterAssumption
       DEF RegisterNode, Count, Enqueue, Restrictions, IInv, TypeOK, Types,
           NodeOnce, MirrorCovered
  <2>4. CASE UnregisterNode
    BY <2>4 DEF UnregisterNode, MirrorCovered
  <2>5. ASSUME NEW k \in Keys, NEW d \in Data, Register(k, d) PROVE MirrorCovered'
    <3>1. /\ mirror' = [mirror EXCEPT ![k] = d] /\ queue' = Append(queue, Post(k))
          /\ UNCHANGED <<registered, node, pc, call, cur, store>>
      BY <2>5 DEF Register, Enqueue
    <3> SUFFICES ASSUME NEW j \in Keys, NEW s \in Stores,
                        registered, node, mirror'[j] # None
                 PROVE  Covered(j, s)'
      BY <3>1 DEF MirrorCovered
    <3>2. CASE j = k
      <4>1. /\ DOMAIN queue' = 1..Len(queue) + 1 /\ Len(queue) \in Nat
            /\ queue'[Len(queue) + 1] = Post(k)
        BY <1>1, <2>1, <3>1, QueueEntries, LenProperties DEF Entities
      <4>2. Pending(j)'
        BY <3>2, <4>1 DEF Pending
      <4> QED  BY <4>2 DEF Covered
    <3>3. CASE j # k
      <4>1. mirror'[j] = mirror[j] /\ Covered(j, s)
        BY <1>1, <1>2, <3>1, <3>3
      <4> QED
        BY <1>1, <2>1, <3>1, <4>1, ItemsDiffer, CoveredEnqueue DEF Entities
    <3> QED  BY <3>2, <3>3
  <2>6. ASSUME NEW k \in Keys, Unregister(k) PROVE MirrorCovered'
    <3>1. /\ mirror' = [mirror EXCEPT ![k] = None]
          /\ queue' = Append(queue, Delete(k))
          /\ UNCHANGED <<registered, node, pc, call, cur, store>>
      BY <2>6 DEF Unregister, Enqueue
    <3> SUFFICES ASSUME NEW j \in Keys, NEW s \in Stores,
                        registered, node, mirror'[j] # None
                 PROVE  Covered(j, s)'
      BY <3>1 DEF MirrorCovered
    <3>2. j # k /\ mirror'[j] = mirror[j]
      BY <1>1, <3>1
    <3>3. Covered(j, s) /\ Delete(k) # Delete(j)
      BY <1>2, <3>2, ItemsDiffer DEF Entities
    <3> QED  BY <1>1, <2>1, <3>1, <3>2, <3>3, CoveredEnqueue DEF Entities
  <2> QED  BY <1>15, <2>2, <2>3, <2>4, <2>5, <2>6 DEF Client
<1>16. CASE UNCHANGED vars
  BY <1>3, <1>16 DEF vars
<1>17. CASE Outage
  BY <1>3, <1>17 DEF Outage
<1>18. ASSUME NEW g \in Greenlets, Garble(g) PROVE MirrorCovered'
  BY <1>18, ReturnCovered DEF Garble, Answers
<1> QED
  BY <1>1, <1>4, <1>5, <1>6, <1>7, <1>8, <1>9, <1>10, <1>11, <1>12, <1>13, <1>14,
     <1>15, <1>16, <1>17, <1>18 DEF Next, Step, Fault, Terminated

(* MirrorCovered holds of the program, however many resources it mirrors,  *)
(* whatever the interleaving of its two greenlets and its client, and for  *)
(* any number of calls, failures, wrong refusals, lost answers and         *)
(* registry restarts: over one database, for a node registered once, and   *)
(* requests that are never served after they timed out.                    *)
THEOREM MirrorAlwaysCovered ==
  ASSUME Restrictions
  PROVE  Spec => []MirrorCovered
<1>1. Init => IInv
  <2>1. Init => TypeOK
    BY InitType
  <2>2. Init => Control /\ NodeOnce /\ MirrorCovered
    BY DEF Init, Control, NodeOnce, NodePostQueued, MirrorCovered, NoCall, Greenlets
  <2> QED  BY <2>1, <2>2 DEF IInv
<1>2. IInv /\ [Next]_vars => IInv'
  BY TypeStep, ControlStep, CoveredStep DEF IInv
<1>3. IInv => MirrorCovered
  BY DEF IInv
<1> QED  BY <1>1, <1>2, <1>3, PTL DEF Spec
-------------------------------------------------------------------------------
(* Nothing refused and nothing left behind: KeepsResources and InSync.     *)

(* The two theorems are about a client and a network that do nothing wrong: *)
(* no fault happens, the client waits while its node is being registered   *)
(* and until a parent's DELETE has gone, no resource is one the registry   *)
(* refuses, and registration_order puts a parent's type before its         *)
(* children's.                                                             *)
Undisturbed ==
  /\ Faults = {} /\ ~Hasty /\ BadData \notin Data /\ Stores # {}
  /\ \A k \in Keys : Parent[k] # Node => Rank[Parent[k]] < Rank[k]

Cleared(s) == \A k \in Keys : store[s].res[k] = None

(* Nothing is left in a registry that does not know the node. *)
Reachable == ~dead /\ \A s \in Stores : ~store[s].node => Cleared(s)

(* The parent of every mirrored resource is mirrored. *)
Closed ==
  \A k \in Keys : mirror[k] # None /\ Parent[k] # Node => mirror[Parent[k]] # None

(* Until the client unregisters the node, the queue greenlet sends only    *)
(* while the node is believed registered, and never the node's DELETE.     *)
Waiting ==
  /\ Closed /\ ~DeleteQueued(Node)
  /\ registered \/ pc["q"] \in {"idle", "done"}
  /\ pc["q"] = "delete" => cur.key # Node /\ cur.data = None

(* What the heartbeat relies on while it registers the node and beats. *)
NodeKept ==
  /\ pc["hb"] = "clear" /\ call["hb"].phase = "answered" =>
       \A s \in Stores : ~store[s].node
  /\ pc["hb"] \in {"post", "confirm"} => queue = << >> /\ \A s \in Stores : Cleared(s)
  /\ \/ registered \/ pc["hb"] = "confirm"
     \/ pc["hb"] = "post" /\ call["hb"].phase = "answered"
     => \A s \in Stores : store[s].node
  /\ registered /\ pc["hb"] = "beat" =>
       /\ call["hb"].tries = 0
       /\ call["hb"].phase = "answered" => call["hb"].answer = "ok"

(* While a DELETE of a resource is queued, no resource below it is mirrored. *)
NoOrphans ==
  \A k \in Keys : Parent[k] # Node /\ DeleteQueued(Parent[k]) => mirror[k] = None

(* The registry has p, or will have it before it serves the queue's entries. *)
Ready(p) ==
  \/ pc["q"] = "res" /\ cur.key = p
  \/ /\ \A s \in Stores : store[s].res[p] # None
     /\ ~(pc["q"] = "delete" /\ cur.key = p)

(* A queued POST comes before any DELETE of its parent p; if there is none, *)
(* p is mirrored and the registry has it by then.                           *)
Before(i, p) == \A j \in DOMAIN queue : queue[j] = Delete(p) => i < j
PostBefore(i, p) == \E j \in DOMAIN queue : j < i /\ queue[j] = Post(p)
Ahead(i, p) == ~DeleteQueued(p) => mirror[p] # None /\ (Ready(p) \/ PostBefore(i, p))
QueueOrdered ==
  \A i \in DOMAIN queue, k \in Keys :
    queue[i] = Post(k) /\ Parent[k] # Node => Before(i, Parent[k]) /\ Ahead(i, Parent[k])

(* The resource being sent is one that the registry takes. *)
Accepted ==
  pc["q"] = "res" =>
    /\ call["q"].tries = 0 /\ cur.data \in Data
    /\ IF call["q"].phase = "answered"
         THEN call["q"].answer = "ok" /\ \A s \in Stores : store[s].res[cur.key] # None
         ELSE Parent[cur.key] # Node =>
                \A s \in Stores : store[s].res[Parent[cur.key]] # None

(* A resource that is not mirrored is not in the registry, or its DELETE is *)
(* on its way.                                                              *)
Leaving(k) ==
  \/ DeleteQueued(k)
  \/ pc["q"] = "delete" /\ cur.key = k /\ call["q"].phase # "answered"
NoneLeft ==
  /\ \A k \in Keys, s \in Stores :
       mirror[k] = None => store[s].res[k] = None \/ Leaving(k)
  /\ pc["q"] = "res" /\ mirror[cur.key] = None => DeleteQueued(cur.key)

Flowing == NoOrphans /\ QueueOrdered /\ Accepted /\ NoneLeft

Orderly ==
  /\ Reachable
  /\ node \/ nodeRegs = 0 => Waiting
  /\ node => NodeKept
  /\ node /\ registered => Flowing

(* The inductive invariant behind KeepsResources and InSync. *)
OInv == IInv /\ Orderly

(* What Flowing says depends on the mirror, the queue, the registry and    *)
(* the queue greenlet's request.                                           *)
LEMMA FlowingFrame ==
  ASSUME Flowing, UNCHANGED <<mirror, queue, store, cur>>, pc'["q"] = pc["q"],
         Accepted', call'["q"].phase = "answered" => call["q"].phase = "answered"
  PROVE  Flowing'
<1>1. \A k : (DeleteQueued(k)' <=> DeleteQueued(k)) /\ (Ready(k)' <=> Ready(k))
  BY DEF DeleteQueued, Ready
<1>2. \A i, k : (Before(i, k)' <=> Before(i, k)) /\ (PostBefore(i, k)' <=> PostBefore(i, k))
  BY DEF Before, PostBefore
<1>3. \A i, k : Ahead(i, k)' <=> Ahead(i, k)
  BY <1>1, <1>2 DEF Ahead
<1>4. NoOrphans' /\ QueueOrdered'
  BY <1>1, <1>2, <1>3 DEF Flowing, NoOrphans, QueueOrdered
<1>5. \A k : Leaving(k) => Leaving(k)'
  BY <1>1 DEF Leaving
<1>6. NoneLeft'
  BY <1>1, <1>5 DEF Flowing, NoneLeft
<1> QED  BY <1>4, <1>6 DEF Flowing

(* The same for the whole of Orderly, in a step of the heartbeat greenlet  *)
(* that leaves its place or its call for another.                          *)
LEMMA OrderlyFrame ==
  ASSUME OInv, UNCHANGED <<node, nodeRegs, mirror, queue, store, dead, cur>>,
         pc'["q"] = pc["q"], call'["q"] = call["q"],
         registered' => registered,
         node /\ registered => registered',
         nodeRegs = 0 => registered' = registered,
         node => NodeKept'
  PROVE  Orderly'
<1>1. Reachable'
  BY DEF OInv, Orderly, Reachable, Cleared
<1>2. node \/ nodeRegs = 0 => Waiting'
  BY DEF OInv, Orderly, Waiting, Closed, DeleteQueued
<1>3. node /\ registered => Flowing'
  <2>1. Accepted => Accepted'
    BY DEF Accepted
  <2> QED BY <2>1, FlowingFrame DEF OInv, Orderly, Flowing
<1> QED  BY <1>1, <1>2, <1>3 DEF Orderly

(* Re-registration queues the mirrored resources parents first, and with   *)
(* no DELETE among them.                                                   *)
LEMMA RequeuedFlowing ==
  ASSUME OInv, Undisturbed, NEW f \in RequeueOrders(Mirrored), queue = << >>,
         queue' = queue \o Posts(f), UNCHANGED <<mirror, store, cur>>, Closed,
         pc["q"] \in {"idle", "done"}, pc'["q"] = pc["q"],
         \A s \in Stores : Cleared(s)
  PROVE  Flowing'
<1>1. Posts(f) \in Seq(Item)
  BY Requeue
<1>2. queue' = Posts(f)
  BY <1>1
<1>3. /\ f \in [1..Cardinality(Mirrored) -> Mirrored]
      /\ \A k \in Mirrored : \E i \in DOMAIN f : f[i] = k
      /\ \A i, j \in DOMAIN f : i < j => Rank[f[i]] <= Rank[f[j]]
      /\ Mirrored \subseteq Keys
  BY DEF RequeueOrders, Mirrored
<1>4. /\ DOMAIN queue' = DOMAIN f /\ DOMAIN f \subseteq Int
      /\ \A i \in DOMAIN f : queue'[i] = Post(f[i]) /\ f[i] \in Mirrored
  BY <1>2, <1>3 DEF Posts
<1>5. \A k : ~DeleteQueued(k)'
  BY <1>4 DEF DeleteQueued, Post, Delete
<1>6. ASSUME NEW i \in DOMAIN queue', NEW k \in Keys, queue'[i] = Post(k),
             Parent[k] # Node
      PROVE  Before(i, Parent[k])' /\ Ahead(i, Parent[k])'
  <2>1. f[i] = k /\ k \in Mirrored /\ i \in DOMAIN f
    BY <1>4, <1>6 DEF Post
  <2>2. mirror[Parent[k]] # None /\ Parent[k] \in Keys
    BY <1>6, <2>1, ParameterAssumption DEF Closed, Mirrored
  <2>3. PICK j \in DOMAIN f : f[j] = Parent[k]
    BY <1>3, <2>2 DEF Mirrored
  <2>4. Rank[Parent[k]] < Rank[k] /\ Rank[k] \in Nat /\ Rank[Parent[k]] \in Nat
    BY <1>6, <2>2, ParameterAssumption DEF Undisturbed
  <2>5. j < i
    <3>1. ~(Rank[f[i]] <= Rank[f[j]])
      BY <2>1, <2>3, <2>4
    <3>2. ~(i < j) /\ i # j
      BY <1>3, <2>1, <2>3, <2>4, <3>1
    <3>3. i \in Int /\ j \in Int
      BY <1>4, <2>1
    <3> QED BY <3>2, <3>3
  <2>6. PostBefore(i, Parent[k])'
    BY <1>4, <2>3, <2>5 DEF PostBefore
  <2>7. Before(i, Parent[k])'
    BY <1>4 DEF Before, Post, Delete
  <2> QED BY <2>2, <2>6, <2>7 DEF Ahead
<1>7. NoOrphans' /\ QueueOrdered'
  BY <1>5, <1>6 DEF NoOrphans, QueueOrdered
<1>8. Accepted' /\ NoneLeft'
  <2>1. pc'["q"] # "res"
    OBVIOUS
  <2> QED BY <2>1 DEF Accepted, NoneLeft, Cleared
<1> QED  BY <1>7, <1>8 DEF Flowing

(* The queue greenlet ends a request that the registry took, or a DELETE   *)
(* that it answered.                                                       *)
LEMMA FlowingAtRest ==
  ASSUME Flowing, UNCHANGED <<mirror, queue, store, cur>>, pc'["q"] \in {"idle", "done"},
         pc["q"] \in {"res", "delete"} => call["q"].phase = "answered"
  PROVE  Flowing'
<1>1. \A k : DeleteQueued(k)' <=> DeleteQueued(k)
  BY DEF DeleteQueued
<1>2. \A k : Ready(k) => Ready(k)'
  BY DEF Ready, Flowing, Accepted
<1>3. \A i, k : (Before(i, k)' <=> Before(i, k)) /\ (PostBefore(i, k)' <=> PostBefore(i, k))
  BY DEF Before, PostBefore
<1>4. \A i, k : Ahead(i, k) => Ahead(i, k)'
  BY <1>1, <1>2, <1>3 DEF Ahead
<1>5. NoOrphans' /\ QueueOrdered'
  BY <1>1, <1>3, <1>4 DEF Flowing, NoOrphans, QueueOrdered
<1>6. \A k : Leaving(k) => Leaving(k)'
  BY <1>1 DEF Leaving
<1>7. Accepted' /\ NoneLeft'
  BY <1>6 DEF Accepted, Flowing, NoneLeft
<1> QED  BY <1>5, <1>7 DEF Flowing

(* _SEND returning or raising keeps the order, and no resource is dropped. *)
LEMMA ReturnOrderly ==
  ASSUME OInv, Restrictions, Undisturbed, NEW g \in Greenlets, NEW out,
         NEW p \in Switch, NEW agg \in Hrefs \cup {NoHref},
         Return(g, out, p, agg), UNCHANGED <<store, nodeRegs, dead>>,
         out = "failed" => call[g].tries = 3,
         out # "failed" => call[g].phase = "answered" /\ call[g].answer = out
  PROVE  Orderly' /\ (node => mirror' = mirror)
<1>1. /\ pc \in [Greenlets -> Places] /\ call \in [Greenlets -> Calls]
      /\ "hb" \in Greenlets /\ "q" \in Greenlets /\ UNCHANGED node
      /\ registered \in BOOLEAN /\ node \in BOOLEAN /\ TypeOK
  BY DEF OInv, IInv, TypeOK, Types, Places, Greenlets, Return
<1>2. /\ Reachable /\ (node \/ nodeRegs = 0 => Waiting)
      /\ (node => NodeKept) /\ (node /\ registered => Flowing)
      /\ nodeRegs = 0 => ~node /\ ~registered /\ pc["hb"] \in {"sleep", "done"}
      /\ pc["hb"] \in {"clear", "post", "confirm"} => ~registered
      /\ pc["q"] \notin {"node", "nodebeat"}
  BY DEF OInv, Orderly, IInv, NodeOnce
<1>3. ASSUME NEW place \in Places, Rest("hb", place) \/ Send("hb", place, agg)
      PROVE  /\ pc'["hb"] = place /\ pc'["q"] = pc["q"] /\ call'["q"] = call["q"]
             /\ call'["hb"].phase # "answered"
  BY <1>1, <1>3, SendControl DEF Rest, Send
<1>4. CASE g = "hb" /\ BeatDone(out, p, agg)
  <2>1. PICK place \in {"sleep", "done"} : Rest("hb", place)
    BY <1>4 DEF BeatDone
  <2>2. /\ pc["hb"] = "beat" /\ nodeRegs # 0
        /\ pc'["hb"] = place /\ pc'["q"] = pc["q"] /\ call'["q"] = call["q"]
        /\ registered' = (registered /\ out \in {"ok", "400"})
        /\ UNCHANGED <<queue, mirror, cur>>
    BY <1>2, <1>3, <1>4, <2>1 DEF BeatDone, Places
  <2>3. ASSUME node, registered PROVE registered'
    <3>1. call["hb"].tries = 0 /\ (call["hb"].phase = "answered" => call["hb"].answer = "ok")
      BY <1>2, <2>2, <2>3 DEF NodeKept
    <3>2. out = "ok"
      BY <1>4, <3>1
    <3> QED BY <2>2, <2>3, <3>2
  <2>4. node => NodeKept'
    BY <1>2, <2>2 DEF NodeKept
  <2> QED BY <1>1, <2>2, <2>3, <2>4, OrderlyFrame
<1>5. CASE g = "hb" /\ ClearDone(out, p, agg)
  <2>1. /\ pc["hb"] = "clear" /\ nodeRegs # 0 /\ ~registered /\ ~registered'
        /\ UNCHANGED <<mirror, cur>>
    BY <1>2, <1>5 DEF ClearDone
  <2>2. CASE Rest("hb", "sleep") /\ UNCHANGED queue
    <3>1. node => NodeKept'
      BY <1>3, <2>1, <2>2 DEF NodeKept, Places
    <3> QED BY <1>1, <1>3, <2>1, <2>2, <3>1, OrderlyFrame DEF Places
  <2>3. CASE Rest("hb", "sleep") /\ ~node
    BY <1>1, <1>2, <2>1, <2>3 DEF Orderly, Reachable, Cleared
  <2>4. CASE Send("hb", "post", agg) /\ queue' = << >> /\ out # "failed" /\ node
    <3>1. \A s \in Stores : Cleared(s)
      BY <1>2, <1>5, <2>1, <2>4 DEF NodeKept, Reachable
    <3>2. /\ pc'["hb"] = "post" /\ pc'["q"] = pc["q"] /\ call'["q"] = call["q"]
          /\ call'["hb"].phase # "answered"
      BY <1>3, <2>4 DEF Places
    <3>3. NodeKept'
      BY <2>1, <2>4, <3>1, <3>2 DEF NodeKept, Cleared
    <3>4. Waiting'
      BY <1>2, <2>1, <2>4, <3>2 DEF Waiting, Closed, DeleteQueued
    <3> QED BY <1>2, <2>1, <3>3, <3>4 DEF Orderly, Reachable, Cleared
  <2> QED BY <1>5, <2>1, <2>2, <2>3, <2>4 DEF ClearDone
<1>6. CASE g = "hb" /\ PostDone(out, p, agg)
  <2>1. /\ pc["hb"] = "post" /\ nodeRegs # 0 /\ ~registered
        /\ UNCHANGED <<registered, queue, mirror, cur>>
    BY <1>2, <1>6 DEF PostDone
  <2>2. CASE Rest("hb", "sleep")
    <3>1. node => NodeKept'
      BY <1>3, <2>1, <2>2 DEF NodeKept, Places
    <3> QED BY <1>1, <1>3, <2>1, <2>2, <3>1, OrderlyFrame DEF Places
  <2>3. CASE Send("hb", "confirm", agg) /\ out = "ok" /\ node
    <3>1. /\ pc'["hb"] = "confirm" /\ pc'["q"] = pc["q"] /\ call'["q"] = call["q"]
      BY <1>3, <2>3 DEF Places
    <3>2. NodeKept'
      BY <1>2, <1>6, <2>1, <2>3, <3>1 DEF NodeKept, Cleared
    <3> QED BY <1>1, <2>1, <3>1, <3>2, OrderlyFrame
  <2> QED BY <1>6, <2>2, <2>3 DEF PostDone
<1>7. CASE g = "hb" /\ ConfirmDone(out, p, agg)
  <2>1. /\ pc["hb"] = "confirm" /\ nodeRegs # 0 /\ ~registered
        /\ pc'["hb"] = "sleep" /\ pc'["q"] = pc["q"] /\ call'["q"] = call["q"]
        /\ UNCHANGED <<mirror, cur>>
    BY <1>2, <1>3, <1>7 DEF ConfirmDone, Places
  <2>2. node => NodeKept'
    BY <1>2, <2>1 DEF NodeKept
  <2>3. CASE UNCHANGED <<registered, queue>>
    BY <1>1, <2>1, <2>2, <2>3, OrderlyFrame
  <2>4. CASE ~node
    BY <1>1, <1>2, <2>1, <2>4 DEF Orderly, Reachable, Cleared
  <2>5. ASSUME NEW f \in RequeueOrders(Mirrored), queue' = queue \o Posts(f), node,
               registered' = TRUE
        PROVE  Orderly'
    <3>1. /\ queue = << >> /\ Closed /\ pc["q"] \in {"idle", "done"}
          /\ \A s \in Stores : Cleared(s)
      BY <1>2, <2>1, <2>5 DEF NodeKept, Waiting
    <3>2. Flowing'
      BY <2>1, <2>5, <3>1, RequeuedFlowing
    <3>3. Waiting'
      <4>1. queue' = Posts(f) /\ \A i \in DOMAIN Posts(f) : Posts(f)[i] # Delete(Node)
        BY <2>5, <3>1, Requeue DEF Post, Delete
      <4> QED BY <2>1, <2>5, <3>1, <4>1 DEF Waiting, Closed, DeleteQueued
    <3> QED BY <1>1, <1>2, <2>2, <3>2, <3>3 DEF Orderly, Reachable, Cleared
  <2> QED BY <1>7, <2>1, <2>3, <2>4, <2>5 DEF ConfirmDone
<1>8. ASSUME g = "q", Rest("q", "idle")
      PROVE  /\ pc'["q"] = "idle" /\ pc'["hb"] = pc["hb"] /\ call'["hb"] = call["hb"]
  BY <1>1, <1>8 DEF Rest
<1>9. ASSUME g = "q", Rest("q", "idle"), UNCHANGED <<mirror, queue, cur>>,
             pc["q"] \in {"res", "delete"}, registered' => registered,
             node /\ registered' => out # "failed"
      PROVE  Orderly'
  <2>1. node => NodeKept'
    BY <1>1, <1>2, <1>8, <1>9 DEF NodeKept, Cleared
  <2>2. node \/ nodeRegs = 0 => Waiting'
    BY <1>2, <1>8, <1>9 DEF Waiting, Closed, DeleteQueued
  <2>3. node /\ registered' => Flowing'
    BY <1>2, <1>8, <1>9, FlowingAtRest
  <2> QED BY <1>1, <1>2, <1>9, <2>1, <2>2, <2>3 DEF Orderly, Reachable, Cleared
<1>10. CASE g = "q" /\ ResourceDone(out, p, agg)
  <2>1. pc["q"] = "res" /\ Rest("q", "idle") /\ UNCHANGED <<queue, cur>>
        /\ (registered' => registered)
    BY <1>1, <1>10 DEF ResourceDone
  <2>2. node => registered /\ out = "ok"
    BY <1>1, <1>2, <1>10, <2>1 DEF Waiting, Flowing, Accepted
  <2>3. CASE node
    <3>1. UNCHANGED mirror
      BY <1>10, <2>2, <2>3 DEF ResourceDone
    <3> QED BY <1>9, <1>10, <2>1, <2>2, <2>3, <3>1
  <2>4. CASE ~node
    <3>1. nodeRegs # 0
      BY <1>2, <2>1 DEF Waiting
    <3> QED BY <1>1, <1>2, <2>4, <3>1 DEF Orderly, Reachable, Cleared
  <2> QED BY <2>3, <2>4
<1>11. CASE g = "q" /\ DeleteDone(out, p, agg)
  BY <1>1, <1>9, <1>11 DEF DeleteDone
<1> QED
  <2>1. mirror' = mirror \/ (g = "q" /\ ResourceDone(out, p, agg))
    BY <1>2 DEF Return, BeatDone, ClearDone, PostDone, ConfirmDone, NodeDone, NodeBeatDone,
       DeleteDone
  <2> QED BY <1>2, <1>4, <1>5, <1>6, <1>7, <1>10, <1>11, <2>1 DEF Return, NodeDone, NodeBeatDone
(* The queue greenlet takes an entry: what remains of the queue is still   *)
(* in order, and if it takes a POST, the registry has the parent.          *)
LEMMA TakeOrderly ==
  ASSUME OInv, Take
  PROVE  Orderly'
<1>1. /\ pc["q"] = "idle" /\ registered /\ TypeOK
      /\ pc \in [Greenlets -> Places] /\ call \in [Greenlets -> Calls]
      /\ "hb" \in Greenlets /\ "q" \in Greenlets
      /\ mirror \in [Keys -> Data \cup {None}]
      /\ aggregator \in Hrefs \cup {NoHref}
      /\ UNCHANGED <<node, nodeRegs, registered, mirror, store, dead>>
  BY DEF Take, OInv, IInv, TypeOK, Types, Greenlets, Places, client, network, budget
<1>2. /\ Reachable /\ (node \/ nodeRegs = 0 => Waiting)
      /\ (node => NodeKept) /\ (node => Flowing)
      /\ nodeRegs # 0 /\ pc["hb"] \notin {"clear", "post", "confirm"}
      /\ ~NodePostQueued
  BY <1>1 DEF OInv, Orderly, IInv, NodeOnce
<1>3. PICK n \in 1..Len(queue) : Taken(n)
  BY TakeTakes DEF OInv, IInv, TypeOK
<1>4. /\ Len(queue) \in Nat /\ DOMAIN queue = 1..Len(queue)
      /\ queue[n] \in Item /\ DOMAIN queue' = 1..Len(queue) - n
      /\ \A i \in 1..Len(queue) - n : queue'[i] = queue[i + n]
      /\ \A i \in 1..n - 1 : Skipped(queue[i])
      /\ \/ Skipped(queue[n]) /\ n = Len(queue) /\ UNCHANGED <<pc, call, cur>>
         \/ /\ ~Skipped(queue[n]) /\ cur' = RequestFor(queue[n])
            /\ Send("q", PlaceOf(queue[n]), aggregator)
  BY <1>3 DEF Taken
<1>5. n \in Int /\ n >= 1 /\ n <= Len(queue) /\ Len(queue) \in Int
  <2>1. Len(queue) \in Nat
    BY <1>4
  <2> QED BY <2>1
<1>12. /\ n \in DOMAIN queue
       /\ \A i \in DOMAIN queue : i \in Int /\ 1 <= i /\ i <= Len(queue)
  <2>1. Len(queue) \in Nat /\ DOMAIN queue = 1..Len(queue)
    BY <1>4
  <2> QED BY <2>1
<1>6. ASSUME NEW j \in DOMAIN queue'
      PROVE  j \in Int /\ j + n \in DOMAIN queue /\ queue'[j] = queue[j + n] /\ j + n > n
  <2>1. j \in 1..Len(queue) - n
    BY <1>4, <1>6
  <2>2. j + n \in 1..Len(queue)
    BY <1>5, <2>1
  <2>3. j \in Int /\ j >= 1
    BY <2>1
  <2>4. queue'[j] = queue[j + n] /\ j + n \in DOMAIN queue
    BY <1>4, <2>1, <2>2
  <2>5. j + n > n
    BY <1>5, <2>3
  <2> QED BY <2>3, <2>4, <2>5
<1>7. ASSUME NEW k, ~DeleteQueued(k) PROVE ~DeleteQueued(k)'
  BY <1>6, <1>7 DEF DeleteQueued
<1>8. PlaceOf(queue[n]) \in {"delete", "res"}
  <2>1. queue[n].method = "POST" /\ queue[n].key = Node => queue[n] = Post(Node)
    BY <1>4 DEF Item, Post
  <2>2. queue[n] # Post(Node)
    BY <1>2, <1>4 DEF NodePostQueued
  <2> QED BY <1>4, <2>1, <2>2, TakenItem
<1>9. SUFFICES ASSUME node PROVE Waiting' /\ NodeKept' /\ Flowing'
  BY <1>1, <1>2 DEF Orderly, Reachable, Cleared
<1>10. CASE Skipped(queue[n]) /\ n = Len(queue) /\ UNCHANGED <<pc, call, cur>>
  <2>1. DOMAIN queue' = {}
    BY <1>4, <1>5, <1>10
  <2>2. \A k : ~DeleteQueued(k)'
    BY <2>1 DEF DeleteQueued
  <2>3. Waiting'
    BY <1>1, <1>2, <1>9, <1>10, <2>2 DEF Waiting, Closed
  <2>4. NodeKept'
    BY <1>1, <1>2, <1>9, <1>10 DEF NodeKept, Cleared
  <2>5. NoOrphans' /\ QueueOrdered' /\ Accepted'
    BY <1>1, <1>10, <2>1, <2>2 DEF NoOrphans, QueueOrdered, Accepted
  <2>6. NoneLeft'
    <3>1. ASSUME NEW k \in Keys, NEW s \in Stores, mirror[k] = None
          PROVE  store[s].res[k] = None
      <4>1. ~DeleteQueued(k)
        <5>1. ASSUME NEW i \in DOMAIN queue PROVE queue[i] # Delete(k)
          <6>1. i \in 1..n - 1 \/ i = n
            BY <1>4, <1>5, <1>10
          <6>2. Skipped(queue[i])
            BY <1>4, <1>10, <6>1
          <6> QED BY <6>2 DEF Skipped, Delete
        <5> QED BY <5>1 DEF DeleteQueued
      <4> QED BY <1>1, <1>2, <1>9, <3>1, <4>1 DEF Flowing, NoneLeft, Leaving
    <3> QED BY <1>1, <1>10, <3>1 DEF NoneLeft
  <2> QED BY <2>3, <2>4, <2>5, <2>6 DEF Flowing
<1>11. CASE /\ ~Skipped(queue[n]) /\ cur' = RequestFor(queue[n])
            /\ Send("q", PlaceOf(queue[n]), aggregator)
  <2>1. /\ pc'["q"] = PlaceOf(queue[n]) /\ pc'["hb"] = pc["hb"]
        /\ call'["q"].phase # "answered" /\ call'["q"].tries = 0
        /\ call'["hb"] = call["hb"]
    <3>1. /\ pc' = [pc EXCEPT !["q"] = PlaceOf(queue[n])]
          /\ call'["q"].phase # "answered" /\ call'["hb"] = call["hb"]
      BY <1>1, <1>8, <1>11, SendControl DEF Places
    <3>2. call'["q"].tries = 0
      BY <1>1, <1>11 DEF Send, Attempt
    <3> QED BY <1>1, <3>1, <3>2
  <2>2. /\ cur'.method = queue[n].method /\ cur'.key = queue[n].key
        /\ PlaceOf(queue[n]) = "delete" <=> queue[n].method = "DELETE"
        /\ PlaceOf(queue[n]) = "res" => queue[n].method = "POST" /\ queue[n].key \in Keys
        /\ cur'.data = IF PlaceOf(queue[n]) = "res" THEN mirror[queue[n].key] ELSE None
    BY <1>4, <1>11, TakenItem
  <2>3. /\ PlaceOf(queue[n]) = "delete" => queue[n] = Delete(queue[n].key)
        /\ PlaceOf(queue[n]) = "res" => queue[n] = Post(queue[n].key)
    BY <1>4, <2>2 DEF Item, Delete, Post
  <2>4. PlaceOf(queue[n]) = "res" => mirror[queue[n].key] # None /\ queue[n].key # Node
    BY <1>11, <2>2, ParameterAssumption DEF Skipped
  <2>5. \A k : queue[n] # Delete(k) => (~DeleteQueued(k)' => ~DeleteQueued(k))
    <3>1. ASSUME NEW k, queue[n] # Delete(k), NEW i \in DOMAIN queue, queue[i] = Delete(k)
          PROVE  DeleteQueued(k)'
      <4>1. ~Skipped(queue[i])
        BY <3>1 DEF Skipped, Delete
      <4>2. i \notin 1..n - 1 /\ i # n
        BY <1>4, <3>1, <4>1
      <4>3. i \in Int /\ 1 <= i /\ i <= Len(queue)
        BY <1>12
      <4>4. i - n \in 1..Len(queue) - n /\ (i - n) + n = i
        BY <1>5, <4>2, <4>3
      <4>5. i - n \in DOMAIN queue' /\ queue'[i - n] = Delete(k)
        BY <1>4, <3>1, <4>4
      <4> QED BY <4>5 DEF DeleteQueued
    <3> QED BY <3>1 DEF DeleteQueued
  <2>6. Waiting'
    <3>1. ~DeleteQueued(Node)' /\ queue[n] # Delete(Node)
      BY <1>2, <1>4, <1>7, <1>9 DEF Waiting, DeleteQueued
    <3> QED BY <1>1, <1>2, <1>9, <2>1, <2>2, <2>3, <3>1 DEF Waiting, Closed
  <2>7. NodeKept'
    BY <1>1, <1>2, <1>9, <2>1 DEF NodeKept, Cleared
  <2>8. NoOrphans'
    BY <1>1, <1>2, <1>7, <1>9 DEF Flowing, NoOrphans
  <2>9. ASSUME NEW k \in Keys, Parent[k] # Node, NEW i \in DOMAIN queue, i >= n,
               queue[i] = Post(k), queue[n] # Delete(Parent[k]), ~DeleteQueued(Parent[k])
        PROVE  /\ mirror[Parent[k]] # None
               /\ \/ \A s \in Stores : store[s].res[Parent[k]] # None
                  \/ queue[n] = Post(Parent[k]) /\ n < i
                  \/ \E j \in DOMAIN queue : n < j /\ j < i /\ queue[j] = Post(Parent[k])
    <3>1. /\ Parent[k] \in Keys /\ Ahead(i, Parent[k])
      BY <1>2, <1>9, <2>9, ParameterAssumption DEF Flowing, QueueOrdered
    <3>2. mirror[Parent[k]] # None /\ (Ready(Parent[k]) \/ PostBefore(i, Parent[k]))
      BY <2>9, <3>1 DEF Ahead
    <3>3. ASSUME NEW j \in DOMAIN queue, j < i, queue[j] = Post(Parent[k])
          PROVE  j = n \/ n < j
      <4>1. ~Skipped(queue[j])
        BY <2>9, <3>2, <3>3 DEF Skipped, Post
      <4>2. j \notin 1..n - 1 /\ j \in Int /\ 1 <= j
        BY <1>4, <1>5, <4>1
      <4> QED BY <1>5, <4>2
    <3> QED BY <1>1, <3>2, <3>3 DEF Ready, PostBefore
  <2>10. QueueOrdered'
    <3> SUFFICES ASSUME NEW i \in DOMAIN queue', NEW k \in Keys, queue'[i] = Post(k),
                        Parent[k] # Node
                 PROVE  Before(i, Parent[k])' /\ Ahead(i, Parent[k])'
      BY DEF QueueOrdered
    <3>1. /\ i \in Int /\ i + n \in DOMAIN queue /\ queue[i + n] = Post(k) /\ i + n > n
      BY <1>6
    <3>2. Before(i + n, Parent[k])
      BY <1>2, <1>9, <3>1 DEF Flowing, QueueOrdered
    <3>3. Before(i, Parent[k])'
      <4>1. ASSUME NEW j \in DOMAIN queue', queue'[j] = Delete(Parent[k]) PROVE i < j
        <5>1. j \in Int /\ i + n < j + n
          BY <1>6, <3>2, <4>1 DEF Before
        <5> QED BY <1>5, <3>1, <5>1
      <4> QED BY <4>1 DEF Before
    <3>4. ASSUME ~DeleteQueued(Parent[k])'
          PROVE  mirror[Parent[k]] # None /\ (Ready(Parent[k])' \/ PostBefore(i, Parent[k])')
      <4>1. queue[n] # Delete(Parent[k])
        <5>1. n \in DOMAIN queue /\ ~(i + n < n)
          BY <1>5, <1>12, <3>1
        <5> QED BY <3>2, <5>1 DEF Before
      <4>2. ~DeleteQueued(Parent[k])
        BY <2>5, <3>4, <4>1
      <4>3. i + n >= n
        BY <1>5, <3>1
      <4>4. mirror[Parent[k]] # None
        BY <2>9, <3>1, <4>1, <4>2, <4>3
      <4>5. CASE \A s \in Stores : store[s].res[Parent[k]] # None
        BY <1>1, <2>1, <2>2, <2>3, <4>1, <4>4, <4>5 DEF Ready
      <4>6. CASE queue[n] = Post(Parent[k])
        <5>1. queue[n].key = Parent[k] /\ PlaceOf(queue[n]) = "res"
          BY <1>8, <2>2, <4>6 DEF Post
        <5> QED BY <2>1, <2>2, <4>4, <5>1 DEF Ready
      <4>7. ASSUME NEW j \in DOMAIN queue, n < j, j < i + n, queue[j] = Post(Parent[k])
            PROVE  PostBefore(i, Parent[k])'
        <5>1. j \in Int /\ j <= Len(queue)
          BY <1>4, <1>5
        <5>2. j - n \in 1..Len(queue) - n /\ (j - n) + n = j /\ j - n < i
          BY <1>5, <3>1, <4>7, <5>1
        <5>3. j - n \in DOMAIN queue' /\ queue'[j - n] = Post(Parent[k])
          BY <1>4, <4>7, <5>2
        <5> QED BY <5>2, <5>3 DEF PostBefore
      <4> QED BY <2>9, <3>1, <4>1, <4>2, <4>3, <4>4, <4>5, <4>6, <4>7
    <3> QED BY <1>1, <3>3, <3>4 DEF Ahead
  <2>11. Accepted'
    <3> SUFFICES ASSUME PlaceOf(queue[n]) = "res"
                 PROVE  /\ cur'.data \in Data
                        /\ Parent[cur'.key] # Node =>
                             \A s \in Stores : store[s].res[Parent[cur'.key]] # None
      BY <1>1, <2>1 DEF Accepted
    <3>1. /\ cur'.key = queue[n].key /\ queue[n].key \in Keys
          /\ mirror[queue[n].key] # None /\ queue[n] = Post(queue[n].key)
          /\ cur'.data = mirror[queue[n].key]
      BY <2>2, <2>3, <2>4
    <3>2. cur'.data \in Data
      BY <1>1, <3>1
    <3>3. ASSUME Parent[queue[n].key] # Node
          PROVE  \A s \in Stores : store[s].res[Parent[queue[n].key]] # None
      <4>1. ~DeleteQueued(Parent[queue[n].key])
        BY <1>2, <1>9, <3>1, <3>3 DEF Flowing, NoOrphans
      <4>2. queue[n] # Delete(Parent[queue[n].key])
        BY <3>1 DEF Post, Delete
      <4>3. n \in DOMAIN queue /\ n >= n /\ ~(n < n)
            /\ \A j \in DOMAIN queue : ~(n < j /\ j < n)
        <5>1. \A j \in Int : ~(n < j /\ j < n)
          BY <1>5
        <5> QED BY <1>5, <1>12, <5>1
      <4> QED BY <2>9, <3>1, <3>3, <4>1, <4>2, <4>3
    <3> QED BY <3>1, <3>2, <3>3
  <2>12. NoneLeft'
    <3>1. ASSUME NEW k \in Keys, NEW s \in Stores, mirror[k] = None
          PROVE  store[s].res[k] = None \/ Leaving(k)'
      <4>1. store[s].res[k] = None \/ DeleteQueued(k)
        BY <1>1, <1>2, <1>9, <3>1 DEF Flowing, NoneLeft, Leaving
      <4>2. CASE queue[n] = Delete(k)
        <5>1. PlaceOf(queue[n]) = "delete" /\ queue[n].key = k
          BY <2>2, <4>2 DEF Delete
        <5> QED BY <2>1, <2>2, <5>1 DEF Leaving
      <4> QED BY <2>5, <4>1, <4>2 DEF Leaving
    <3>2. pc'["q"] = "res" => mirror[cur'.key] # None
      BY <2>1, <2>2, <2>4
    <3> QED BY <1>1, <3>1, <3>2 DEF NoneLeft
  <2> QED BY <2>6, <2>7, <2>8, <2>10, <2>11, <2>12 DEF Flowing
<1> QED BY <1>4, <1>10, <1>11
(* The registry serves a request: what is empty for an unknown node stays  *)
(* so, and there is one registry.                                          *)
LEMMA ServedStore ==
  ASSUME OInv, Restrictions, NEW g \in Greenlets, Serve(g)
  PROVE  /\ call[g].phase = "request"
         /\ call'[g].phase = "answered" /\ call'[g].tries = call[g].tries
         /\ \A h \in Greenlets \ {g} : call'[h] = call[h]
         /\ \A s \in Stores : /\ store'[s] = After(store[s], Sent(g))
                              /\ call'[g].answer = AnswerTo(store[s], Sent(g))
         /\ UNCHANGED <<node, mirror, registered, queue, pc, cur, nodeRegs, dead>>
         /\ Reachable' /\ Stores # {}
<1>1. /\ call \in [Greenlets -> Calls] /\ store \in [Stores -> Contents]
      /\ call[g].phase = "request" /\ Reachable /\ cur \in Request
  BY DEF Serve, OInv, Orderly, IInv, TypeOK, Types
<1>2. Backend[call[g].to] \in Stores
  BY <1>1, ParameterAssumption DEF OInv, IInv, TypeOK, Retries
<1>3. \A s \in Stores : Backend[call[g].to] = s
  BY <1>2 DEF Restrictions
<1>4. /\ call'[g].phase = "answered" /\ call'[g].tries = call[g].tries
      /\ call'[g].answer = AnswerTo(store[Backend[call[g].to]], Sent(g))
      /\ \A h \in Greenlets \ {g} : call'[h] = call[h]
      /\ UNCHANGED <<node, mirror, registered, queue, pc, cur, nodeRegs, dead>>
  BY <1>1 DEF Serve, Answered, Calls, client, budget
<1>5. store'[Backend[call[g].to]] = After(store[Backend[call[g].to]], Sent(g))
  BY <1>1, <1>2 DEF Serve
<1>6. ASSUME NEW s \in Stores
      PROVE  /\ store'[s] = After(store[s], Sent(g))
             /\ call'[g].answer = AnswerTo(store[s], Sent(g))
  BY <1>3, <1>4, <1>5
<1>7. ASSUME NEW s \in Stores, NEW r \in Request, ~After(store[s], r).node
      PROVE  \A k \in Keys : After(store[s], r).res[k] = None
  <2>1. store[s] \in Contents
    BY <1>1
  <2>2. CASE ~Accepts(store[s], r) \/ r.method = "BEAT"
    BY <1>1, <1>7, <2>2 DEF After, Reachable, Cleared
  <2>3. CASE Accepts(store[s], r) /\ r.method = "DELETE" /\ r.key = Node
    BY <2>3 DEF After, Empty
  <2>4. CASE Accepts(store[s], r) /\ r.method = "POST" /\ r.key = Node
    BY <1>7, <2>1, <2>4 DEF After, Contents
  <2>5. CASE Accepts(store[s], r) /\ r.method # "BEAT" /\ r.key # Node
    <3>1. After(store[s], r) = [store[s] EXCEPT !.res[r.key] = r.data]
      BY <2>5 DEF After
    <3>2. ~store[s].node
      BY <1>7, <2>1, <3>1 DEF Contents
    <3>3. r.method \in {"POST", "DELETE"} /\ r.key \in Keys
      BY <2>5 DEF Request, Entities
    <3>4. r.method = "DELETE" /\ store[s].res[r.key] # None
      BY <2>5, <3>2, <3>3 DEF Accepts
    <3> QED BY <1>1, <3>2, <3>3, <3>4 DEF Reachable, Cleared
  <2>6. r.method \in {"POST", "DELETE", "BEAT"}
    BY DEF Request
  <2> QED BY <2>2, <2>3, <2>4, <2>5, <2>6
<1>8. Reachable'
  BY <1>1, <1>4, <1>6, <1>7, SentType DEF Reachable, Cleared
<1> QED BY <1>1, <1>2, <1>4, <1>6, <1>8

(* The registry serves the queue greenlet: it takes each resource, as it   *)
(* has the resource's parent, and each DELETE leaves nothing behind.       *)
LEMMA QueueServedOrderly ==
  ASSUME OInv, Restrictions, Undisturbed, Serve("q")
  PROVE  Orderly'
<1>1. /\ call["q"].phase = "request"
      /\ call'["q"].phase = "answered" /\ call'["q"].tries = call["q"].tries
      /\ call'["hb"] = call["hb"]
      /\ \A s \in Stores : /\ store'[s] = After(store[s], Sent("q"))
                           /\ call'["q"].answer = AnswerTo(store[s], Sent("q"))
      /\ UNCHANGED <<node, mirror, registered, queue, pc, cur, nodeRegs, dead>>
      /\ Reachable' /\ Stores # {}
  BY ServedStore DEF Greenlets
<1>2. /\ (node \/ nodeRegs = 0 => Waiting)
      /\ (node => NodeKept) /\ (node /\ registered => Flowing)
      /\ nodeRegs = 0 => ~registered
      /\ registered => pc["hb"] \notin {"clear", "post", "confirm"}
      /\ store \in [Stores -> Contents] /\ cur \in Request
  BY DEF OInv, Orderly, IInv, NodeOnce, TypeOK, Types
<1>3. /\ pc["q"] \in {"res", "delete"} /\ Sent("q") = cur
      /\ pc["q"] = "res" => cur.method = "POST" /\ cur.key \in Keys
      /\ pc["q"] = "delete" => cur.method = "DELETE"
  BY <1>1 DEF OInv, IInv, Control, NodeOnce, Sent, Greenlets
<1>4. SUFFICES ASSUME node PROVE Waiting' /\ NodeKept' /\ Flowing'
  <2>1. nodeRegs = 0 => FALSE
    BY <1>2, <1>3 DEF Waiting
  <2> QED BY <1>1, <2>1 DEF Orderly
<1>5. /\ registered /\ Waiting /\ NodeKept /\ Flowing
      /\ \A s \in Stores : store[s].node
  BY <1>2, <1>3, <1>4 DEF Waiting, NodeKept
<1>6. cur.key \in Keys /\ cur.key # Node
  BY <1>2, <1>3, <1>5, ParameterAssumption DEF Request, Entities, Waiting
<1>7. \A k : DeleteQueued(k)' <=> DeleteQueued(k)
  BY <1>1 DEF DeleteQueued
<1>8. Waiting'
  BY <1>1, <1>5, <1>7 DEF Waiting, Closed
<1>9. NoOrphans'
  BY <1>1, <1>5, <1>7 DEF Flowing, NoOrphans
<1>10. ASSUME NEW s \in Stores
       PROVE  /\ store'[s].node
              /\ \A k \in Keys : k # cur.key => store'[s].res[k] = store[s].res[k]
              /\ pc["q"] = "delete" => store'[s].res[cur.key] = None
              /\ pc["q"] = "res" => /\ store'[s].res[cur.key] # None
                                    /\ call'["q"].answer = "ok"
  <2>1. store[s] \in Contents /\ store[s].node
    BY <1>2, <1>5
  <2>2. ASSUME Accepts(store[s], cur)
        PROVE  /\ store'[s].node /\ store'[s].res[cur.key] = cur.data
               /\ \A k \in Keys : k # cur.key => store'[s].res[k] = store[s].res[k]
    <3>1. store'[s] = [store[s] EXCEPT !.res[cur.key] = cur.data]
      BY <1>1, <1>3, <1>6, <2>2 DEF After
    <3> QED BY <1>6, <2>1, <3>1 DEF Contents
  <2>3. CASE pc["q"] = "res"
    <3>1. cur.data \in Data /\ cur.data # BadData /\ cur.data # None
      BY <1>5, <2>3, ParameterAssumption DEF Flowing, Accepted, Undisturbed
    <3>2. Accepts(store[s], cur)
      <4>1. Parent[cur.key] # Node => store[s].res[Parent[cur.key]] # None
        BY <1>1, <1>5, <2>3 DEF Flowing, Accepted
      <4> QED BY <1>3, <1>6, <2>1, <2>3, <3>1, <4>1 DEF Accepts
    <3> QED BY <1>1, <1>3, <2>2, <2>3, <3>1, <3>2 DEF AnswerTo
  <2>4. CASE pc["q"] = "delete" /\ ~Accepts(store[s], cur)
    <3>1. store'[s] = store[s] /\ store[s].res[cur.key] = None
      BY <1>1, <1>3, <1>6, <2>4 DEF After, Accepts
    <3> QED BY <2>1, <2>4, <3>1
  <2>5. CASE pc["q"] = "delete" /\ Accepts(store[s], cur)
    <3>1. cur.data = None
      BY <1>5, <2>5 DEF Waiting
    <3> QED BY <2>2, <2>5, <3>1
  <2> QED BY <1>3, <2>3, <2>4, <2>5
<1>11. NodeKept'
  BY <1>1, <1>2, <1>5, <1>10 DEF NodeKept
<1>12. \A k \in Keys : Ready(k) => Ready(k)'
  BY <1>1, <1>3, <1>10 DEF Ready
<1>13. QueueOrdered'
  <2>1. \A i, k : (Before(i, k)' <=> Before(i, k)) /\ (PostBefore(i, k)' <=> PostBefore(i, k))
    BY <1>1 DEF Before, PostBefore
  <2>2. \A k \in Keys : \A i : Ahead(i, k) => Ahead(i, k)'
    BY <1>1, <1>7, <1>12, <2>1 DEF Ahead
  <2>3. \A k \in Keys : Parent[k] # Node => Parent[k] \in Keys
    BY ParameterAssumption
  <2> QED BY <1>1, <1>5, <2>1, <2>2, <2>3 DEF Flowing, QueueOrdered
<1>14. Accepted'
  BY <1>1, <1>3, <1>5, <1>10 DEF Flowing, Accepted
<1>15. NoneLeft'
  <2>1. ASSUME NEW k \in Keys, NEW s \in Stores, mirror[k] = None
        PROVE  store'[s].res[k] = None \/ Leaving(k)'
    <3>1. CASE k # cur.key
      BY <1>1, <1>5, <1>7, <1>10, <2>1, <3>1 DEF Flowing, NoneLeft, Leaving
    <3>2. CASE k = cur.key /\ pc["q"] = "delete"
      BY <1>10, <3>2
    <3>3. CASE k = cur.key /\ pc["q"] = "res"
      BY <1>5, <1>7, <2>1, <3>3 DEF Flowing, NoneLeft, Leaving
    <3> QED BY <1>3, <3>1, <3>2, <3>3
  <2> QED BY <1>1, <1>5, <1>7, <2>1 DEF Flowing, NoneLeft
<1> QED BY <1>8, <1>9, <1>11, <1>13, <1>14, <1>15 DEF Flowing

(* What the heartbeat's requests do in a registry. *)
LEMMA NodeRequests ==
  ASSUME NEW s \in Contents, NEW r, r.key = Node
  PROVE  /\ r.method = "BEAT" => After(s, r) = s /\ (s.node => AnswerTo(s, r) = "ok")
         /\ r.method = "DELETE" => ~After(s, r).node
         /\ r.method = "POST" => After(s, r).node /\ After(s, r).res = s.res
<1>1. CASE r.method = "BEAT"
  BY <1>1 DEF After, Accepts, AnswerTo
<1>2. CASE r.method = "DELETE"
  <2>1. Accepts(s, r) <=> s.node
    BY <1>2 DEF Accepts
  <2>2. s.node => After(s, r) = Empty
    BY <1>2, <2>1 DEF After
  <2>3. ~s.node => After(s, r) = s
    BY <1>2, <2>1 DEF After
  <2>4. ~Empty.node
    BY DEF Empty
  <2> QED BY <1>2, <2>2, <2>3, <2>4
<1>3. CASE r.method = "POST"
  <2>1. Accepts(s, r)
    BY <1>3 DEF Accepts
  <2>2. After(s, r) = [s EXCEPT !.node = TRUE]
    BY <1>3, <2>1 DEF After
  <2> QED BY <1>3, <2>2 DEF Contents
<1> QED BY <1>1, <1>2, <1>3

(* The registry serves the heartbeat greenlet. *)
LEMMA HeartbeatServedOrderly ==
  ASSUME OInv, Restrictions, Serve("hb")
  PROVE  Orderly'
<1>1. /\ call["hb"].phase = "request"
      /\ call'["hb"].phase = "answered" /\ call'["hb"].tries = call["hb"].tries
      /\ call'["q"] = call["q"]
      /\ \A s \in Stores : /\ store'[s] = After(store[s], Sent("hb"))
                           /\ call'["hb"].answer = AnswerTo(store[s], Sent("hb"))
      /\ UNCHANGED <<node, mirror, registered, queue, pc, cur, nodeRegs, dead>>
      /\ Reachable' /\ Stores # {}
  BY ServedStore DEF Greenlets
<1>2. /\ Reachable /\ (node \/ nodeRegs = 0 => Waiting)
      /\ (node => NodeKept) /\ (node /\ registered => Flowing)
      /\ pc["hb"] \in {"clear", "post", "confirm"} => ~registered
      /\ store \in [Stores -> Contents]
      /\ pc["hb"] \in {"beat", "clear", "post", "confirm"}
  BY <1>1 DEF OInv, Orderly, IInv, NodeOnce, TypeOK, Types, Control, Greenlets
<1>3. node \/ nodeRegs = 0 => Waiting'
  BY <1>1, <1>2 DEF Waiting, Closed, DeleteQueued
<1>4. CASE pc["hb"] = "clear"
  <2>1. Sent("hb") = [method |-> "DELETE", key |-> Node, data |-> None]
    BY <1>4 DEF Sent
  <2>2. ASSUME NEW s \in Stores PROVE ~store'[s].node
    <3>1. store[s] \in Contents /\ Sent("hb").method = "DELETE" /\ Sent("hb").key = Node
      BY <1>2, <2>1
    <3> QED BY <1>1, <3>1, NodeRequests
  <2>3. NodeKept'
    BY <1>1, <1>2, <1>4, <2>2 DEF NodeKept
  <2> QED BY <1>1, <1>2, <1>3, <1>4, <2>3 DEF Orderly
<1>5. CASE pc["hb"] = "post"
  <2>1. Sent("hb") = [method |-> "POST", key |-> Node, data |-> None]
    BY <1>5 DEF Sent
  <2>2. ASSUME NEW s \in Stores PROVE store'[s].node /\ store'[s].res = store[s].res
    <3>1. store[s] \in Contents /\ Sent("hb").method = "POST" /\ Sent("hb").key = Node
      BY <1>2, <2>1
    <3> QED BY <1>1, <3>1, NodeRequests
  <2>3. node => NodeKept'
    BY <1>1, <1>2, <1>5, <2>2 DEF NodeKept, Cleared
  <2> QED BY <1>1, <1>2, <1>3, <1>5, <2>3 DEF Orderly
<1>6. CASE pc["hb"] \in {"beat", "confirm"}
  <2>1. Sent("hb") = [method |-> "BEAT", key |-> Node, data |-> None]
    BY <1>6 DEF Sent
  <2>2. ASSUME NEW s \in Stores
        PROVE  store'[s] = store[s] /\ (store[s].node => call'["hb"].answer = "ok")
    <3>1. store[s] \in Contents /\ Sent("hb").method = "BEAT" /\ Sent("hb").key = Node
      BY <1>2, <2>1
    <3> QED BY <1>1, <3>1, NodeRequests
  <2>4. node => NodeKept'
    BY <1>1, <1>2, <1>6, <2>2 DEF NodeKept, Cleared
  <2>5. store' = store
    BY <1>2, <2>2 DEF Serve
  <2>6. node /\ registered => Flowing'
    BY <1>1, <1>2, <2>5, FlowingFrame DEF Flowing, Accepted
  <2> QED BY <1>1, <1>3, <2>4, <2>6 DEF Orderly
<1> QED BY <1>2, <1>4, <1>5, <1>6

(* The client registers a resource: its parent is mirrored, so its POST is *)
(* queued or its contents are in the registry (MirrorCovered), and no      *)
(* DELETE of it is queued.                                                 *)
LEMMA RegisterOrderly ==
  ASSUME OInv, Undisturbed, NEW k \in Keys, NEW d \in Data, Register(k, d)
  PROVE  Orderly'
<1>1. /\ mirror' = [mirror EXCEPT ![k] = d] /\ queue' = Append(queue, Post(k))
      /\ Parent[k] # Node => mirror[Parent[k]] # None /\ ~DeleteQueued(Parent[k])
      /\ pc["hb"] \notin {"clear", "post", "confirm"}
      /\ UNCHANGED <<node, nodeRegs, registered, pc, call, cur, store, dead>>
      /\ d # None
  BY ParameterAssumption DEF Register, Enqueue, MayCall, Undisturbed, network
<1>2. /\ Reachable /\ (node \/ nodeRegs = 0 => Waiting)
      /\ (node => NodeKept) /\ (node /\ registered => Flowing /\ MirrorCovered)
      /\ mirror \in [Keys -> Data \cup {None}] /\ queue \in Seq(Item)
      /\ Post(k) \in Item
  BY DEF OInv, Orderly, IInv, TypeOK, Types, Post, Item, Entities
<1>3. /\ DOMAIN queue' = 1..Len(queue) + 1 /\ DOMAIN queue = 1..Len(queue)
      /\ \A i \in 1..Len(queue) : queue'[i] = queue[i]
      /\ queue'[Len(queue) + 1] = Post(k) /\ Len(queue) \in Nat
  BY <1>1, <1>2, QueueEntries, LenProperties
<1>4. /\ \A i \in DOMAIN queue : i \in DOMAIN queue' /\ queue'[i] = queue[i] /\ i < Len(queue) + 1
      /\ \A i \in DOMAIN queue' : i \in DOMAIN queue \/ i = Len(queue) + 1
      /\ Len(queue) + 1 \in DOMAIN queue'
  <2>1. /\ DOMAIN queue' = 1..Len(queue) + 1 /\ DOMAIN queue = 1..Len(queue)
        /\ Len(queue) \in Nat
    BY <1>3
  <2> QED BY <1>3, <2>1
<1>5. \A j : DeleteQueued(j)' <=> DeleteQueued(j)
  BY <1>3, <1>4 DEF DeleteQueued, Post, Delete
<1>6. \A j : Ready(j)' <=> Ready(j)
  BY <1>1 DEF Ready
<1>7. node \/ nodeRegs = 0 => Waiting'
  <2>1. Closed => Closed'
    BY <1>1, <1>2, ParameterAssumption DEF Closed
  <2> QED BY <1>1, <1>2, <1>5, <2>1 DEF Waiting
<1>8. node => NodeKept'
  BY <1>1, <1>2 DEF NodeKept
<1>9. ASSUME node, registered PROVE Flowing'
  <2>1. NoOrphans'
    BY <1>1, <1>2, <1>5, <1>9 DEF Flowing, NoOrphans
  <2>2. \A j \in Keys : mirror[j] # None => mirror'[j] # None
    BY <1>1, <1>2
  <2>3. ASSUME NEW i \in DOMAIN queue, NEW p \in Keys
        PROVE  (Before(i, p) => Before(i, p)') /\ (Ahead(i, p) => Ahead(i, p)')
    <3>1. Before(i, p) => Before(i, p)'
      BY <1>3, <1>4 DEF Before, Post, Delete
    <3>2. PostBefore(i, p) => PostBefore(i, p)'
      BY <1>4 DEF PostBefore
    <3> QED BY <1>5, <1>6, <2>2, <3>1, <3>2 DEF Ahead
  <2>4. ASSUME Parent[k] # Node, NEW i, i = Len(queue) + 1
        PROVE  Before(i, Parent[k])' /\ Ahead(i, Parent[k])'
    <3>1. /\ mirror[Parent[k]] # None /\ ~DeleteQueued(Parent[k]) /\ Parent[k] \in Keys
      BY <1>1, <2>4, ParameterAssumption
    <3>2. Before(i, Parent[k])'
      BY <1>5, <3>1 DEF Before, DeleteQueued
    <3>3. Ready(Parent[k]) \/ PostBefore(i, Parent[k])'
      <4>1. CASE Pending(Parent[k])
        BY <1>4, <2>4, <4>1 DEF Pending, PostBefore
      <4>2. CASE ~Pending(Parent[k])
        <5>1. \A s \in Stores : store[s].node
          BY <1>2, <1>9 DEF NodeKept
        <5>2. \A s \in Stores : \/ InFlight(Parent[k], s)
                                \/ Stored(Parent[k], s) /\ ~Sending(Parent[k])
          BY <1>2, <1>9, <3>1, <4>2, <5>1 DEF MirrorCovered, Covered
        <5>3. CASE pc["q"] = "res" /\ cur.key = Parent[k]
          BY <5>3 DEF Ready
        <5>4. CASE ~(pc["q"] = "res" /\ cur.key = Parent[k])
          <6>1. \A s \in Stores : ~InFlight(Parent[k], s)
            BY <5>4 DEF InFlight
          <6>2. \A s \in Stores : store[s].res[Parent[k]] # None /\ ~Sending(Parent[k])
            BY <3>1, <5>2, <6>1 DEF Stored
          <6>3. Stores # {}
            BY DEF Undisturbed
          <6> QED BY <6>2, <6>3 DEF Ready, Sending
        <5> QED BY <5>3, <5>4
      <4> QED BY <4>1, <4>2
    <3> QED BY <1>6, <2>2, <3>1, <3>2, <3>3 DEF Ahead
  <2>5. QueueOrdered'
    <3> SUFFICES ASSUME NEW i \in DOMAIN queue', NEW c \in Keys, queue'[i] = Post(c),
                        Parent[c] # Node
                 PROVE  Before(i, Parent[c])' /\ Ahead(i, Parent[c])'
      BY DEF QueueOrdered
    <3>1. Parent[c] \in Keys
      BY ParameterAssumption
    <3>2. CASE i \in DOMAIN queue
      <4>1. queue[i] = Post(c)
        BY <1>4, <3>2
      <4>2. Before(i, Parent[c]) /\ Ahead(i, Parent[c])
        BY <1>2, <1>9, <3>2, <4>1 DEF Flowing, QueueOrdered
      <4> QED BY <2>3, <3>1, <3>2, <4>2
    <3>3. CASE i = Len(queue) + 1
      <4>1. Post(c) = Post(k) /\ Post(c).key = c /\ Post(k).key = k
        BY <1>3, <3>3 DEF Post
      <4>2. c = k
        BY <4>1
      <4> QED BY <2>4, <3>3, <4>2
    <3> QED BY <1>4, <3>2, <3>3
  <2>6. Accepted'
    BY <1>1, <1>2, <1>9 DEF Flowing, Accepted
  <2>7. NoneLeft'
    <3>1. \A j \in Keys : mirror'[j] = None => mirror[j] = None
      BY <2>2
    <3>2. \A j : Leaving(j)' <=> Leaving(j)
      BY <1>1, <1>5 DEF Leaving
    <3>3. pc["q"] = "res" => cur.key \in Keys
      BY DEF OInv, IInv, Control
    <3> QED BY <1>1, <1>2, <1>5, <1>9, <3>1, <3>2, <3>3 DEF Flowing, NoneLeft
  <2> QED BY <2>1, <2>5, <2>6, <2>7 DEF Flowing
<1> QED BY <1>1, <1>2, <1>7, <1>8, <1>9 DEF Orderly, Reachable, Cleared

(* The client unregisters a resource, after those below it. *)
LEMMA UnregisterOrderly ==
  ASSUME OInv, Undisturbed, NEW k \in Keys, Unregister(k)
  PROVE  Orderly'
<1>1. /\ mirror' = [mirror EXCEPT ![k] = None] /\ queue' = Append(queue, Delete(k))
      /\ \A c \in Keys : Parent[c] = k => mirror[c] = None
      /\ pc["hb"] \notin {"clear", "post", "confirm"}
      /\ UNCHANGED <<node, nodeRegs, registered, pc, call, cur, store, dead>>
  BY DEF Unregister, Enqueue, MayCall, Undisturbed, network
<1>2. /\ Reachable /\ (node \/ nodeRegs = 0 => Waiting)
      /\ (node => NodeKept) /\ (node /\ registered => Flowing)
      /\ mirror \in [Keys -> Data \cup {None}] /\ queue \in Seq(Item)
      /\ Delete(k) \in Item
  BY DEF OInv, Orderly, IInv, TypeOK, Types, Delete, Item, Entities
<1>3. /\ DOMAIN queue' = 1..Len(queue) + 1 /\ DOMAIN queue = 1..Len(queue)
      /\ \A i \in 1..Len(queue) : queue'[i] = queue[i]
      /\ queue'[Len(queue) + 1] = Delete(k) /\ Len(queue) \in Nat
  BY <1>1, <1>2, QueueEntries, LenProperties
<1>4. /\ \A i \in DOMAIN queue : i \in DOMAIN queue' /\ queue'[i] = queue[i] /\ i < Len(queue) + 1
      /\ \A i \in DOMAIN queue' : i \in DOMAIN queue \/ i = Len(queue) + 1
      /\ Len(queue) + 1 \in DOMAIN queue'
  <2>1. /\ DOMAIN queue' = 1..Len(queue) + 1 /\ DOMAIN queue = 1..Len(queue)
        /\ Len(queue) \in Nat
    BY <1>3
  <2> QED BY <1>3, <2>1
<1>5. /\ \A j : j # k => (DeleteQueued(j)' <=> DeleteQueued(j))
      /\ DeleteQueued(k)'
      /\ \A j : DeleteQueued(j) => DeleteQueued(j)'
  BY <1>3, <1>4 DEF DeleteQueued, Delete
<1>6. \A j : Ready(j)' <=> Ready(j)
  BY <1>1 DEF Ready
<1>7. node \/ nodeRegs = 0 => Waiting'
  <2>1. Closed => Closed'
    BY <1>1, <1>2, ParameterAssumption DEF Closed
  <2> QED BY <1>1, <1>2, <1>5, <2>1, ParameterAssumption DEF Waiting
<1>8. node => NodeKept'
  BY <1>1, <1>2 DEF NodeKept
<1>9. ASSUME node, registered PROVE Flowing'
  <2>1. NoOrphans'
    BY <1>1, <1>2, <1>5, <1>9 DEF Flowing, NoOrphans
  <2>2. ASSUME NEW i \in DOMAIN queue, NEW p \in Keys
        PROVE  (Before(i, p) => Before(i, p)') /\ (Ahead(i, p) => Ahead(i, p)')
    <3>1. Before(i, p) => Before(i, p)'
      BY <1>4 DEF Before
    <3>2. PostBefore(i, p) => PostBefore(i, p)'
      BY <1>4 DEF PostBefore
    <3>3. CASE p = k
      BY <1>5, <3>1, <3>3 DEF Ahead
    <3>4. CASE p # k
      <4>1. mirror'[p] = mirror[p] /\ (DeleteQueued(p)' <=> DeleteQueued(p))
        BY <1>1, <1>2, <1>5, <3>4
      <4> QED BY <1>6, <3>1, <3>2, <4>1 DEF Ahead
    <3> QED BY <3>3, <3>4
  <2>3. QueueOrdered'
    <3> SUFFICES ASSUME NEW i \in DOMAIN queue', NEW c \in Keys, queue'[i] = Post(c),
                        Parent[c] # Node
                 PROVE  Before(i, Parent[c])' /\ Ahead(i, Parent[c])'
      BY DEF QueueOrdered
    <3>1. Parent[c] \in Keys
      BY ParameterAssumption
    <3>2. i \in DOMAIN queue /\ queue[i] = Post(c)
      BY <1>3, <1>4 DEF Post, Delete
    <3>3. Before(i, Parent[c]) /\ Ahead(i, Parent[c])
      BY <1>2, <1>9, <3>2 DEF Flowing, QueueOrdered
    <3> QED BY <2>2, <3>1, <3>2, <3>3
  <2>4. Accepted'
    BY <1>1, <1>2, <1>9 DEF Flowing, Accepted
  <2>5. NoneLeft'
    <3>1. \A j \in Keys : mirror'[j] = None => mirror[j] = None \/ j = k
      BY <1>1, <1>2
    <3>2. /\ \A j : Leaving(j) => Leaving(j)'
          /\ Leaving(k)'
      BY <1>1, <1>5 DEF Leaving
    <3>3. pc["q"] = "res" => cur.key \in Keys
      BY DEF OInv, IInv, Control
    <3> QED BY <1>1, <1>2, <1>5, <1>9, <3>1, <3>2, <3>3 DEF Flowing, NoneLeft
  <2> QED BY <2>1, <2>3, <2>4, <2>5 DEF Flowing
<1> QED BY <1>1, <1>2, <1>7, <1>8, <1>9 DEF Orderly, Reachable, Cleared

(* One step keeps Orderly, and takes no resource from the mirror of a      *)
(* registered node but by a call of the client.                            *)
LEMMA OrderlyStep ==
  ASSUME OInv, Restrictions, Undisturbed, [Next]_vars
  PROVE  Orderly' /\ (node => mirror' = mirror \/ ops' = ops + 1)
<1> USE DEF client, network, budget
<1>1. /\ pc \in [Greenlets -> Places] /\ call \in [Greenlets -> Calls]
      /\ p2p \in Switch /\ aggregator \in Hrefs \cup {NoHref}
      /\ "hb" \in Greenlets /\ "q" \in Greenlets /\ queue \in Seq(Item)
      /\ \A g \in Greenlets : g = "hb" \/ g = "q"
      /\ registered \in BOOLEAN /\ node \in BOOLEAN /\ nodeRegs \in Nat
  BY DEF OInv, IInv, TypeOK, Types, Places, Greenlets
<1>2. /\ Reachable /\ (node \/ nodeRegs = 0 => Waiting)
      /\ (node => NodeKept) /\ (node /\ registered => Flowing)
      /\ nodeRegs = 0 => ~node /\ ~registered /\ pc["hb"] \in {"sleep", "done"}
      /\ registered => pc["hb"] \notin {"clear", "post", "confirm"}
      /\ pc["q"] \notin {"node", "nodebeat"} /\ late = {}
  BY DEF OInv, Orderly, IInv, NodeOnce
<1>3. CASE Wake
  <2>1. /\ pc["hb"] = "sleep"
        /\ UNCHANGED <<node, nodeRegs, mirror, queue, store, dead, cur>>
        /\ \/ Rest("hb", "done") /\ registered' = registered
           \/ /\ Send("hb", "clear", aggregator)
              /\ ~registered /\ registered' = registered
           \/ Send("hb", "beat", aggregator) /\ registered' = registered
           \/ UNCHANGED <<pc, call, registered>>
           \/ UNCHANGED <<pc, call>> /\ registered /\ ~registered' /\ ~node
    BY <1>3 DEF Wake
  <2>2. pc'["q"] = pc["q"] /\ call'["q"] = call["q"]
    BY <1>1, <2>1 DEF Rest, Send
  <2>3. (registered' => registered) /\ (node /\ registered => registered')
        /\ (nodeRegs = 0 => registered' = registered)
    BY <1>1, <1>2, <2>1
  <2>4. node => NodeKept'
    <3>1. CASE Rest("hb", "done") /\ registered' = registered
      <4>1. pc'["hb"] = "done"
        BY <1>1, <3>1 DEF Rest
      <4> QED BY <1>2, <2>1, <3>1, <4>1 DEF NodeKept
    <3>2. CASE Send("hb", "clear", aggregator) /\ ~registered'
      <4>1. pc'["hb"] = "clear" /\ call'["hb"].phase # "answered"
        BY <1>1, <3>2, SendControl DEF OInv, IInv, Places
      <4> QED BY <3>2, <4>1 DEF NodeKept
    <3>3. CASE Send("hb", "beat", aggregator) /\ registered' = registered
      <4>1. pc'["hb"] = "beat" /\ call'["hb"].phase # "answered"
        BY <1>1, <3>3, SendControl DEF OInv, IInv, Places
      <4>2. call'["hb"].tries = 0
        BY <1>1, <3>3 DEF Send, Attempt
      <4> QED BY <1>2, <2>1, <3>3, <4>1, <4>2 DEF NodeKept
    <3>4. CASE UNCHANGED <<pc, call>> /\ (registered' => registered)
      BY <1>2, <2>1, <3>4 DEF NodeKept
    <3> QED BY <2>1, <2>3, <3>1, <3>2, <3>3, <3>4
  <2> QED BY <2>1, <2>2, <2>3, <2>4, OrderlyFrame
<1>4. CASE Take
  BY <1>4, TakeOrderly DEF Take
<1>5. CASE QueueEnds
  <2>1. /\ pc["q"] = "idle" /\ pc'["q"] = "done"
        /\ pc'["hb"] = pc["hb"] /\ call'["hb"] = call["hb"]
        /\ UNCHANGED <<node, nodeRegs, registered, mirror, queue, store, dead, cur>>
    BY <1>1, <1>5 DEF QueueEnds, Rest
  <2>2. node \/ nodeRegs = 0 => Waiting'
    BY <1>2, <2>1 DEF Waiting, Closed, DeleteQueued
  <2>3. node => NodeKept'
    BY <1>2, <2>1 DEF NodeKept, Cleared
  <2>4. node /\ registered => Flowing'
    BY <1>2, <2>1, FlowingAtRest
  <2> QED BY <1>2, <2>1, <2>2, <2>3, <2>4 DEF Orderly, Reachable, Cleared
<1>6. ASSUME NEW g \in Greenlets, NEW c, call' = [call EXCEPT ![g] = c],
             c.phase # "answered",
             g = "q" /\ pc["q"] = "res" /\ node =>
               c.tries = call["q"].tries /\ call["q"].phase # "answered",
             g = "hb" /\ pc["hb"] = "beat" /\ node /\ registered => c.tries = call["hb"].tries,
             UNCHANGED <<node, nodeRegs, registered, mirror, queue, pc, cur, store, dead>>
      PROVE  Orderly'
  <2>1. call'[g] = c /\ \A h \in Greenlets : h # g => call'[h] = call[h]
    BY <1>1, <1>6
  <2>2. node => NodeKept'
    <3>1. CASE g = "hb"
      BY <1>2, <1>6, <2>1, <3>1 DEF NodeKept, Cleared
    <3>2. CASE g = "q"
      <4>1. call'["hb"] = call["hb"]
        BY <1>1, <2>1, <3>2
      <4> QED BY <1>2, <1>6, <4>1 DEF NodeKept, Cleared
    <3> QED BY <1>1, <3>1, <3>2
  <2>3. node \/ nodeRegs = 0 => Waiting'
    BY <1>2, <1>6 DEF Waiting, Closed, DeleteQueued
  <2>4. call'["q"].phase = "answered" => call["q"].phase = "answered"
    BY <1>1, <1>6, <2>1
  <2>5. node /\ Accepted => Accepted'
    <3>1. CASE g = "hb"
      <4>1. call'["q"] = call["q"]
        BY <1>1, <2>1, <3>1
      <4> QED BY <1>6, <4>1 DEF Accepted
    <3>2. CASE g = "q"
      BY <1>6, <2>1, <3>2 DEF Accepted
    <3> QED BY <1>1, <3>1, <3>2
  <2>6. node /\ registered => Flowing'
    BY <1>2, <1>6, <2>4, <2>5, FlowingFrame DEF Flowing
  <2> QED BY <1>2, <1>6, <2>2, <2>3, <2>6 DEF Orderly, Reachable, Cleared
<1>7. ASSUME NEW g \in Greenlets, NEW href \in Hrefs \cup {NoHref}, Resolve(g, href)
      PROVE  Orderly' /\ (node => mirror' = mirror)
  <2>1. /\ call[g].phase = "resolve" /\ UNCHANGED <<store, late, dead, nodeRegs>>
        /\ href # NoHref
    BY <1>2, <1>7 DEF Resolve, Spend, Undisturbed, Reachable
  <2>2. CASE GivesUp(call[g].tries, href) /\ Return(g, "failed", Raised(p2p), href)
    <3>1. call[g].tries = 3
      BY <2>1, <2>2 DEF GivesUp
    <3>2. Raised(p2p) \in Switch
      BY <1>1, SwitchType
    <3> QED BY <2>1, <2>2, <3>1, <3>2, ReturnOrderly
  <2>3. CASE /\ call' = [call EXCEPT ![g] = Attempt(call[g].tries, href)]
             /\ UNCHANGED <<client, registered, queue, running, p2p, pc, cur>>
    <3>1. call[g].tries \in 0..3
      BY <1>1 DEF Calls
    <3>2. /\ Attempt(call[g].tries, href).phase # "answered"
          /\ Attempt(call[g].tries, href).tries = call[g].tries
      BY <3>1, AttemptType DEF Attempt
    <3> QED BY <1>6, <2>1, <2>3, <3>2
  <2> QED BY <1>7, <2>2, <2>3 DEF Resolve
<1>8. ASSUME NEW g \in Greenlets, Deliver(g)
      PROVE  Orderly' /\ (node => mirror' = mirror)
  <2>1. /\ call[g].phase = "answered" /\ UNCHANGED <<store, late, dead, nodeRegs>>
    BY <1>8 DEF Deliver
  <2>2. ASSUME NEW p \in Switch, Return(g, call[g].answer, p, aggregator),
               call[g].answer # "failed"
        PROVE  Orderly' /\ (node => mirror' = mirror)
    BY <1>1, <2>1, <2>2, ReturnOrderly
  <2>3. CASE /\ call[g].answer # "ok"
             /\ call' = [call EXCEPT ![g].phase = "resolve", ![g].tries = @ + 1]
             /\ UNCHANGED <<client, registered, queue, running, aggregator, p2p,
                            pc, cur>>
    <3> DEFINE c == [call[g] EXCEPT !.phase = "resolve", !.tries = @ + 1]
    <3>1. call' = [call EXCEPT ![g] = c] /\ c.phase = "resolve"
      BY <1>1, <2>3 DEF Calls
    <3>2. ~(g = "q" /\ pc["q"] = "res" /\ node)
      BY <1>2, <2>1, <2>3 DEF Waiting, Flowing, Accepted
    <3>3. ~(g = "hb" /\ pc["hb"] = "beat" /\ node /\ registered)
      BY <1>2, <2>1, <2>3 DEF NodeKept
    <3> HIDE DEF c
    <3> QED BY <1>6, <2>1, <2>3, <3>1, <3>2, <3>3
  <2> QED BY <1>1, <1>8, <2>2, <2>3, SwitchType DEF Deliver, IsClientError
<1>9. ASSUME NEW g \in Greenlets, Serve(g)
      PROVE  Orderly' /\ mirror' = mirror
  <2>1. mirror' = mirror
    BY <1>9, ServedStore
  <2> QED BY <1>1, <1>9, <2>1, QueueServedOrderly, HeartbeatServedOrderly
<1>10. ~Fault /\ ~ServeLate
  <2>1. \A kind : ~Spend(kind)
    BY DEF Spend, Undisturbed
  <2> QED BY <1>2, <2>1 DEF Fault, Fail, Refuse, Lose, TimeOut, Garble, Forget, Outage, ServeLate,
             Reachable
<1>11. CASE RegisterNode
  <2>1. /\ nodeRegs = 0 /\ nodeRegs' # 0 /\ queue' = Append(queue, Post(Node))
        /\ UNCHANGED <<registered, mirror, pc, call, cur, store, dead>>
    BY <1>1, <1>11, ParameterAssumption
       DEF RegisterNode, Count, Enqueue, Restrictions
  <2>2. ~DeleteQueued(Node)'
    <3>1. /\ DOMAIN queue' = 1..Len(queue) + 1 /\ DOMAIN queue = 1..Len(queue)
          /\ \A i \in 1..Len(queue) : queue'[i] = queue[i]
          /\ queue'[Len(queue) + 1] = Post(Node) /\ Len(queue) \in Nat
      <4>1. Post(Node) \in Item
        BY DEF Post, Item, Entities
      <4> QED BY <1>1, <2>1, <4>1, QueueEntries, LenProperties
    <3>2. \A i \in DOMAIN queue' : i \in DOMAIN queue \/ i = Len(queue) + 1
      BY <3>1
    <3> QED BY <1>2, <2>1, <3>1, <3>2 DEF Waiting, DeleteQueued, Post, Delete
  <2>3. Waiting'
    BY <1>2, <2>1, <2>2 DEF Waiting, Closed
  <2>4. NodeKept' /\ ~registered'
    BY <1>2, <2>1 DEF NodeKept
  <2> QED BY <1>2, <2>1, <2>3, <2>4 DEF Orderly, Reachable, Cleared
<1>12. CASE UnregisterNode
  BY <1>2, <1>12 DEF UnregisterNode, Enqueue, Orderly, Reachable, Cleared
<1>13. ASSUME NEW k \in Keys, NEW d \in Data, Register(k, d)
       PROVE  Orderly' /\ ops' = ops + 1
  BY <1>13, RegisterOrderly DEF Register, Count
<1>14. ASSUME NEW k \in Keys, Unregister(k)
       PROVE  Orderly' /\ ops' = ops + 1
  BY <1>14, UnregisterOrderly DEF Unregister, Count
<1>15. CASE UNCHANGED <<node, nodeRegs, registered, mirror, queue, pc, call, cur, store, dead>>
  <2>1. node => NodeKept'
    BY <1>2, <1>15 DEF NodeKept, Cleared
  <2> QED BY <1>15, <2>1, OrderlyFrame
<1>16. CASE Client
  <2>1. CASE Stop
    BY <1>15, <2>1 DEF Stop
  <2>2. CASE RegisterNode
    BY <1>11, <2>2 DEF RegisterNode
  <2>3. CASE UnregisterNode
    BY <1>12, <2>3 DEF UnregisterNode
  <2> QED BY <1>13, <1>14, <1>16, <2>1, <2>2, <2>3 DEF Client
<1>17. CASE UNCHANGED vars
  BY <1>15, <1>17 DEF vars
<1> QED
  BY <1>3, <1>4, <1>5, <1>7, <1>8, <1>9, <1>10, <1>16, <1>17
     DEF Next, Step, Terminated, Wake, QueueEnds

(* It holds throughout. *)
LEMMA AlwaysOrderly ==
  ASSUME Restrictions, Undisturbed
  PROVE  Spec => []OInv
<1>1. Init => OInv
  <2>1. Init => TypeOK
    BY InitType
  <2>2. Init => Control /\ NodeOnce /\ MirrorCovered
    BY DEF Init, Control, NodeOnce, NodePostQueued, MirrorCovered, NoCall, Greenlets
  <2>3. Init => Orderly
    <3> SUFFICES ASSUME Init PROVE Orderly
      OBVIOUS
    <3>1. ~dead /\ ~node /\ pc["q"] = "idle" /\ queue = << >>
          /\ \A k \in Keys : mirror[k] = None
      BY DEF Init, Greenlets
    <3>2. \A s \in Stores : ~store[s].node => Cleared(s)
      BY DEF Init, Empty, Cleared
    <3>3. Waiting
      BY <3>1 DEF Waiting, Closed, DeleteQueued
    <3> QED BY <3>1, <3>2, <3>3 DEF Orderly, Reachable
  <2> QED  BY <2>1, <2>2, <2>3 DEF IInv, OInv
<1>2. OInv /\ [Next]_vars => OInv'
  BY TypeStep, ControlStep, CoveredStep, OrderlyStep DEF IInv, OInv
<1> QED  BY <1>1, <1>2, PTL DEF Spec

(* No resource is dropped: however many resources a client keeps           *)
(* registered, in whatever order it registers and unregisters them and     *)
(* however its calls interleave with the two greenlets, _process_queue's   *)
(* line 165 never takes one from the mirror.                               *)
THEOREM ResourcesAlwaysKept ==
  ASSUME Restrictions, Undisturbed
  PROVE  Spec => KeepsResources
<1>1. OInv /\ [Next]_vars =>
        [\A k \in Keys :
           node /\ mirror[k] \notin {None, BadData} /\ mirror'[k] = None
             => ops' = ops + 1]_vars
  <2> SUFFICES ASSUME OInv, [Next]_vars, NEW k \in Keys,
                      node, mirror[k] \notin {None, BadData}, mirror'[k] = None
               PROVE  ops' = ops + 1
    OBVIOUS
  <2>1. mirror' = mirror \/ ops' = ops + 1
    BY OrderlyStep
  <2> QED BY <2>1
<1> QED  BY <1>1, AlwaysOrderly, PTL DEF Spec, KeepsResources

(* When nothing is left to send, the registry in use holds the mirror,     *)
(* neither more nor less.                                                  *)
THEOREM AlwaysInSync ==
  ASSUME Restrictions, Undisturbed
  PROVE  Spec => []InSync
<1>1. OInv => InSync
  <2> SUFFICES ASSUME OInv, Quiet, Current.node
               PROVE  Current.res = mirror
    BY DEF InSync
  <2>1. PICK s \in Stores : Current = store[s]
    BY ParameterAssumption DEF Current, Empty
  <2>2. /\ store[s] \in Contents /\ store[s].node /\ mirror \in [Keys -> Data \cup {None}]
        /\ MirrorCovered /\ Flowing /\ registered /\ node
        /\ queue = << >> /\ pc["q"] = "idle"
    BY <2>1 DEF OInv, Orderly, IInv, TypeOK, Types, Quiet
  <2>3. ASSUME NEW k \in Keys PROVE store[s].res[k] = mirror[k]
    <3>1. ~DeleteQueued(k) /\ ~Pending(k)
      BY <2>2 DEF DeleteQueued, Pending
    <3>2. CASE mirror[k] = None
      BY <2>2, <3>1, <3>2 DEF Flowing, NoneLeft, Leaving
    <3>3. CASE mirror[k] # None
      <4>1. Covered(k, s)
        BY <2>2, <3>3 DEF MirrorCovered
      <4> QED BY <2>2, <3>1, <4>1 DEF Covered, InFlight, Stored
    <3> QED BY <3>2, <3>3
  <2> QED BY <2>1, <2>2, <2>3 DEF Contents
<1> QED  BY <1>1, AlwaysOrderly, PTL
===============================================================================
