----------------------------- MODULE FacadeProofs -----------------------------
(***************************************************************************)
(* The types of the Facade's variables, the lock among them, and that its  *)
(* flags tell the truth (FlagTells), for any resources, controls, values,  *)
(* faults and calls of the client.                                         *)
(*                                                                         *)
(* FInv is the inductive invariant.  Base holds whatever the client does:  *)
(* the request of a thread is one that its routine makes, and what the     *)
(* client tells the facade of an entry is what the proxy has.  Watchful is *)
(* what a careful client has on top of it: in the loops of reregister_all  *)
(* an entry that the facade has wrong is one they have yet to see through; *)
(* elsewhere it is one that the client is telling the facade, or the flag  *)
(* is set or about to be.                                                  *)
(***************************************************************************)
EXTENDS Facade, TLAPS

(* Which routines the threads are in, and which request belongs to each. *)
Routine(t) == IF t = "hb" THEN {"heartbeat", "unregister", "register"} \cup Loops
              ELSE {"register", "unregister", "call"}
MethodIn(routine) == IF routine \in Loops \cup {"call"} THEN "put" ELSE routine
Table == IF pc["hb"] = "resources" THEN Resources ELSE Controls

InRoutine(t) ==
  \/ pc[t] = "idle" /\ phase[t] = "none"
  \/ /\ pc[t] \in Routine(t) /\ phase[t] # "none"
     /\ cur[t].method = MethodIn(pc[t])

Routines ==
  /\ \A t \in Threads : InRoutine(t)
  /\ pc["hb"] \in Loops => cur["hb"].key \in Table

(* A facade that is down knows nothing; a proxy without an address, or one *)
(* that is registering, mirrors nothing; what the client tells the facade  *)
(* of an entry is what the proxy has.                                      *)
Down == ~host.up => ~host.srv
Unknown == ~href \/ pc["cl"] = "register" => mirror = Nothing
Carried == pc["cl"] = "call" => cur["cl"].data = mirror[cur["cl"].key]

Base == TypeOK /\ Routines /\ Down /\ Unknown /\ Carried

(* A careful client's calls but those about entries keep away from the     *)
(* heartbeat.                                                              *)
Apart == pc["hb"] # "idle" => href /\ pc["cl"] \in {"idle", "call"}

Registering == pc["hb"] = "register" => ~srv_registered

(* The heartbeat has registered the service and not yet looked at the      *)
(* answer: it has the lock, so that the facade holds nothing yet.          *)
Registered == pc["hb"] = "register" /\ phase["hb"] = "back" /\ answer["hb"] = "success"
Fresh == Registered /\ host.srv => host.held = Nothing

(* A Proxy is there for the loops, or the client's failure to reach the    *)
(* facade has had the flag set.                                            *)
Opened ==
  (\/ pc["hb"] = "register" /\ phase["hb"] = "asked"
   \/ Registered
   \/ pc["hb"] \in Loops /\ host.srv) => ipc \/ reregister

(* An entry that the loops have yet to see through. *)
Agrees(k) == host.held[k] = mirror[k]
Todo(k) ==
  /\ mirror[k] # None
  /\ \/ k \in Controls /\ pc["hb"] = "resources"
     \/ k \in Table \ iter.done
     \/ k = cur["hb"].key /\ (phase["hb"] # "back" \/ ~Replied("hb"))

Looping ==
  pc["hb"] \in Loops =>
    /\ phase["hb"] # "setup" /\ iter.start = Live(Table)
    /\ cur["hb"].key \in Live(Table) \cap iter.done
    /\ cur["hb"].data = mirror[cur["hb"].key]
    /\ host.srv => (\A k \in Keys : Agrees(k) \/ Todo(k))
    /\ host.srv /\ phase["hb"] = "back" /\ ~Replied("hb") => reregister

(* Elsewhere an entry that the facade has wrong is one that the client is  *)
(* telling it, or the flag is set or about to be.                          *)
Telling(k) ==
  pc["cl"] = "call" /\ phase["cl"] \in {"setup", "lock", "asked"} /\ cur["cl"].key = k
Doubt == reregister \/ (pc["cl"] = "call" /\ phase["cl"] = "back" /\ ~Replied("cl"))
Settled ==
  pc["hb"] \notin Loops /\ ~Registered /\ host.srv /\ ~Doubt =>
    \A k \in Keys : Agrees(k) \/ Telling(k)

Watchful == Apart /\ Registering /\ Fresh /\ Opened /\ Looping /\ Settled
FInv == Base /\ (Careful => Watchful)
-------------------------------------------------------------------------------
(* How the steps leave the tables of the threads.                          *)
ThreadTypes ==
  /\ pc \in [Threads -> {"idle", "heartbeat", "unregister", "register", "call"} \cup Loops]
  /\ phase \in [Threads -> {"none", "setup", "lock", "asked", "back"}]
  /\ cur \in [Threads -> Requests]

OthersAs(t) == \A u \in Threads \ {t} : pc'[u] = pc[u] /\ phase'[u] = phase[u] /\ cur'[u] = cur[u]

(* A service's request and an entry's are requests. *)
LEMMA CallsTyped ==
  /\ \A m \in {"heartbeat", "unregister", "register"} :
       ServiceCall(m) \in Requests /\ ServiceCall(m).method = m
  /\ \A k \in Keys, v \in Entry :
       /\ EntryCall(k, v) \in Requests /\ EntryCall(k, v).method = "put"
       /\ EntryCall(k, v).key = k /\ EntryCall(k, v).data = v
BY DEF ServiceCall, EntryCall, Requests

(* An entry's request is about a key. *)
LEMMA PutTyped ==
  ASSUME NEW c \in Requests, c.method = "put"
  PROVE  c.key \in Keys /\ c.data \in Entry
BY DEF Requests

(* A thread that has nothing more to do. *)
LEMMA RestLeaves ==
  ASSUME ThreadTypes, NEW t \in Threads, Rest(t)
  PROVE  /\ ThreadTypes' /\ OthersAs(t)
         /\ pc'[t] = "idle" /\ phase'[t] = "none"
<1>1. ServiceCall("heartbeat") \in Requests
  BY CallsTyped
<1>2. ThreadTypes'
  BY <1>1 DEF ThreadTypes, Rest
<1> QED BY <1>2 DEF ThreadTypes, Rest, OthersAs

(* A thread that makes another call. *)
LEMMA BeginLeaves ==
  ASSUME ThreadTypes, NEW t \in Threads,
         NEW routine \in {"heartbeat", "unregister", "register", "call"} \cup Loops,
         NEW c \in Requests, NEW open, Begin(t, routine, c, open)
  PROVE  /\ ThreadTypes' /\ OthersAs(t)
         /\ pc'[t] = routine /\ cur'[t] = c
         /\ phase'[t] = IF open THEN "lock" ELSE "setup"
BY DEF ThreadTypes, Begin, OthersAs

(* A loop of reregister_all visits a key, goes on to the next loop, or ends *)
(* everything, having been through the keys that are live; unless the size *)
(* of its dictionary has changed.                                          *)
LEMMA ControlsLoop ==
  ASSUME NEW start, NEW done, NEW open, LoopControls(start, done, open)
  PROVE  \/ ~SameSize(Controls, start) /\ Interrupted
         \/ \E k \in Live(Controls) \ done : Visit("controls", start, done, k, open)
         \/ Over(Controls, start, done) /\ Finished(open)
BY DEF LoopControls

LEMMA ResourcesLoop ==
  ASSUME NEW start, NEW done, NEW open, LoopResources(start, done, open)
  PROVE  \/ ~SameSize(Resources, start) /\ Interrupted
         \/ \E k \in Live(Resources) \ done : Visit("resources", start, done, k, open)
         \/ /\ Over(Resources, start, done)
            /\ \/ \E k \in Live(Controls) : Visit("controls", Live(Controls), {}, k, open)
               \/ Live(Controls) = {} /\ Finished(open)
<1>1. CASE LoopControls(Live(Controls), {}, open) /\ Over(Resources, start, done)
  <2>1. SameSize(Controls, Live(Controls))
    BY DEF SameSize
  <2>2. Over(Controls, Live(Controls), {}) => Live(Controls) = {}
    BY DEF Over
  <2>3. Live(Controls) \ {} = Live(Controls)
    OBVIOUS
  <2> QED BY <1>1, <2>1, <2>2, <2>3, ControlsLoop
<1> QED BY <1>1 DEF LoopResources
-------------------------------------------------------------------------------
(* The first half of the invariant: Base.                                  *)
LEMMA InitBase == Init => Base
<1> SUFFICES ASSUME Init PROVE Base
  OBVIOUS
<1>1. Nothing \in [Keys -> Entry]
  BY DEF Nothing, Entry
<1>2. ServiceCall("heartbeat") \in Requests
  BY CallsTyped
<1>3. host = [up |-> FALSE, srv |-> FALSE, held |-> Nothing]
  BY DEF Init, Empty
<1>4. world.ops \in Nat /\ MaxFaults \in Nat
  BY FacadeAssumption DEF Init
<1>5. TypeOK
  <2>1. /\ world \in Worlds /\ {ipc, srv_registered, reregister, href} \subseteq BOOLEAN
        /\ mirror \in [Keys -> Entry] /\ lock = "free"
        /\ iter = [start |-> {}, done |-> {}] /\ faults = 0 /\ ops = 0
    BY <1>1 DEF Init
  <2>2. /\ pc = [t \in Threads |-> "idle"] /\ phase = [t \in Threads |-> "none"]
        /\ cur = [t \in Threads |-> ServiceCall("heartbeat")]
        /\ answer = [t \in Threads |-> "none"]
    BY DEF Init
  <2>3. host \in [up : BOOLEAN, srv : BOOLEAN, held : [Keys -> Entry]]
    BY <1>1, <1>3
  <2>4. faults \in 0 .. MaxFaults /\ ops \in 0 .. world.ops
    BY <1>4, <2>1
  <2>5. iter \in [start : SUBSET Keys, done : SUBSET Keys]
    BY <2>1
  <2> QED BY <1>2, <2>1, <2>2, <2>3, <2>4, <2>5 DEF TypeOK
<1>6. Routines /\ Down /\ Unknown /\ Carried
  BY <1>3 DEF Init, Routines, InRoutine, Down, Unknown, Carried, Threads, Loops
<1> QED BY <1>5, <1>6 DEF Base

(* The parts of Base that a step of a thread touches, and the rest.        *)
LEMMA BaseOfParts ==
  ASSUME Base, UNCHANGED world,
         ThreadTypes',
         {ipc, srv_registered, reregister, href}' \subseteq BOOLEAN,
         (mirror \in [Keys -> Entry])', (lock \in Threads \cup {"free"})',
         (answer \in [Threads -> {"none", "absent", "failed", "success", "refused"}])',
         (iter \in [start : SUBSET Keys, done : SUBSET Keys])',
         (host \in [up : BOOLEAN, srv : BOOLEAN, held : [Keys -> Entry]])',
         faults' \in 0 .. MaxFaults, ops' \in 0 .. world.ops,
         \A t \in Threads : phase'[t] = "asked" => lock' = t,
         \A t \in Threads : phase'[t] = "back" /\ answer'[t] \in {"success", "refused"} => lock' = t,
         Routines', Down', Unknown', Carried'
  PROVE  Base'
<1>1. TypeOK'
  BY DEF Base, TypeOK, ThreadTypes, Replied
<1> QED BY <1>1 DEF Base

LEMMA BaseHas ==
  ASSUME Base
  PROVE  /\ ThreadTypes
         /\ {ipc, srv_registered, reregister, href} \subseteq BOOLEAN
         /\ mirror \in [Keys -> Entry] /\ lock \in Threads \cup {"free"}
         /\ answer \in [Threads -> {"none", "absent", "failed", "success", "refused"}]
         /\ iter \in [start : SUBSET Keys, done : SUBSET Keys]
         /\ host \in [up : BOOLEAN, srv : BOOLEAN, held : [Keys -> Entry]]
         /\ faults \in 0 .. MaxFaults /\ ops \in 0 .. world.ops
         /\ world.ops \in Nat /\ MaxFaults \in Nat
         /\ \A t \in Threads : phase[t] = "asked" => lock = t
         /\ \A t \in Threads : phase[t] = "back" /\ answer[t] \in {"success", "refused"} => lock = t
         /\ Routines /\ Down /\ Unknown /\ Carried
<1>1. world.ops \in Nat /\ MaxFaults \in Nat
  BY FacadeAssumption DEF Base, TypeOK
<1> QED BY <1>1 DEF Base, TypeOK, ThreadTypes, Replied
-------------------------------------------------------------------------------
(* The steps of the proxy's Proxy and of the facade.                       *)
LEMMA SetupBase ==
  ASSUME Base, NEW t \in Threads, Setup(t), UNCHANGED world
  PROVE  Base'
<1>0. ThreadTypes /\ Routines /\ Down /\ Unknown /\ Carried
  BY BaseHas
<1>1. PICK open \in BOOLEAN :
        /\ ipc' = open
        /\ phase' = [phase EXCEPT ![t] = IF open THEN "lock" ELSE "back"]
        /\ answer' = [answer EXCEPT ![t] = IF open THEN @ ELSE "absent"]
  BY DEF Setup
<1>2. UNCHANGED <<srv_registered, reregister, mirror, lock, pc, cur, iter, href, host, faults, ops>>
  BY DEF Setup
<1>3. phase[t] = "setup"
  BY DEF Setup
<1>4. \A u \in Threads : u # t => phase'[u] = phase[u] /\ answer'[u] = answer[u]
  BY <1>1, BaseHas DEF ThreadTypes
<1>5. phase'[t] \in {"lock", "back"} /\ (phase'[t] = "back" => answer'[t] = "absent")
  BY <1>1, BaseHas DEF ThreadTypes
<1>6. ThreadTypes'
  BY <1>0, <1>1, <1>2 DEF ThreadTypes
<1>7. answer' \in [Threads -> {"none", "absent", "failed", "success", "refused"}]
  BY <1>1, BaseHas
<1>8. Routines'
  BY <1>0, <1>2, <1>3, <1>4, <1>5 DEF Routines, InRoutine, Routine, MethodIn, Table
<1>9. Down' /\ Unknown' /\ Carried'
  BY <1>0, <1>2 DEF Down, Unknown, Carried
<1>10. \A u \in Threads : phase'[u] = "asked" => lock' = u
  BY <1>2, <1>4, <1>5, BaseHas
<1>11. \A u \in Threads : phase'[u] = "back" /\ answer'[u] \in {"success", "refused"} => lock' = u
  BY <1>2, <1>4, <1>5, BaseHas
<1> QED
  BY <1>1, <1>2, <1>6, <1>7, <1>8, <1>9, <1>10, <1>11, BaseHas, BaseOfParts

LEMMA AskBase ==
  ASSUME Base, NEW t \in Threads, Ask(t), UNCHANGED world
  PROVE  Base'
<1>0. ThreadTypes /\ Routines /\ Down /\ Unknown /\ Carried
  BY BaseHas
<1>1. /\ UNCHANGED <<ipc, srv_registered, reregister, mirror, pc, iter, href, host, faults, ops>>
      /\ phase[t] = "lock" /\ lock = "free"
  BY DEF Ask, Free
<1>2. Down' /\ Unknown'
  BY <1>0, <1>1 DEF Down, Unknown
<1>3. CASE Gone(t)
  <2>1. /\ phase' = [phase EXCEPT ![t] = "back"]
        /\ answer' = [answer EXCEPT ![t] = "failed"]
        /\ UNCHANGED <<lock, cur>>
    BY <1>3 DEF Ask
  <2>2. \A u \in Threads : u # t => phase'[u] = phase[u] /\ answer'[u] = answer[u]
    BY <2>1, BaseHas DEF ThreadTypes
  <2>3. phase'[t] = "back" /\ answer'[t] = "failed"
    BY <2>1, BaseHas DEF ThreadTypes
  <2>4. ThreadTypes' /\ answer' \in [Threads -> {"none", "absent", "failed", "success", "refused"}]
    BY <1>1, <2>1, BaseHas DEF ThreadTypes
  <2>5. Routines' /\ Carried'
    BY <1>0, <1>1, <2>1, <2>2, <2>3
       DEF Routines, InRoutine, Routine, MethodIn, Table, Carried
  <2>6. \A u \in Threads : phase'[u] = "asked" => lock' = u
    BY <2>1, <2>2, <2>3, BaseHas
  <2>7. \A u \in Threads : phase'[u] = "back" /\ answer'[u] \in {"success", "refused"} => lock' = u
    BY <2>1, <2>2, <2>3, BaseHas
  <2> QED BY <1>1, <1>2, <2>1, <2>4, <2>5, <2>6, <2>7, BaseHas, BaseOfParts
<1>4. CASE ~Gone(t)
  <2>1. /\ lock' = t
        /\ phase' = [phase EXCEPT ![t] = "asked"]
        /\ cur' = [cur EXCEPT ![t].data = Contents(t)]
        /\ UNCHANGED answer
    BY <1>4 DEF Ask
  <2>2. \A u \in Threads : u # t => phase'[u] = phase[u] /\ cur'[u] = cur[u]
    BY <2>1, BaseHas DEF ThreadTypes
  <2>3. phase'[t] = "asked" /\ cur'[t] = [cur[t] EXCEPT !.data = Contents(t)]
    BY <2>1, BaseHas DEF ThreadTypes
  <2>4. cur[t] \in Requests
    BY <1>0 DEF ThreadTypes
  <2>5. /\ cur'[t].method = cur[t].method /\ cur'[t].key = cur[t].key
        /\ cur'[t].data = Contents(t) /\ cur'[t] \in Requests
    <3>1. CASE pc[t] = "resources"
      <4>1. cur[t].method = "put" /\ Contents(t) = mirror[cur[t].key]
        BY <1>0, <3>1 DEF Routines, InRoutine, MethodIn, Loops, Contents
      <4>2. cur[t].key \in Keys
        BY <2>4, <4>1, PutTyped
      <4>3. Contents(t) \in Entry
        BY <4>1, <4>2, BaseHas
      <4>4. cur[t] \in [method : {"put"}, key : Keys, data : Entry]
        BY <2>4, <4>1 DEF Requests
      <4> QED BY <2>3, <4>3, <4>4 DEF Requests
    <3>2. CASE pc[t] # "resources"
      BY <2>3, <2>4, <3>2 DEF Contents, Requests
    <3> QED BY <3>1, <3>2
  <2>6. ThreadTypes'
    BY <1>0, <1>1, <2>1, <2>2, <2>3, <2>5 DEF ThreadTypes
  <2>7. Routines'
    <3>1. \A u \in Threads : cur'[u].method = cur[u].method /\ cur'[u].key = cur[u].key
      BY <2>2, <2>5
    <3>2. \A u \in Threads : phase'[u] = phase[u] \/ (phase[u] # "none" /\ phase'[u] # "none")
      BY <1>1, <2>2, <2>3
    <3>3. UNCHANGED pc /\ \A u \in Threads : InRoutine(u)
      BY <1>0, <1>1 DEF Routines
    <3>4. \A u \in Threads : InRoutine(u)'
      BY <3>1, <3>2, <3>3 DEF InRoutine, Routine, MethodIn
    <3>5. "hb" \in Threads
      BY DEF Threads
    <3> QED BY <1>0, <1>1, <3>1, <3>4, <3>5 DEF Routines, Table
  <2>8. Carried'
    BY <1>0, <1>1, <2>2, <2>5 DEF Carried, Contents, Threads
  <2>9. \A u \in Threads : phase'[u] = "asked" => lock' = u
    BY <1>1, <2>1, <2>2, <2>3, BaseHas DEF Threads
  <2>10. \A u \in Threads : phase'[u] = "back" /\ answer'[u] \in {"success", "refused"} => lock' = u
    BY <1>1, <2>1, <2>2, <2>3, BaseHas DEF Threads
  <2> QED
    BY <1>1, <1>2, <2>1, <2>6, <2>7, <2>8, <2>9, <2>10, BaseHas, BaseOfParts
<1> QED BY <1>3, <1>4

(* What the facade makes of a request: what it holds of the service.       *)
LEMMA ServedIs ==
  ASSUME NEW c \in Requests, host \in [up : BOOLEAN, srv : BOOLEAN, held : [Keys -> Entry]]
  PROVE  /\ Served(c) \in [up : BOOLEAN, srv : BOOLEAN, held : [Keys -> Entry]]
         /\ host.up => Served(c).up
         /\ ~Accepted(c) \/ c.method = "heartbeat" => Served(c) = host
         /\ Accepted(c) /\ c.method = "register" => Served(c).srv /\ Served(c).held = Nothing
         /\ Accepted(c) /\ c.method = "unregister" => ~Served(c).srv
         /\ Accepted(c) /\ c.method = "put" =>
              /\ host.srv /\ Served(c).srv
              /\ Served(c).held[c.key] = c.data
              /\ \A k \in Keys \ {c.key} : Served(c).held[k] = host.held[k]
<1>1. Nothing \in [Keys -> Entry]
  BY DEF Nothing, Entry
<1>2. c.method \in {"heartbeat", "unregister", "register", "put"}
  BY DEF Requests
<1>3. CASE ~Accepted(c) \/ c.method = "heartbeat"
  <2>1. Served(c) = host
    BY <1>3 DEF Served
  <2> QED BY <1>3, <2>1 DEF Accepted
<1>4. CASE Accepted(c) /\ c.method = "register"
  <2>1. Served(c) = [up |-> TRUE, srv |-> TRUE, held |-> Nothing]
    BY <1>4 DEF Served, Empty
  <2> QED BY <1>1, <1>4, <2>1
<1>5. CASE Accepted(c) /\ c.method = "unregister"
  <2>1. Served(c) = [up |-> TRUE, srv |-> FALSE, held |-> Nothing]
    BY <1>5 DEF Served, Empty
  <2> QED BY <1>1, <1>5, <2>1
<1>6. CASE Accepted(c) /\ c.method = "put"
  <2>1. Served(c) = [host EXCEPT !.held[c.key] = c.data]
    BY <1>6 DEF Served
  <2>2. c.key \in Keys /\ c.data \in Entry
    BY <1>6, PutTyped
  <2>3. Served(c).held = [host.held EXCEPT ![c.key] = c.data]
    BY <2>1
  <2>4. Served(c).up = host.up /\ Served(c).srv = host.srv
    BY <2>1
  <2>5. Served(c) \in [up : BOOLEAN, srv : BOOLEAN, held : [Keys -> Entry]]
    BY <2>1, <2>2
  <2>6. host.srv
    BY <1>6 DEF Accepted
  <2> QED BY <1>6, <2>2, <2>3, <2>4, <2>5, <2>6
<1> QED BY <1>2, <1>3, <1>4, <1>5, <1>6

LEMMA BackLeaves ==
  ASSUME Base, NEW t \in Threads, NEW what, Back(t, what)
  PROVE  /\ \A u \in Threads : u # t => phase'[u] = phase[u] /\ answer'[u] = answer[u]
         /\ phase[t] = "asked" /\ phase'[t] = "back" /\ answer'[t] = what
         /\ UNCHANGED <<ipc, srv_registered, reregister, mirror, lock, pc, cur, iter, href, ops>>
BY BaseHas DEF Back, ThreadTypes, proxy

LEMMA BackBase ==
  ASSUME Base, NEW t \in Threads, NEW what \in {"failed", "success", "refused"}, Back(t, what),
         host' \in [up : BOOLEAN, srv : BOOLEAN, held : [Keys -> Entry]],
         host.up => host'.up, host.up \/ UNCHANGED host,
         faults' \in 0 .. MaxFaults, UNCHANGED world
  PROVE  Base'
<1>0. ThreadTypes /\ Routines /\ Down /\ Unknown /\ Carried
  BY BaseHas
<1>1. /\ \A u \in Threads : u # t => phase'[u] = phase[u] /\ answer'[u] = answer[u]
      /\ phase[t] = "asked" /\ phase'[t] = "back"
      /\ UNCHANGED <<ipc, srv_registered, reregister, mirror, lock, pc, cur, iter, href, ops>>
  BY BackLeaves
<1>2. ThreadTypes' /\ answer' \in [Threads -> {"none", "absent", "failed", "success", "refused"}]
  BY <1>0, <1>1, BaseHas DEF Back, ThreadTypes
<1>3. Routines'
  BY <1>0, <1>1 DEF Routines, InRoutine, Routine, MethodIn, Table
<1>4. Down' /\ Unknown' /\ Carried'
  BY <1>0, <1>1 DEF Down, Unknown, Carried
<1>5. \A u \in Threads : phase'[u] = "asked" => lock' = u
  BY <1>1, BaseHas
<1>6. \A u \in Threads : phase'[u] = "back" /\ answer'[u] \in {"success", "refused"} => lock' = u
  BY <1>1, BaseHas
<1> QED BY <1>1, <1>2, <1>3, <1>4, <1>5, <1>6, BaseHas, BaseOfParts

LEMMA ServeBase ==
  ASSUME Base, NEW t \in Threads, Serve(t), UNCHANGED world
  PROVE  Base'
<1>1. cur[t] \in Requests
  BY BaseHas DEF ThreadTypes
<1>2. PICK what \in {"success", "refused"} : Back(t, what)
  BY DEF Serve
<1>3. host.up /\ host' = Served(cur[t]) /\ UNCHANGED faults
  BY DEF Serve
<1> QED BY <1>1, <1>2, <1>3, ServedIs, BaseHas, BackBase

LEMMA TimeoutBase ==
  ASSUME Base, NEW t \in Threads, Timeout(t), UNCHANGED world
  PROVE  Base'
<1>1. cur[t] \in Requests
  BY BaseHas DEF ThreadTypes
<1>2. Back(t, "failed")
  BY DEF Timeout
<1>3. faults' \in 0 .. MaxFaults /\ (UNCHANGED host \/ (host.up /\ host' = Served(cur[t])))
  BY BaseHas DEF Timeout
<1> QED BY <1>1, <1>2, <1>3, ServedIs, BaseHas, BackBase
-------------------------------------------------------------------------------
(* The steps in which a caller looks at its answer.                        *)
LEMMA ResumeOfParts ==
  ASSUME Base, NEW t \in Threads, Resume(t), UNCHANGED world,
         ThreadTypes', OthersAs(t), InRoutine(t)', phase'[t] \notin {"asked", "back"},
         {ipc', srv_registered', reregister'} \subseteq BOOLEAN,
         (iter \in [start : SUBSET Keys, done : SUBSET Keys])',
         t = "hb" /\ pc'["hb"] \in Loops => cur'["hb"].key \in Table',
         t = "cl" => pc'["cl"] = "idle"
  PROVE  Base'
<1>0. ThreadTypes /\ Routines /\ Down /\ Unknown /\ Carried
  BY BaseHas
<1>1. /\ phase[t] = "back" /\ UNCHANGED <<mirror, href, host, faults, ops>>
      /\ answer' = [answer EXCEPT ![t] = "none"]
      /\ lock' = IF lock = t THEN "free" ELSE lock
  BY DEF Resume
<1>2. \A u \in Threads \ {t} : pc'[u] = pc[u] /\ phase'[u] = phase[u] /\ cur'[u] = cur[u]
  BY DEF OthersAs
<1>3. /\ answer' \in [Threads -> {"none", "absent", "failed", "success", "refused"}]
      /\ \A u \in Threads \ {t} : answer'[u] = answer[u]
  BY <1>1, BaseHas
<1>4. \A u \in Threads : InRoutine(u)'
  <2> SUFFICES ASSUME NEW u \in Threads \ {t} PROVE InRoutine(u)'
    OBVIOUS
  <2>1. InRoutine(u)
    BY <1>0 DEF Routines
  <2> QED BY <1>2, <2>1 DEF InRoutine, Routine, MethodIn
<1>5. pc'["hb"] \in Loops => cur'["hb"].key \in Table'
  BY <1>0, <1>2 DEF Routines, Table, Threads
<1>6. Routines'
  BY <1>4, <1>5 DEF Routines
<1>7. Down'
  BY <1>0, <1>1 DEF Down
<1>8. Unknown' /\ Carried'
  BY <1>0, <1>1, <1>2 DEF Unknown, Carried, Threads
<1>9. \A u \in Threads : phase'[u] = "asked" => lock' = u
  BY <1>1, <1>2, BaseHas
<1>10. \A u \in Threads : phase'[u] = "back" /\ answer'[u] \in {"success", "refused"} => lock' = u
  BY <1>1, <1>2, <1>3, BaseHas
<1>11. {ipc, srv_registered, reregister, href}' \subseteq BOOLEAN
  BY <1>1, BaseHas
<1>12. /\ (mirror \in [Keys -> Entry])' /\ (lock \in Threads \cup {"free"})'
       /\ (host \in [up : BOOLEAN, srv : BOOLEAN, held : [Keys -> Entry]])'
       /\ faults' \in 0 .. MaxFaults /\ ops' \in 0 .. world.ops
  BY <1>1, BaseHas
<1> QED
  BY <1>3, <1>6, <1>7, <1>8, <1>9, <1>10, <1>11, <1>12, BaseOfParts

(* A step of the heartbeat ends it or makes its next call: about the       *)
(* service, or about an entry that is live.                                *)
Visiting(routine, table) ==
  \E k \in Live(table) : Begin("hb", routine, EntryCall(k, mirror[k]), TRUE)

LEMMA LoopLeaves ==
  ASSUME Base, NEW start \in SUBSET Keys, NEW done \in SUBSET Keys, NEW open \in BOOLEAN,
         LoopResources(start, done, open) \/ LoopControls(start, done, open)
  PROVE  /\ {ipc', reregister'} \subseteq BOOLEAN
         /\ (iter \in [start : SUBSET Keys, done : SUBSET Keys])'
         /\ Rest("hb") \/ Visiting("resources", Resources) \/ Visiting("controls", Controls)
<1>0. Live(Resources) \subseteq Keys /\ Live(Controls) \subseteq Keys
  BY DEF Live, Keys
<1>1. CASE Interrupted \/ Finished(open)
  BY <1>1, BaseHas DEF Interrupted, Finished
<1>2. ASSUME NEW s \in SUBSET Keys, NEW d \in SUBSET Keys, NEW k \in Live(Resources),
             Visit("resources", s, d, k, open)
      PROVE  /\ {ipc', reregister'} \subseteq BOOLEAN
             /\ (iter \in [start : SUBSET Keys, done : SUBSET Keys])'
             /\ Visiting("resources", Resources)
  BY <1>0, <1>2, BaseHas DEF Visit, Visiting
<1>3. ASSUME NEW s \in SUBSET Keys, NEW d \in SUBSET Keys, NEW k \in Live(Controls),
             Visit("controls", s, d, k, open)
      PROVE  /\ {ipc', reregister'} \subseteq BOOLEAN
             /\ (iter \in [start : SUBSET Keys, done : SUBSET Keys])'
             /\ Visiting("controls", Controls)
  BY <1>0, <1>3, BaseHas DEF Visit, Visiting
<1>4. CASE LoopResources(start, done, open)
  <2>1. \/ Interrupted \/ Finished(open)
        \/ \E k \in Live(Resources) : Visit("resources", start, done, k, open)
        \/ \E k \in Live(Controls) : Visit("controls", Live(Controls), {}, k, open)
    BY <1>4, ResourcesLoop
  <2>2. {} \in SUBSET Keys /\ Live(Controls) \in SUBSET Keys
    BY <1>0
  <2> QED BY <1>1, <1>2, <1>3, <2>1, <2>2
<1>5. CASE LoopControls(start, done, open)
  <2>1. \/ Interrupted \/ Finished(open)
        \/ \E k \in Live(Controls) : Visit("controls", start, done, k, open)
    BY <1>5, ControlsLoop
  <2> QED BY <1>1, <1>3, <2>1
<1> QED BY <1>4, <1>5

LEMMA HeartbeatStepLeaves ==
  ASSUME Base, Resume("hb")
  PROVE  /\ {ipc', srv_registered', reregister'} \subseteq BOOLEAN
         /\ (iter \in [start : SUBSET Keys, done : SUBSET Keys])'
         /\ \/ Rest("hb")
            \/ \E routine \in {"unregister", "register"}, open \in BOOLEAN :
                 Begin("hb", routine, ServiceCall(routine), open)
            \/ Visiting("resources", Resources) \/ Visiting("controls", Controls)
<1>0. /\ {ipc, srv_registered, reregister} \subseteq BOOLEAN
      /\ iter \in [start : SUBSET Keys, done : SUBSET Keys]
      /\ Open("hb") \in BOOLEAN /\ Replied("hb") \in BOOLEAN
  BY BaseHas DEF Open, Replied
<1>1. HeartbeatBack \/ UnregisterBack \/ RegisterBack \/ LoopBack
  BY DEF Resume
<1>2. CASE HeartbeatBack
  BY <1>0, <1>2 DEF HeartbeatBack, HeartbeatTells
<1>3. CASE UnregisterBack
  BY <1>0, <1>3 DEF UnregisterBack
<1>4. CASE RegisterBack
  <2>1. srv_registered' \in BOOLEAN
    BY <1>0, <1>4 DEF RegisterBack
  <2>2. CASE LoopResources(Live(Resources), {}, Open("hb"))
    <3>1. Live(Resources) \in SUBSET Keys /\ {} \in SUBSET Keys
      BY DEF Live, Keys
    <3> QED BY <1>0, <2>1, <2>2, <3>1, LoopLeaves
  <2>3. CASE ipc' = Open("hb") /\ Rest("hb") /\ UNCHANGED <<reregister, iter>>
    BY <1>0, <2>1, <2>3
  <2> QED BY <1>4, <2>2, <2>3 DEF RegisterBack
<1>5. CASE LoopBack
  <2>1. srv_registered' \in BOOLEAN
    BY <1>0, <1>5 DEF LoopBack
  <2>2. CASE \/ LoopResources(iter.start, iter.done, ipc)
             \/ LoopControls(iter.start, iter.done, ipc)
    <3>1. iter.start \in SUBSET Keys /\ iter.done \in SUBSET Keys
      BY <1>0
    <3> QED BY <1>0, <2>1, <2>2, <3>1, LoopLeaves
  <2>3. CASE Interrupted
    BY <1>0, <2>1, <2>3 DEF Interrupted
  <2> QED BY <1>5, <2>2, <2>3 DEF LoopBack
<1> QED BY <1>1, <1>2, <1>3, <1>4, <1>5

LEMMA HeartbeatResumeBase ==
  ASSUME Base, Resume("hb"), UNCHANGED world
  PROVE  Base'
<1>0. ThreadTypes /\ "hb" \in Threads /\ "hb" # "cl"
  BY BaseHas DEF Threads
<1>1. CASE Rest("hb")
  <2>1. ThreadTypes' /\ OthersAs("hb") /\ pc'["hb"] = "idle" /\ phase'["hb"] = "none"
    BY <1>0, <1>1, RestLeaves
  <2>2. InRoutine("hb")' /\ pc'["hb"] \notin Loops
    BY <2>1 DEF InRoutine, Loops
  <2> QED BY <1>0, <2>1, <2>2, HeartbeatStepLeaves, ResumeOfParts
<1>2. ASSUME NEW routine \in {"unregister", "register"}, NEW open \in BOOLEAN,
             Begin("hb", routine, ServiceCall(routine), open)
      PROVE  Base'
  <2>1. ServiceCall(routine) \in Requests /\ ServiceCall(routine).method = routine
    BY CallsTyped
  <2>2. /\ ThreadTypes' /\ OthersAs("hb") /\ pc'["hb"] = routine
        /\ cur'["hb"] = ServiceCall(routine) /\ phase'["hb"] \in {"lock", "setup"}
    BY <1>0, <1>2, <2>1, BeginLeaves
  <2>3. InRoutine("hb")' /\ pc'["hb"] \notin Loops
    BY <2>1, <2>2 DEF InRoutine, Routine, MethodIn, Loops
  <2> QED BY <1>0, <2>2, <2>3, HeartbeatStepLeaves, ResumeOfParts
<1>3. ASSUME NEW routine, NEW table,
             \/ routine = "resources" /\ table = Resources
             \/ routine = "controls" /\ table = Controls,
             Visiting(routine, table)
      PROVE  Base'
  <2>1. PICK k \in Live(table) : Begin("hb", routine, EntryCall(k, mirror[k]), TRUE)
    BY <1>3 DEF Visiting
  <2>2. k \in table /\ k \in Keys /\ routine \in Loops
    BY <1>3 DEF Live, Keys, Loops
  <2>3. mirror[k] \in Entry
    BY <2>2, BaseHas
  <2>4. /\ EntryCall(k, mirror[k]) \in Requests /\ EntryCall(k, mirror[k]).method = "put"
        /\ EntryCall(k, mirror[k]).key = k
    BY <2>2, <2>3, CallsTyped
  <2>5. /\ ThreadTypes' /\ OthersAs("hb") /\ pc'["hb"] = routine
        /\ cur'["hb"] = EntryCall(k, mirror[k]) /\ phase'["hb"] = "lock"
    BY <1>0, <2>1, <2>2, <2>4, BeginLeaves
  <2>6. InRoutine("hb")'
    BY <2>2, <2>4, <2>5 DEF InRoutine, Routine, MethodIn
  <2>7. cur'["hb"].key \in Table'
    BY <1>3, <2>2, <2>4, <2>5 DEF Table
  <2> QED BY <1>0, <2>5, <2>6, <2>7, HeartbeatStepLeaves, ResumeOfParts
<1> QED BY <1>1, <1>2, <1>3, HeartbeatStepLeaves

LEMMA ClientResumeBase ==
  ASSUME Base, Resume("cl"), UNCHANGED world
  PROVE  Base'
<1>0. /\ ThreadTypes /\ "cl" \in Threads /\ "hb" # "cl"
      /\ {ipc, srv_registered, reregister} \subseteq BOOLEAN
      /\ iter \in [start : SUBSET Keys, done : SUBSET Keys]
      /\ Open("cl") \in BOOLEAN /\ Replied("cl") \in BOOLEAN
  BY BaseHas DEF Threads, Open, Replied
<1>1. ServiceBack \/ WithdrawBack \/ CallBack
  BY DEF Resume
<1>2. Rest("cl") /\ UNCHANGED iter /\ {ipc', srv_registered', reregister'} \subseteq BOOLEAN
  BY <1>0, <1>1 DEF ServiceBack, WithdrawBack, CallBack, ReregisterOnError
<1>3. ThreadTypes' /\ OthersAs("cl") /\ pc'["cl"] = "idle" /\ phase'["cl"] = "none"
  BY <1>0, <1>2, RestLeaves
<1>4. InRoutine("cl")'
  BY <1>3 DEF InRoutine
<1> QED BY <1>0, <1>2, <1>3, <1>4, ResumeOfParts
-------------------------------------------------------------------------------
(* The callers, and the facade that comes and goes.                        *)
LEMMA BeginOfParts ==
  ASSUME Base, NEW t \in Threads, UNCHANGED <<world, ipc, srv_registered, lock, answer, iter, host, faults>>,
         ThreadTypes', OthersAs(t), InRoutine(t)', phase'[t] \notin {"asked", "back"},
         {reregister', href'} \subseteq BOOLEAN, (mirror \in [Keys -> Entry])', ops' \in 0 .. world.ops,
         t = "hb" => pc'["hb"] \notin Loops,
         Unknown', Carried'
  PROVE  Base'
<1>0. ThreadTypes /\ Routines /\ Down
  BY BaseHas
<1>1. \A u \in Threads \ {t} : pc'[u] = pc[u] /\ phase'[u] = phase[u] /\ cur'[u] = cur[u]
  BY DEF OthersAs
<1>2. \A u \in Threads : InRoutine(u)'
  <2> SUFFICES ASSUME NEW u \in Threads \ {t} PROVE InRoutine(u)'
    OBVIOUS
  <2>1. InRoutine(u)
    BY <1>0 DEF Routines
  <2> QED BY <1>1, <2>1 DEF InRoutine, Routine, MethodIn
<1>3. pc'["hb"] \in Loops => cur'["hb"].key \in Table'
  BY <1>0, <1>1 DEF Routines, Table, Threads
<1>4. Routines' /\ Down'
  BY <1>0, <1>2, <1>3 DEF Routines, Down
<1>5. \A u \in Threads : phase'[u] = "asked" => lock' = u
  BY <1>1, BaseHas
<1>6. \A u \in Threads : phase'[u] = "back" /\ answer'[u] \in {"success", "refused"} => lock' = u
  BY <1>1, BaseHas
<1> QED BY <1>4, <1>5, <1>6, BaseHas, BaseOfParts

LEMMA HeartbeatBase ==
  ASSUME Base, Heartbeat, UNCHANGED world
  PROVE  Base'
<1>0. ThreadTypes /\ Unknown /\ Carried /\ "hb" \in Threads /\ "hb" # "cl" /\ "cl" \in Threads
  BY BaseHas DEF Threads
<1>1. /\ Begin("hb", "heartbeat", ServiceCall("heartbeat"), ipc)
      /\ UNCHANGED <<ipc, srv_registered, reregister, mirror, lock, answer, iter, href, host, faults, ops>>
  BY DEF Heartbeat, proxy
<1>2. ServiceCall("heartbeat") \in Requests /\ ServiceCall("heartbeat").method = "heartbeat"
  BY CallsTyped
<1>3. /\ ThreadTypes' /\ OthersAs("hb") /\ pc'["hb"] = "heartbeat"
      /\ cur'["hb"] = ServiceCall("heartbeat") /\ phase'["hb"] \in {"lock", "setup"}
  BY <1>0, <1>1, <1>2, BeginLeaves
<1>4. InRoutine("hb")' /\ pc'["hb"] \notin Loops
  BY <1>2, <1>3 DEF InRoutine, Routine, MethodIn, Loops
<1>5. Unknown' /\ Carried'
  BY <1>0, <1>1, <1>3 DEF Unknown, Carried, OthersAs
<1> QED BY <1>0, <1>1, <1>3, <1>4, <1>5, BaseHas, BeginOfParts

LEMMA RegisterServiceBase ==
  ASSUME Base, RegisterService, UNCHANGED world
  PROVE  Base'
<1>0. ThreadTypes /\ Unknown /\ "cl" \in Threads /\ "hb" # "cl"
  BY BaseHas DEF Threads
<1>1. /\ Begin("cl", "register", ServiceCall("register"), ipc)
      /\ ~href /\ href' = TRUE
      /\ UNCHANGED <<ipc, srv_registered, reregister, mirror, lock, answer, iter, host, faults, ops>>
  BY DEF RegisterService, proxy
<1>2. ServiceCall("register") \in Requests /\ ServiceCall("register").method = "register"
  BY CallsTyped
<1>3. /\ ThreadTypes' /\ OthersAs("cl") /\ pc'["cl"] = "register"
      /\ cur'["cl"] = ServiceCall("register") /\ phase'["cl"] \in {"lock", "setup"}
  BY <1>0, <1>1, <1>2, BeginLeaves
<1>4. InRoutine("cl")'
  BY <1>2, <1>3 DEF InRoutine, Routine, MethodIn, Loops
<1>5. Unknown' /\ Carried'
  BY <1>0, <1>1, <1>3 DEF Unknown, Carried, Nothing
<1> QED BY <1>0, <1>1, <1>3, <1>4, <1>5, BaseHas, BeginOfParts

LEMMA UnregisterServiceBase ==
  ASSUME Base, UnregisterService, UNCHANGED world
  PROVE  Base'
<1>0. ThreadTypes /\ Unknown /\ "cl" \in Threads /\ "hb" # "cl"
  BY BaseHas DEF Threads
<1>1. /\ Begin("cl", "unregister", ServiceCall("unregister"), ipc)
      /\ href /\ ops < world.ops /\ ops' = ops + 1
      /\ UNCHANGED <<ipc, srv_registered, reregister, mirror, lock, answer, iter, href, host, faults>>
  BY DEF UnregisterService, proxy
<1>2. ServiceCall("unregister") \in Requests /\ ServiceCall("unregister").method = "unregister"
  BY CallsTyped
<1>3. /\ ThreadTypes' /\ OthersAs("cl") /\ pc'["cl"] = "unregister"
      /\ cur'["cl"] = ServiceCall("unregister") /\ phase'["cl"] \in {"lock", "setup"}
  BY <1>0, <1>1, <1>2, BeginLeaves
<1>4. InRoutine("cl")'
  BY <1>2, <1>3 DEF InRoutine, Routine, MethodIn, Loops
<1>5. Unknown' /\ Carried'
  BY <1>0, <1>1, <1>3 DEF Unknown, Carried
<1>6. ops' \in 0 .. world.ops
  BY <1>1, BaseHas
<1> QED BY <1>0, <1>1, <1>3, <1>4, <1>5, <1>6, BaseHas, BeginOfParts

LEMMA ChangeBase ==
  ASSUME Base, NEW k \in Keys, NEW v \in Entry, Change(k, v), UNCHANGED world
  PROVE  Base'
<1>0. ThreadTypes /\ Routines /\ Down /\ Unknown /\ Carried /\ "cl" \in Threads /\ "hb" # "cl"
  BY BaseHas DEF Threads
<1>1. /\ href /\ pc["cl"] = "idle" /\ ops < world.ops /\ ops' = ops + 1
      /\ mirror' = [mirror EXCEPT ![k] = v]
      /\ UNCHANGED <<ipc, srv_registered, lock, answer, iter, href, host, faults>>
  BY DEF Change
<1>2. mirror' \in [Keys -> Entry] /\ mirror'[k] = v /\ ops' \in 0 .. world.ops
  BY <1>1, BaseHas
<1>3. CASE reregister' = ReregisterLater /\ UNCHANGED <<pc, phase, cur>>
  <2>1. ThreadTypes'
    BY <1>0, <1>3 DEF ThreadTypes
  <2>2. Routines' /\ Down'
    BY <1>0, <1>1, <1>3 DEF Routines, InRoutine, Routine, MethodIn, Table, Down
  <2>3. Unknown' /\ Carried'
    BY <1>0, <1>1, <1>3 DEF Unknown, Carried
  <2>4. reregister' \in BOOLEAN
    BY <1>3 DEF ReregisterLater
  <2> QED BY <1>1, <1>2, <1>3, <2>1, <2>2, <2>3, <2>4, BaseHas, BaseOfParts
<1>4. CASE Begin("cl", "call", EntryCall(k, v), ipc) /\ UNCHANGED reregister
  <2>1. /\ EntryCall(k, v) \in Requests /\ EntryCall(k, v).method = "put"
        /\ EntryCall(k, v).key = k /\ EntryCall(k, v).data = v
    BY CallsTyped
  <2>2. /\ ThreadTypes' /\ OthersAs("cl") /\ pc'["cl"] = "call"
        /\ cur'["cl"] = EntryCall(k, v) /\ phase'["cl"] \in {"lock", "setup"}
    BY <1>0, <1>4, <2>1, BeginLeaves
  <2>3. InRoutine("cl")'
    BY <2>1, <2>2 DEF InRoutine, Routine, MethodIn, Loops
  <2>4. Unknown' /\ Carried'
    BY <1>0, <1>1, <1>2, <2>1, <2>2 DEF Unknown, Carried
  <2> QED BY <1>0, <1>1, <1>2, <1>4, <2>2, <2>3, <2>4, BaseHas, BeginOfParts
<1> QED BY <1>3, <1>4 DEF Change

LEMMA HostBase ==
  ASSUME Base, HostDown \/ HostUp, UNCHANGED world
  PROVE  Base'
<1>0. ThreadTypes /\ Routines /\ Unknown /\ Carried
  BY BaseHas
<1>1. UNCHANGED <<ipc, srv_registered, reregister, mirror, lock, pc, phase, cur, answer, iter, href, ops>>
  BY DEF HostDown, HostUp, proxy
<1>2. Nothing \in [Keys -> Entry]
  BY DEF Nothing, Entry
<1>3. Empty = [up |-> TRUE, srv |-> FALSE, held |-> Nothing]
  BY DEF Empty
<1>4. /\ host' \in [up : BOOLEAN, srv : BOOLEAN, held : [Keys -> Entry]] /\ ~host'.srv
      /\ faults' \in 0 .. MaxFaults
  <2>1. CASE HostDown
    <3>1. host' = [up |-> FALSE, srv |-> FALSE, held |-> Nothing] /\ faults < MaxFaults /\ faults' = faults + 1
      BY <1>3, <2>1 DEF HostDown
    <3> QED BY <1>2, <3>1, BaseHas
  <2>2. CASE HostUp
    BY <1>2, <1>3, <2>2, BaseHas DEF HostUp
  <2> QED BY <2>1, <2>2
<1>5. ThreadTypes' /\ Routines' /\ Down' /\ Unknown' /\ Carried'
  BY <1>0, <1>1, <1>4
     DEF ThreadTypes, Routines, InRoutine, Routine, MethodIn, Table, Down, Unknown, Carried
<1> QED BY <1>1, <1>4, <1>5, BaseHas, BaseOfParts

LEMMA StepBase == Base /\ [Next]_<<world, vars>> => Base'
<1> SUFFICES ASSUME Base, [Next]_<<world, vars>> PROVE Base'
  OBVIOUS
<1>1. CASE UNCHANGED <<world, vars>>
  BY <1>1 DEF vars, Base, TypeOK, Replied, Routines, InRoutine, Routine, MethodIn, Table,
              Down, Unknown, Carried
<1>2. CASE Next
  <2>1. UNCHANGED world
    BY <1>2 DEF Next
  <2>2. ASSUME NEW t \in Threads, Setup(t) \/ Ask(t) \/ Serve(t) \/ Timeout(t) PROVE Base'
    BY <2>1, <2>2, SetupBase, AskBase, ServeBase, TimeoutBase
  <2>3. ASSUME NEW t \in Threads, Resume(t) PROVE Base'
    BY <2>1, <2>3, HeartbeatResumeBase, ClientResumeBase DEF Threads
  <2>4. CASE Heartbeat \/ RegisterService \/ UnregisterService \/ HostDown \/ HostUp
    BY <2>1, <2>4, HeartbeatBase, RegisterServiceBase, UnregisterServiceBase, HostBase
  <2>5. ASSUME NEW k \in Keys, NEW v \in Entry, Change(k, v) PROVE Base'
    BY <2>1, <2>5, ChangeBase
  <2> QED BY <1>2, <2>2, <2>3, <2>4, <2>5 DEF Next, Step
<1> QED BY <1>1, <1>2

(* The variables keep their types and the lock is held by the thread whose *)
(* request is with the facade, whatever the client and the facade do.      *)
THEOREM FacadeTypeCorrect == Spec => []TypeOK
<1>1. Base => TypeOK
  BY DEF Base
<1> QED BY <1>1, InitBase, StepBase, PTL DEF Spec
-------------------------------------------------------------------------------
(* The second half of the invariant: Watchful.                             *)
LEMMA InitWatchful == Init => Watchful
<1> SUFFICES ASSUME Init PROVE Watchful
  OBVIOUS
<1>1. pc["hb"] = "idle" /\ "idle" \notin Loops
  BY DEF Init, Threads, Loops
<1>2. Empty = [up |-> TRUE, srv |-> FALSE, held |-> Nothing] /\ host = [Empty EXCEPT !.up = FALSE]
  BY DEF Init, Empty
<1>3. ~host.srv
  BY <1>2
<1> QED
  BY <1>1, <1>3 DEF Watchful, Apart, Registering, Registered, Fresh, Opened, Looping, Settled

(* Who has the lock when; what the request of a thread is.                 *)
LEMMA Busy ==
  ASSUME Base
  PROVE  /\ phase["hb"] = "asked" \/ Registered => lock = "hb"
         /\ phase["cl"] = "asked" => lock = "cl"
BY BaseHas DEF Registered, Threads

LEMMA Asking ==
  ASSUME Base, NEW t \in Threads, phase[t] # "none"
  PROVE  /\ pc[t] \in Routine(t) /\ cur[t].method = MethodIn(pc[t])
         /\ cur[t] \in Requests /\ (pc[t] \in Loops \cup {"call"} => cur[t].key \in Keys)
<1>1. pc[t] \in Routine(t) /\ cur[t].method = MethodIn(pc[t]) /\ cur[t] \in Requests
  BY BaseHas DEF Routines, InRoutine, ThreadTypes
<1>2. pc[t] \in Loops \cup {"call"} => cur[t].method = "put"
  BY <1>1 DEF MethodIn
<1> QED BY <1>1, <1>2, PutTyped

(* A heartbeat that is over has nothing to keep.                           *)
LEMMA IdleKeeps ==
  ASSUME pc'["hb"] = "idle"
  PROVE  Apart' /\ Registering' /\ Fresh' /\ Opened' /\ Looping'
BY DEF Apart, Registering, Registered, Fresh, Opened, Looping, Loops

(* A step of the others keeps what the heartbeat relies on, if what it     *)
(* does to the facade and to the Proxy is harmless.                        *)
HbSame ==
  /\ pc'["hb"] = pc["hb"] /\ phase'["hb"] = phase["hb"]
  /\ cur'["hb"] = cur["hb"] /\ answer'["hb"] = answer["hb"]

LEMMA OthersKeep ==
  ASSUME Base, Watchful, HbSame, UNCHANGED <<mirror, iter, href>>,
         pc'["cl"] = pc["cl"] \/ pc'["cl"] = "idle",
         pc["hb"] # "idle" => UNCHANGED srv_registered,
         Registered => UNCHANGED host \/ ~host'.srv,
         pc["hb"] # "idle" /\ host'.srv =>
           host.srv /\ \A k \in Keys : Agrees(k) => host'.held[k] = mirror[k],
         reregister => reregister',
         ipc => ipc' \/ reregister' \/ (lock = "free" /\ (pc["hb"] # "idle" => ~host'.srv))
  PROVE  Apart' /\ Registering' /\ Fresh' /\ Opened' /\ Looping'
<1>1. CASE pc["hb"] = "idle"
  BY <1>1, IdleKeeps DEF HbSame
<1>2. CASE pc["hb"] # "idle"
  <2>1. Apart' /\ Registering'
    BY <1>2 DEF Watchful, Apart, Registering, HbSame
  <2>2. Registered' <=> Registered
    BY DEF Registered, HbSame
  <2>3. Fresh'
    BY <2>2 DEF Watchful, Fresh
  <2>4. Opened'
    BY <1>2, <2>2, Busy DEF Watchful, Opened, HbSame
  <2>5. Looping'
    <3> SUFFICES ASSUME pc["hb"] \in Loops PROVE Looping'
      BY DEF Looping, HbSame
    <3>1. Table' = Table /\ Live(Table)' = Live(Table)
      BY DEF Table, Live, HbSame
    <3>2. /\ phase["hb"] # "setup" /\ iter.start = Live(Table)
          /\ cur["hb"].key \in Live(Table) \cap iter.done
          /\ cur["hb"].data = mirror[cur["hb"].key]
      BY DEF Watchful, Looping
    <3>3. \A k \in Keys : (Agrees(k) => Agrees(k)' \/ ~host'.srv) /\ (Todo(k) => Todo(k)')
      BY <1>2, <3>1 DEF Agrees, Todo, Replied, HbSame
    <3>4. host'.srv => \A k \in Keys : Agrees(k)' \/ Todo(k)'
      BY <1>2, <3>3 DEF Watchful, Looping
    <3>5. host'.srv /\ phase'["hb"] = "back" /\ ~Replied("hb")' => reregister'
      BY <1>2 DEF Watchful, Looping, Replied, HbSame
    <3> QED BY <3>1, <3>2, <3>4, <3>5 DEF Looping, HbSame
  <2> QED BY <2>1, <2>3, <2>4, <2>5
<1> QED BY <1>1, <1>2

(* Where the facade and the flag stay, an entry stays told or being told.  *)
LEMMA SettledKept ==
  ASSUME Settled, UNCHANGED mirror, pc'["hb"] \notin Loops => pc["hb"] \notin Loops,
         Registered => Registered',
         host'.srv => host.srv /\ host'.held = host.held,
         Doubt => Doubt' \/ ~host'.srv,
         \A k \in Keys : Telling(k) => Telling(k)' \/ Doubt' \/ ~host'.srv
  PROVE  Settled'
<1> SUFFICES ASSUME pc'["hb"] \notin Loops, ~Registered', host'.srv, ~Doubt', NEW k \in Keys
             PROVE  Agrees(k)' \/ Telling(k)'
  BY DEF Settled
<1>1. Agrees(k) \/ Telling(k)
  BY DEF Settled
<1> QED BY <1>1 DEF Agrees
-------------------------------------------------------------------------------
LEMMA SetupWatchful ==
  ASSUME Base, Watchful, NEW t \in Threads, Setup(t)
  PROVE  Watchful'
<1>1. /\ UNCHANGED <<srv_registered, reregister, mirror, lock, pc, cur, iter, href, host>>
      /\ phase[t] = "setup" /\ lock = "free"
  BY DEF Setup, Free
<1>2. /\ \A u \in Threads : u # t => phase'[u] = phase[u] /\ answer'[u] = answer[u]
      /\ ipc' \in BOOLEAN /\ (~ipc' => ~host.up)
      /\ phase'[t] = IF ipc' THEN "lock" ELSE "back"
      /\ ~ipc' => answer'[t] = "absent"
  <2>1. PICK open \in (IF host.up THEN {TRUE} ELSE BOOLEAN) :
          /\ ipc' = open
          /\ phase' = [phase EXCEPT ![t] = IF open THEN "lock" ELSE "back"]
          /\ answer' = [answer EXCEPT ![t] = IF open THEN @ ELSE "absent"]
    BY DEF Setup
  <2>2. open \in BOOLEAN /\ (~open => ~host.up)
    OBVIOUS
  <2> QED BY <2>1, <2>2, BaseHas DEF ThreadTypes
<1>3. ~host.up => ~host.srv
  BY BaseHas DEF Down
<1>4. ~Registered /\ phase["hb"] # "asked"
  BY <1>1, Busy
<1>5. Apart' /\ Registering' /\ Fresh' /\ Opened' /\ Looping'
  <2>1. CASE t = "cl"
    <3>1. HbSame
      BY <1>1, <1>2, <2>1 DEF HbSame, Threads
    <3> QED BY <1>1, <1>2, <1>3, <1>4, <3>1, OthersKeep DEF Agrees
  <2>2. CASE t = "hb"
    <3>1. pc["hb"] \notin Loops /\ pc'["hb"] \notin Loops
      BY <1>1, <2>2 DEF Watchful, Looping
    <3>2. ~Registered' /\ phase'["hb"] # "asked"
      BY <1>2, <2>2 DEF Registered
    <3> QED BY <1>1, <3>1, <3>2 DEF Watchful, Apart, Registering, Fresh, Opened, Looping
  <2> QED BY <2>1, <2>2 DEF Threads
<1>6. Settled'
  <2>1. Doubt => Doubt'
    BY <1>1, <1>2 DEF Doubt, Replied, Threads
  <2>2. \A k \in Keys : Telling(k) => Telling(k)' \/ ~host'.srv
    BY <1>1, <1>2, <1>3 DEF Telling, Threads
  <2> QED BY <1>1, <1>4, <2>1, <2>2, SettledKept DEF Watchful
<1> QED BY <1>5, <1>6 DEF Watchful

LEMMA AskWatchful ==
  ASSUME Base, Watchful, NEW t \in Threads, Ask(t)
  PROVE  Watchful'
<1>1. /\ UNCHANGED <<ipc, srv_registered, reregister, mirror, pc, iter, href, host>>
      /\ phase[t] = "lock" /\ lock = "free"
  BY DEF Ask, Free
<1>2. /\ \A u \in Threads : u # t =>
           phase'[u] = phase[u] /\ answer'[u] = answer[u] /\ cur'[u] = cur[u]
      /\ \/ /\ Gone(t) /\ phase'[t] = "back" /\ answer'[t] = "failed" /\ cur'[t] = cur[t]
         \/ /\ ~Gone(t) /\ phase'[t] = "asked" /\ cur'[t].key = cur[t].key
            /\ cur'[t].data = Contents(t)
  <2>1. cur[t] \in Requests
    BY BaseHas DEF ThreadTypes
  <2> QED BY <2>1, BaseHas DEF Ask, ThreadTypes, Requests
<1>3. ~Registered
  BY <1>1, Busy
<1>4. Apart' /\ Registering' /\ Fresh' /\ Opened' /\ Looping'
  <2>1. CASE t = "cl"
    <3>1. HbSame
      BY <1>1, <1>2, <2>1 DEF HbSame, Threads
    <3> QED BY <1>1, <3>1, OthersKeep DEF Agrees
  <2>2. CASE t = "hb"
    <3>1. ~Registered'
      BY <1>2, <2>2 DEF Registered
    <3>2. Apart' /\ Registering' /\ Fresh'
      BY <1>1, <3>1 DEF Watchful, Apart, Registering, Fresh
    <3>3. Opened'
      BY <1>1, <1>2, <2>2, <3>1 DEF Watchful, Opened, Gone
    <3>4. ASSUME pc["hb"] \in Loops PROVE Looping'
      <4>1. /\ Table' = Table /\ Live(Table)' = Live(Table)
            /\ iter.start = Live(Table) /\ cur["hb"].key \in Live(Table) \cap iter.done
            /\ cur["hb"].data = mirror[cur["hb"].key]
        BY <1>1, <3>4 DEF Watchful, Looping, Table, Live
      <4>2. mirror[cur["hb"].key] # None
        BY <4>1 DEF Live
      <4>3. cur'["hb"].key = cur["hb"].key /\ cur'["hb"].data = mirror[cur["hb"].key]
        BY <1>2, <2>2, <4>1 DEF Contents
      <4>4. \A k \in Keys : Agrees(k)' <=> Agrees(k)
        BY <1>1 DEF Agrees
      <4>5. phase'["hb"] = "back" => ~ipc
        BY <1>2, <2>2, <4>2 DEF Gone
      <4>6. host.srv => ipc \/ reregister
        BY <3>4 DEF Watchful, Opened
      <4>7. host'.srv /\ phase'["hb"] = "back" => reregister'
        BY <1>1, <4>5, <4>6
      <4>8. host'.srv => \A k \in Keys : Agrees(k)' \/ Todo(k)'
        <5>1. \A k \in Keys : Todo(k) => Todo(k)' 
          BY <1>1, <1>2, <2>2, <4>1, <4>3 DEF Todo, Replied
        <5> QED BY <1>1, <3>4, <4>4, <5>1 DEF Watchful, Looping
      <4> QED BY <1>1, <1>2, <2>2, <4>1, <4>3, <4>7, <4>8 DEF Looping
    <3> QED BY <1>1, <3>2, <3>3, <3>4 DEF Looping
  <2> QED BY <2>1, <2>2 DEF Threads
<1>5. Settled'
  <2>1. Doubt => Doubt'
    BY <1>1, <1>2 DEF Doubt, Replied, Threads
  <2>2. \A k \in Keys : Telling(k) => Telling(k)' \/ Doubt'
    BY <1>1, <1>2 DEF Telling, Doubt, Replied, Threads
  <2> QED BY <1>1, <1>3, <2>1, <2>2, SettledKept DEF Watchful
<1> QED BY <1>4, <1>5 DEF Watchful
-------------------------------------------------------------------------------
(* The facade's answers, and those that do not come.                       *)
LEMMA HeartbeatServedWatchful ==
  ASSUME Base, Watchful, Serve("hb")
  PROVE  Watchful'
<1>0. "hb" \in Threads /\ "cl" \in Threads /\ "hb" # "cl"
  BY DEF Threads
<1> DEFINE c == cur["hb"]
<1>1. Back("hb", IF Accepted(c) THEN "success" ELSE "refused") /\ host' = Served(c)
  BY DEF Serve
<1>2. /\ phase["hb"] = "asked" /\ phase'["hb"] = "back"
      /\ answer'["hb"] = IF Accepted(c) THEN "success" ELSE "refused"
      /\ phase'["cl"] = phase["cl"] /\ answer'["cl"] = answer["cl"]
      /\ UNCHANGED <<ipc, srv_registered, reregister, mirror, pc, cur, iter, href>>
  BY <1>0, <1>1, BackLeaves
<1>3. /\ pc["hb"] \in Routine("hb") /\ c.method = MethodIn(pc["hb"])
      /\ c \in Requests /\ (pc["hb"] \in Loops => c.key \in Keys)
  BY <1>0, <1>2, Asking
<1>4. pc["hb"] \in {"heartbeat", "unregister", "register"} => c.method = pc["hb"]
  BY <1>3 DEF MethodIn, Loops
<1>5. pc["hb"] \in Loops => c.method = "put"
  BY <1>3 DEF MethodIn
<1>6. Replied("hb")' /\ ~Registered
  BY <1>2 DEF Replied, Registered
<1>7. /\ ~Accepted(c) \/ c.method = "heartbeat" => host' = host
      /\ Accepted(c) /\ c.method = "register" => host'.held = Nothing
      /\ Accepted(c) /\ c.method = "unregister" => ~host'.srv
      /\ Accepted(c) /\ c.method = "put" =>
           /\ host.srv /\ host'.held[c.key] = c.data
           /\ \A k \in Keys \ {c.key} : host'.held[k] = host.held[k]
  BY <1>1, <1>3, ServedIs, BaseHas
<1>8. Apart' /\ Registering'
  BY <1>2 DEF Watchful, Apart, Registering
<1>9. Registered' => Accepted(c) /\ c.method = "register"
  BY <1>2, <1>4 DEF Registered
<1>10. Fresh'
  BY <1>7, <1>9 DEF Fresh
<1>11. Opened'
  BY <1>2, <1>5, <1>7 DEF Watchful, Opened, Registered
<1>12. ASSUME pc["hb"] \in Loops PROVE Looping'
  <2>1. Table' = Table /\ Live(Table)' = Live(Table)
    BY <1>2 DEF Table, Live
  <2>2. c.data = mirror[c.key] /\ c.method = "put"
    BY <1>5, <1>12 DEF Watchful, Looping
  <2>3. ASSUME host'.srv, NEW k \in Keys PROVE Agrees(k)' \/ Todo(k)'
    <3>1. host.srv
      BY <1>7, <2>2, <2>3
    <3>2. Accepted(c)
      BY <2>2, <3>1 DEF Accepted
    <3>3. CASE k = c.key
      BY <1>2, <1>7, <2>2, <3>2, <3>3 DEF Agrees
    <3>4. CASE k # c.key
      <4>1. Agrees(k) => Agrees(k)'
        BY <1>2, <1>7, <2>2, <3>2, <3>4 DEF Agrees
      <4>2. Todo(k) => Todo(k)'
        BY <1>2, <2>1, <3>4 DEF Todo
      <4> QED BY <1>12, <3>1, <4>1, <4>2 DEF Watchful, Looping
    <3> QED BY <3>3, <3>4
  <2> QED BY <1>2, <1>6, <1>12, <2>1, <2>3 DEF Watchful, Looping
<1>13. Looping'
  BY <1>2, <1>12 DEF Looping
<1>14. Settled'
  <2>1. CASE pc["hb"] \in Loops
    BY <1>2, <2>1 DEF Settled
  <2>2. CASE pc["hb"] \notin Loops /\ ~Registered' /\ host'.srv
    <3>1. pc["hb"] \in {"heartbeat", "unregister", "register"}
      BY <1>3, <2>2 DEF Routine
    <3>2. host' = host
      BY <1>2, <1>4, <1>7, <2>2, <3>1 DEF Registered
    <3>3. (Doubt => Doubt') /\ \A k \in Keys : Telling(k) => Telling(k)'
      BY <1>2 DEF Doubt, Telling, Replied
    <3> QED BY <1>2, <1>6, <3>2, <3>3, SettledKept DEF Watchful
  <2>3. CASE Registered' \/ ~host'.srv
    BY <2>3 DEF Settled
  <2> QED BY <2>1, <2>2, <2>3
<1> QED BY <1>8, <1>10, <1>11, <1>13, <1>14 DEF Watchful

(* Of a heartbeat's calls none is lost in reregister_all.                  *)
LEMMA HeartbeatTimeoutWatchful ==
  ASSUME Base, Careful, Watchful, Timeout("hb")
  PROVE  Watchful'
<1>0. "hb" \in Threads /\ "cl" \in Threads /\ "hb" # "cl"
  BY DEF Threads
<1> DEFINE c == cur["hb"]
<1>1. /\ Back("hb", "failed")
      /\ \/ ~host.up /\ UNCHANGED host
         \/ /\ host.up /\ pc["hb"] \notin Midway
            /\ host' \in {host, Served(c)}
  BY DEF Timeout, Careful
<1>2. /\ phase["hb"] = "asked" /\ phase'["hb"] = "back" /\ answer'["hb"] = "failed"
      /\ phase'["cl"] = phase["cl"] /\ answer'["cl"] = answer["cl"]
      /\ UNCHANGED <<ipc, srv_registered, reregister, mirror, pc, cur, iter, href>>
  BY <1>0, <1>1, BackLeaves
<1>3. /\ pc["hb"] \in Routine("hb") /\ c.method = MethodIn(pc["hb"]) /\ c \in Requests
  BY <1>0, <1>2, Asking
<1>4. pc["hb"] \in {"heartbeat", "unregister"} => c.method = pc["hb"]
  BY <1>3 DEF MethodIn, Loops
<1>5. UNCHANGED host \/ ~host'.srv
  <2>1. pc["hb"] \notin Midway => pc["hb"] \in {"heartbeat", "unregister"}
    BY <1>3 DEF Routine, Midway, Loops
  <2> QED BY <1>1, <1>3, <1>4, <2>1, ServedIs, BaseHas
<1>6. pc["hb"] \in Midway => ~host'.srv
  BY <1>1, BaseHas DEF Down
<1>7. ~Registered /\ ~Registered'
  BY <1>2 DEF Registered
<1>8. Apart' /\ Registering' /\ Fresh'
  BY <1>2, <1>7 DEF Watchful, Apart, Registering, Fresh
<1>9. Opened' /\ Looping'
  <2>1. pc["hb"] \in Loops => ~host'.srv
    BY <1>6 DEF Midway, Loops
  <2>2. Opened'
    BY <1>2, <1>7, <2>1 DEF Opened
  <2>3. Table' = Table /\ Live(Table)' = Live(Table)
    BY <1>2 DEF Table, Live
  <2>4. Looping'
    BY <1>2, <2>1, <2>3 DEF Watchful, Looping
  <2> QED BY <2>2, <2>4
<1>10. Settled'
  <2>1. (Doubt => Doubt') /\ \A k \in Keys : Telling(k) => Telling(k)'
    BY <1>2 DEF Doubt, Telling, Replied
  <2> QED BY <1>2, <1>5, <1>7, <2>1, SettledKept DEF Watchful
<1> QED BY <1>8, <1>9, <1>10 DEF Watchful

LEMMA ClientAnsweredWatchful ==
  ASSUME Base, Watchful, Serve("cl") \/ Timeout("cl")
  PROVE  Watchful'
<1>0. "hb" \in Threads /\ "cl" \in Threads /\ "hb" # "cl"
  BY DEF Threads
<1> DEFINE c == cur["cl"]
<1>1. PICK what \in {"success", "refused", "failed"} :
        /\ Back("cl", what)
        /\ \/ what = "failed" /\ host' \in {host, Served(c)}
           \/ what # "failed" /\ host' = Served(c)
  BY DEF Serve, Timeout
<1>2. /\ phase["cl"] = "asked" /\ phase'["cl"] = "back" /\ answer'["cl"] = what
      /\ phase'["hb"] = phase["hb"] /\ answer'["hb"] = answer["hb"]
      /\ UNCHANGED <<ipc, srv_registered, reregister, mirror, lock, pc, cur, iter, href>>
  BY <1>0, <1>1, BackLeaves
<1>3. /\ pc["cl"] \in Routine("cl") /\ c.method = MethodIn(pc["cl"])
      /\ c \in Requests /\ (pc["cl"] = "call" => c.key \in Keys)
  BY <1>0, <1>2, Asking
<1>4. lock = "cl" /\ ~Registered /\ phase["hb"] # "asked"
  BY <1>0, <1>2, Busy
<1>5. pc["cl"] \in {"register", "unregister"} => c.method = pc["cl"]
  BY <1>3 DEF MethodIn, Loops
<1>6. pc["cl"] = "call" => c.method = "put" /\ c.data = mirror[c.key]
  BY <1>3, BaseHas DEF MethodIn, Carried
<1>7. /\ ~Accepted(c) => Served(c) = host
      /\ Accepted(c) /\ c.method = "register" => Served(c).held = Nothing
      /\ Accepted(c) /\ c.method = "unregister" => ~Served(c).srv
      /\ Accepted(c) /\ c.method = "put" =>
           /\ host.srv /\ Served(c).held[c.key] = c.data
           /\ \A k \in Keys \ {c.key} : Served(c).held[k] = host.held[k]
  BY <1>3, ServedIs, BaseHas
<1>8. pc["cl"] = "call" /\ host'.srv =>
        host.srv /\ \A k \in Keys : Agrees(k) => host'.held[k] = mirror[k]
  BY <1>1, <1>6, <1>7 DEF Agrees
<1>9. Apart' /\ Registering' /\ Fresh' /\ Opened' /\ Looping'
  <2>1. HbSame
    BY <1>2 DEF HbSame
  <2>2. pc["hb"] # "idle" => pc["cl"] = "call"
    BY <1>3 DEF Watchful, Apart, Routine
  <2> QED BY <1>2, <1>4, <1>8, <2>1, <2>2, OthersKeep
<1>10. Settled'
  <2> SUFFICES ASSUME pc["hb"] \notin Loops, host'.srv, ~Doubt', NEW k \in Keys
               PROVE  Agrees(k)' \/ Telling(k)'
    BY <1>2 DEF Settled
  <2>1. CASE pc["cl"] = "call"
    <3>1. what # "failed"
      BY <1>2, <2>1 DEF Doubt, Replied
    <3>2. host' = Served(c) /\ host.srv /\ Accepted(c)
      BY <1>1, <1>6, <1>8, <2>1, <3>1 DEF Accepted
    <3>3. CASE k = c.key
      BY <1>2, <1>6, <1>7, <2>1, <3>2, <3>3 DEF Agrees
    <3>4. CASE k # c.key
      <4>1. ~Doubt /\ ~Telling(k)
        BY <1>2, <3>4 DEF Doubt, Telling
      <4>2. Agrees(k)
        BY <1>4, <3>2, <4>1 DEF Watchful, Settled
      <4> QED BY <1>2, <1>8, <2>1, <4>2 DEF Agrees
    <3> QED BY <3>3, <3>4
  <2>2. CASE pc["cl"] # "call"
    <3>1. pc["cl"] \in {"register", "unregister"}
      BY <1>3, <2>2 DEF Routine
    <3>2. CASE host' = host
      <4>1. ~Doubt /\ ~Telling(k)
        BY <1>2, <2>2 DEF Doubt, Telling
      <4>2. Agrees(k)
        BY <1>4, <3>2, <4>1 DEF Watchful, Settled
      <4> QED BY <1>2, <3>2, <4>2 DEF Agrees
    <3>3. CASE host' # host
      <4>1. c.method = "register" /\ host'.held = Nothing
        BY <1>1, <1>5, <1>7, <3>1, <3>3
      <4>2. mirror = Nothing
        BY <1>5, <3>1, <4>1, BaseHas DEF Unknown
      <4> QED BY <1>2, <4>1, <4>2 DEF Agrees
    <3> QED BY <3>2, <3>3
  <2> QED BY <2>1, <2>2
<1> QED BY <1>9, <1>10 DEF Watchful
-------------------------------------------------------------------------------
(* The heartbeat's loops: an entry that the facade has wrong is among the  *)
(* ones that are still to be seen through, until there are none.           *)
Missing(k, routine, table, done) ==
  mirror[k] # None /\ (k \in table \ done \/ (routine = "resources" /\ k \in Controls))

LEMMA VisitWatchful ==
  ASSUME Base, Watchful, UNCHANGED <<mirror, host, href>>, pc["hb"] # "idle",
         NEW routine, NEW table, NEW done \in SUBSET Keys, NEW k \in Live(table) \ done,
         NEW open,
         \/ routine = "resources" /\ table = Resources
         \/ routine = "controls" /\ table = Controls,
         Visit(routine, Live(table), done, k, open),
         host.srv => open \/ reregister,
         host.srv => \A j \in Keys : Agrees(j) \/ Missing(j, routine, table, done)
  PROVE  Watchful'
<1>1. /\ iter' = [start |-> Live(table), done |-> done \cup {k}]
      /\ Begin("hb", routine, EntryCall(k, mirror[k]), TRUE)
      /\ ipc' = open /\ UNCHANGED reregister
  BY DEF Visit
<1>2. k \in table /\ k \in Keys /\ routine \in Loops /\ "hb" \in Threads /\ "cl" \in Threads
  BY DEF Live, Keys, Loops, Threads
<1>3. mirror[k] \in Entry
  BY <1>2, BaseHas
<1>4. /\ EntryCall(k, mirror[k]) \in Requests
      /\ EntryCall(k, mirror[k]).key = k /\ EntryCall(k, mirror[k]).data = mirror[k]
  BY <1>2, <1>3, CallsTyped
<1>5. /\ pc'["hb"] = routine /\ phase'["hb"] = "lock"
      /\ cur'["hb"].key = k /\ cur'["hb"].data = mirror[k]
      /\ pc'["cl"] = pc["cl"]
  BY <1>1, <1>2, <1>4, BaseHas, BeginLeaves DEF OthersAs
<1>6. Table' = table /\ Live(table)' = Live(table)
  BY <1>5 DEF Table, Live
<1>7. Apart' /\ Registering' /\ Fresh'
  BY <1>2, <1>5 DEF Watchful, Apart, Registering, Registered, Fresh, Loops
<1>8. Opened' /\ Settled'
  BY <1>1, <1>2, <1>5 DEF Opened, Registered, Settled, Loops
<1>9. \A j \in Keys : Missing(j, routine, table, done) => Todo(j)'
  BY <1>1, <1>5, <1>6 DEF Missing, Todo
<1>10. \A j \in Keys : Agrees(j) => Agrees(j)'
  BY DEF Agrees
<1>11. iter'.start = Live(table) /\ iter'.done = done \cup {k} /\ k \in Live(table) \cap iter'.done
  BY <1>1
<1>12. Looping'
  BY <1>5, <1>6, <1>9, <1>10, <1>11 DEF Looping
<1> QED BY <1>7, <1>8, <1>12 DEF Watchful

LEMMA FinishedWatchful ==
  ASSUME Base, UNCHANGED <<mirror, host>>, NEW open, Finished(open), host.srv => \A j \in Keys : Agrees(j)
  PROVE  Watchful'
<1>1. pc'["hb"] = "idle"
  BY BaseHas, RestLeaves DEF Finished, Threads
<1>2. Settled'
  BY DEF Settled, Agrees
<1> QED BY <1>1, <1>2, IdleKeeps DEF Watchful

LEMMA ControlsWatchful ==
  ASSUME Base, Watchful, UNCHANGED <<mirror, host, href>>, pc["hb"] # "idle",
         NEW done \in SUBSET Keys, NEW open, LoopControls(Live(Controls), done, open),
         host.srv => open \/ reregister,
         host.srv => \A j \in Keys : Agrees(j) \/ Missing(j, "controls", Controls, done)
  PROVE  Watchful'
<1>1. SameSize(Controls, Live(Controls))
  BY DEF SameSize
<1>2. CASE \E k \in Live(Controls) \ done : Visit("controls", Live(Controls), done, k, open)
  BY <1>2, VisitWatchful
<1>3. CASE Over(Controls, Live(Controls), done) /\ Finished(open)
  <2>1. \A j \in Keys : ~Missing(j, "controls", Controls, done)
    BY <1>3 DEF Missing, Over, Live
  <2> QED BY <1>3, <2>1, FinishedWatchful
<1> QED BY <1>1, <1>2, <1>3, ControlsLoop

LEMMA ResourcesWatchful ==
  ASSUME Base, Watchful, UNCHANGED <<mirror, host, href>>, pc["hb"] # "idle",
         NEW done \in SUBSET Keys, NEW open, LoopResources(Live(Resources), done, open),
         host.srv => open \/ reregister,
         host.srv => \A j \in Keys : Agrees(j) \/ Missing(j, "resources", Resources, done)
  PROVE  Watchful'
<1>1. SameSize(Resources, Live(Resources))
  BY DEF SameSize
<1>2. CASE \E k \in Live(Resources) \ done : Visit("resources", Live(Resources), done, k, open)
  BY <1>2, VisitWatchful
<1>3. CASE Over(Resources, Live(Resources), done) /\ LoopControls(Live(Controls), {}, open)
  <2>1. \A j \in Keys : Missing(j, "resources", Resources, done) => Missing(j, "controls", Controls, {})
    BY <1>3 DEF Missing, Over, Live
  <2> QED BY <1>3, <2>1, ControlsWatchful
<1> QED BY <1>1, <1>2, <1>3 DEF LoopResources

(* Elsewhere in the heartbeat the facade, the flag and the client's calls  *)
(* stay.                                                                   *)
LEMMA HeartbeatSettled ==
  ASSUME Base, Watchful, Resume("hb"), OthersAs("hb"), pc["hb"] \notin Loops, ~Registered,
         UNCHANGED reregister
  PROVE  Settled'
<1>0. "hb" \in Threads /\ "cl" \in Threads /\ "hb" # "cl"
  BY DEF Threads
<1>1. UNCHANGED <<mirror, host>> /\ answer'["cl"] = answer["cl"]
  BY <1>0, BaseHas DEF Resume
<1>2. pc'["cl"] = pc["cl"] /\ phase'["cl"] = phase["cl"] /\ cur'["cl"] = cur["cl"]
  BY <1>0 DEF OthersAs
<1>3. (Doubt => Doubt') /\ \A k \in Keys : Telling(k) => Telling(k)'
  BY <1>1, <1>2 DEF Doubt, Telling, Replied
<1> QED BY <1>1, <1>3, SettledKept DEF Watchful

LEMMA HeartbeatBackWatchful ==
  ASSUME Base, Watchful, Resume("hb"), HeartbeatBack
  PROVE  Watchful'
<1>0. "hb" \in Threads /\ "cl" \in Threads /\ "hb" # "cl" /\ ThreadTypes
  BY BaseHas DEF Threads
<1>1. UNCHANGED <<reregister, href>> /\ pc["hb"] = "heartbeat"
  BY DEF HeartbeatBack, Resume
<1>2. OthersAs("hb") /\ pc'["hb"] \in {"idle", "unregister"}
  <2>1. ServiceCall("unregister") \in Requests
    BY CallsTyped
  <2> QED BY <1>0, <2>1, RestLeaves, BeginLeaves DEF HeartbeatBack
<1>3. Settled'
  BY <1>1, <1>2, HeartbeatSettled DEF Registered, Loops
<1>4. Apart'
  BY <1>0, <1>1, <1>2 DEF Watchful, Apart, OthersAs
<1>5. Registering' /\ Fresh' /\ Opened' /\ Looping'
  BY <1>2 DEF Registering, Registered, Fresh, Opened, Looping, Loops
<1> QED BY <1>3, <1>4, <1>5 DEF Watchful

LEMMA UnregisterBackWatchful ==
  ASSUME Base, Watchful, Resume("hb"), UnregisterBack
  PROVE  Watchful'
<1>0. "hb" \in Threads /\ "cl" \in Threads /\ "hb" # "cl" /\ ThreadTypes
  BY BaseHas DEF Threads
<1>1. UNCHANGED <<reregister, href>> /\ pc["hb"] = "unregister"
  BY DEF UnregisterBack, Resume
<1>2. /\ OthersAs("hb")
      /\ \/ pc'["hb"] = "idle"
         \/ pc'["hb"] = "register" /\ phase'["hb"] \in {"lock", "setup"} /\ ~srv_registered'
  <2>1. ServiceCall("register") \in Requests
    BY CallsTyped
  <2> QED BY <1>0, <2>1, RestLeaves, BeginLeaves DEF UnregisterBack
<1>3. Settled'
  BY <1>1, <1>2, HeartbeatSettled DEF Registered, Loops
<1>4. Apart'
  BY <1>0, <1>1, <1>2 DEF Watchful, Apart, OthersAs
<1>5. Registering' /\ Fresh' /\ Opened' /\ Looping'
  BY <1>2 DEF Registering, Registered, Fresh, Opened, Looping, Loops
<1> QED BY <1>3, <1>4, <1>5 DEF Watchful

(* What the service's registration leaves in the facade is nothing, so     *)
(* that all entries that there are are missing.                            *)
LEMMA RegisterBackWatchful ==
  ASSUME Base, Watchful, Resume("hb"), RegisterBack
  PROVE  Watchful'
<1>0. "hb" \in Threads /\ "cl" \in Threads /\ "hb" # "cl" /\ ThreadTypes
  BY BaseHas DEF Threads
<1>1. /\ UNCHANGED <<mirror, host, href>> /\ phase["hb"] = "back"
      /\ pc["hb"] = "register" /\ ~srv_registered
      /\ srv_registered' = (srv_registered \/ answer["hb"] = "success")
  BY DEF RegisterBack, Resume, Watchful, Registering
<1>2. CASE answer["hb"] = "success"
  <2>1. Registered /\ LoopResources(Live(Resources), {}, ipc)
    BY <1>1, <1>2, BaseHas DEF Registered, RegisterBack, Open
  <2>2. host.srv => (ipc \/ reregister) /\ host.held = Nothing
    BY <2>1 DEF Watchful, Opened, Fresh
  <2>3. host.srv => \A j \in Keys : Agrees(j) \/ Missing(j, "resources", Resources, {})
    BY <2>2 DEF Agrees, Missing, Nothing, Keys
  <2>4. {} \in SUBSET Keys
    OBVIOUS
  <2> QED BY <1>1, <2>1, <2>2, <2>3, <2>4, ResourcesWatchful
<1>3. CASE answer["hb"] # "success"
  <2>1. ~srv_registered' /\ Rest("hb") /\ UNCHANGED reregister
    BY <1>1, <1>3 DEF RegisterBack
  <2>2. OthersAs("hb") /\ pc'["hb"] = "idle"
    BY <1>0, <2>1, RestLeaves
  <2>3. ~Registered /\ pc["hb"] \notin Loops
    BY <1>1, <1>3 DEF Registered, Loops
  <2> QED BY <2>1, <2>2, <2>3, HeartbeatSettled, IdleKeeps DEF Watchful
<1> QED BY <1>2, <1>3

LEMMA LoopBackWatchful ==
  ASSUME Base, Watchful, Resume("hb"), LoopBack
  PROVE  Watchful'
<1>0. "hb" \in Threads /\ "cl" \in Threads /\ "hb" # "cl" /\ ThreadTypes
  BY BaseHas DEF Threads
<1>1. UNCHANGED <<mirror, host, href>> /\ phase["hb"] = "back" /\ pc["hb"] \in Loops /\ pc["hb"] # "idle"
  BY DEF LoopBack, Resume, Loops
<1>2. /\ iter.start = Live(Table) /\ cur["hb"].key \in iter.done /\ iter.done \in SUBSET Keys
      /\ host.srv => ipc \/ reregister
  BY <1>1, BaseHas DEF Watchful, Looping, Opened
<1>3. ASSUME Replied("hb")
      PROVE  host.srv => \A j \in Keys :
               Agrees(j) \/ Missing(j, pc["hb"], Table, iter.done)
  BY <1>1, <1>2, <1>3 DEF Watchful, Looping, Todo, Missing
<1>4. CASE Replied("hb") /\ pc["hb"] = "resources" /\ LoopResources(iter.start, iter.done, ipc)
  <2>1. Table = Resources
    BY <1>4 DEF Table
  <2> QED BY <1>1, <1>2, <1>3, <1>4, <2>1, ResourcesWatchful
<1>5. CASE Replied("hb") /\ pc["hb"] = "controls" /\ LoopControls(iter.start, iter.done, ipc)
  <2>1. Table = Controls
    BY <1>5 DEF Table
  <2> QED BY <1>1, <1>2, <1>3, <1>5, <2>1, ControlsWatchful
<1>6. CASE answer["hb"] = "failed" /\ Interrupted
  <2>1. Rest("hb") /\ UNCHANGED reregister
    BY <1>6 DEF Interrupted
  <2>2. pc'["hb"] = "idle"
    BY <1>0, <2>1, RestLeaves
  <2>3. host.srv => reregister
    BY <1>1, <1>6 DEF Watchful, Looping, Replied
  <2>4. Settled'
    BY <1>1, <2>1, <2>3 DEF Settled, Doubt
  <2> QED BY <2>2, <2>4, IdleKeeps DEF Watchful
<1> QED BY <1>4, <1>5, <1>6 DEF LoopBack

LEMMA ClientResumeWatchful ==
  ASSUME Base, Watchful, Resume("cl")
  PROVE  Watchful'
<1>0. "hb" \in Threads /\ "cl" \in Threads /\ "hb" # "cl" /\ ThreadTypes
  BY BaseHas DEF Threads
<1>1. UNCHANGED <<mirror, href, host>> /\ phase["cl"] = "back" /\ answer'["hb"] = answer["hb"]
  BY <1>0, BaseHas DEF Resume
<1>2. /\ Rest("cl") /\ UNCHANGED iter /\ ipc' = Open("cl")
      /\ \/ pc["cl"] \in {"register", "unregister"} /\ UNCHANGED reregister
         \/ /\ pc["cl"] = "call" /\ UNCHANGED srv_registered
            /\ reregister' = ReregisterOnError
  BY DEF Resume, ServiceBack, WithdrawBack, CallBack
<1>3. OthersAs("cl") /\ pc'["cl"] = "idle"
  BY <1>0, <1>2, RestLeaves
<1>4. HbSame
  BY <1>0, <1>1, <1>3 DEF HbSame, OthersAs
<1>5. pc["hb"] # "idle" => pc["cl"] = "call"
  <2>1. pc["cl"] # "idle"
    BY <1>2
  <2> QED BY <2>1 DEF Watchful, Apart
<1>6. reregister => reregister'
  BY <1>2 DEF ReregisterOnError
<1>7. pc["cl"] = "call" => (ipc => ipc' \/ reregister')
  BY <1>2 DEF ReregisterOnError, Open, Replied
<1>8. Apart' /\ Registering' /\ Fresh' /\ Opened' /\ Looping'
  <2>1. CASE pc["hb"] = "idle"
    BY <1>4, <2>1, IdleKeeps DEF HbSame
  <2>2. CASE pc["hb"] # "idle"
    BY <1>1, <1>2, <1>3, <1>4, <1>5, <1>6, <1>7, <2>2, OthersKeep DEF Agrees
  <2> QED BY <2>1, <2>2
<1>9. Settled'
  <2>1. \A k \in Keys : ~Telling(k)
    BY <1>1 DEF Telling
  <2>2. Doubt => Doubt'
    BY <1>1, <1>2, <1>6 DEF Doubt, ReregisterOnError
  <2>3. Registered => Registered'
    BY <1>4 DEF Registered, HbSame
  <2> QED BY <1>1, <1>4, <2>1, <2>2, <2>3, SettledKept DEF Watchful, HbSame
<1> QED BY <1>8, <1>9 DEF Watchful
-------------------------------------------------------------------------------
LEMMA HeartbeatWatchful ==
  ASSUME Base, Careful, Watchful, Heartbeat
  PROVE  Watchful'
<1>0. "hb" \in Threads /\ "cl" \in Threads /\ "hb" # "cl" /\ ThreadTypes
  BY BaseHas DEF Threads
<1>1. /\ UNCHANGED <<reregister, mirror, host, href, answer>>
      /\ href /\ pc["hb"] = "idle" /\ pc["cl"] \notin {"register", "unregister"}
  BY DEF Heartbeat, proxy, Careful
<1>2. OthersAs("hb") /\ pc'["hb"] = "heartbeat"
  <2>1. ServiceCall("heartbeat") \in Requests
    BY CallsTyped
  <2> QED BY <1>0, <2>1, BeginLeaves DEF Heartbeat
<1>3. pc'["cl"] = pc["cl"] /\ phase'["cl"] = phase["cl"] /\ cur'["cl"] = cur["cl"]
  BY <1>0, <1>2 DEF OthersAs
<1>4. pc["cl"] \in {"idle", "call"}
  <2>1. pc["cl"] \in {"idle"} \cup Routine("cl")
    BY <1>0, BaseHas DEF Routines, InRoutine
  <2> QED BY <1>0, <1>1, <2>1 DEF Routine
<1>5. Apart'
  BY <1>1, <1>3, <1>4 DEF Apart
<1>6. Registering' /\ Fresh' /\ Opened' /\ Looping'
  BY <1>2 DEF Registering, Registered, Fresh, Opened, Looping, Loops
<1>7. Settled'
  <2>1. (Doubt => Doubt') /\ \A k \in Keys : Telling(k) => Telling(k)'
    BY <1>1, <1>3 DEF Doubt, Telling, Replied
  <2>2. ~Registered /\ pc["hb"] \notin Loops
    BY <1>1 DEF Registered, Loops
  <2> QED BY <1>1, <2>1, <2>2, SettledKept DEF Watchful
<1> QED BY <1>5, <1>6, <1>7 DEF Watchful

LEMMA ServiceWatchful ==
  ASSUME Base, Careful, Watchful, RegisterService \/ UnregisterService
  PROVE  Watchful'
<1>0. "hb" \in Threads /\ "cl" \in Threads /\ "hb" # "cl" /\ ThreadTypes
  BY BaseHas DEF Threads
<1>1. UNCHANGED <<reregister, mirror, host, answer>> /\ pc["cl"] = "idle" /\ pc["hb"] = "idle"
  BY DEF RegisterService, UnregisterService, proxy, Careful, Watchful, Apart
<1>2. OthersAs("cl")
  <2>1. ServiceCall("register") \in Requests /\ ServiceCall("unregister") \in Requests
    BY CallsTyped
  <2> QED BY <1>0, <2>1, BeginLeaves DEF RegisterService, UnregisterService
<1>3. pc'["hb"] = "idle"
  BY <1>0, <1>1, <1>2 DEF OthersAs
<1>4. Settled'
  <2>1. (Doubt => Doubt') /\ \A k \in Keys : ~Telling(k)
    BY <1>1 DEF Doubt, Telling
  <2>2. ~Registered /\ pc["hb"] \notin Loops
    BY <1>1 DEF Registered, Loops
  <2> QED BY <1>1, <2>1, <2>2, SettledKept DEF Watchful
<1> QED BY <1>3, <1>4, IdleKeeps DEF Watchful

(* An entry that changes is then told, or the flag is set.                 *)
LEMMA ChangeWatchful ==
  ASSUME Base, Careful, Watchful, NEW k \in Keys, NEW v \in Entry, Change(k, v)
  PROVE  Watchful'
<1>0. "hb" \in Threads /\ "cl" \in Threads /\ "hb" # "cl" /\ ThreadTypes
  BY BaseHas DEF Threads
<1>1. /\ UNCHANGED <<ipc, srv_registered, answer, href, host>>
      /\ href /\ pc["cl"] = "idle" /\ pc["hb"] \notin Loops
      /\ mirror' = [mirror EXCEPT ![k] = v]
  BY DEF Change, Careful
<1>2. \A j \in Keys \ {k} : mirror'[j] = mirror[j]
  BY <1>1, BaseHas
<1>3. \/ reregister' /\ UNCHANGED <<pc, phase>>
      \/ /\ Begin("cl", "call", EntryCall(k, v), ipc)
         /\ UNCHANGED reregister
  BY DEF Change, ReregisterLater
<1>4. /\ pc'["hb"] = pc["hb"] /\ phase'["hb"] = phase["hb"]
      /\ pc'["cl"] \in {"idle", "call"}
      /\ reregister => reregister'
      /\ ~reregister' => /\ ~reregister /\ pc'["cl"] = "call" /\ cur'["cl"].key = k
                         /\ phase'["cl"] \in {"lock", "setup"}
  <2>1. CASE reregister' /\ UNCHANGED <<pc, phase>>
    BY <1>1, <2>1
  <2>2. CASE Begin("cl", "call", EntryCall(k, v), ipc) /\ UNCHANGED reregister
    <3>1. EntryCall(k, v) \in Requests /\ EntryCall(k, v).key = k
      BY CallsTyped
    <3>2. /\ OthersAs("cl") /\ pc'["cl"] = "call" /\ cur'["cl"] = EntryCall(k, v)
          /\ phase'["cl"] \in {"lock", "setup"}
      BY <1>0, <2>2, <3>1, BeginLeaves
    <3> QED BY <1>0, <2>2, <3>1, <3>2 DEF OthersAs
  <2> QED BY <1>3, <2>1, <2>2
<1>5. Registered' <=> Registered
  BY <1>1, <1>4 DEF Registered
<1>6. Apart' /\ Registering' /\ Fresh' /\ Opened' /\ Looping'
  BY <1>1, <1>4, <1>5 DEF Watchful, Apart, Registering, Fresh, Opened, Looping
<1>7. Settled'
  <2> SUFFICES ASSUME ~Registered, host.srv, ~reregister', NEW j \in Keys
               PROVE  Agrees(j)' \/ Telling(j)'
    BY <1>1, <1>5 DEF Settled, Doubt
  <2>1. CASE j = k
    BY <1>4, <2>1 DEF Telling
  <2>2. CASE j # k
    <3>1. ~Doubt /\ ~Telling(j)
      BY <1>1, <1>4 DEF Doubt, Telling
    <3>2. Agrees(j)
      BY <1>1, <3>1 DEF Watchful, Settled
    <3> QED BY <1>1, <1>2, <2>2, <3>2 DEF Agrees
  <2> QED BY <2>1, <2>2
<1> QED BY <1>6, <1>7 DEF Watchful

LEMMA HostWatchful ==
  ASSUME Base, Watchful, HostDown \/ HostUp
  PROVE  Watchful'
<1>1. UNCHANGED <<ipc, srv_registered, reregister, mirror, pc, phase, cur, answer, iter, href>>
  BY DEF HostDown, HostUp, proxy
<1>2. ~host'.srv
  <2>1. Empty = [up |-> TRUE, srv |-> FALSE, held |-> Nothing]
    BY DEF Empty
  <2>2. host' = Empty \/ host' = [up |-> FALSE, srv |-> FALSE, held |-> Nothing]
    BY <2>1 DEF HostDown, HostUp
  <2> QED BY <2>1, <2>2
<1>3. HbSame
  BY <1>1 DEF HbSame
<1>4. Apart' /\ Registering' /\ Fresh' /\ Opened' /\ Looping'
  BY <1>1, <1>2, <1>3, OthersKeep
<1>5. Settled'
  BY <1>2 DEF Settled
<1> QED BY <1>4, <1>5 DEF Watchful

LEMMA StepWatchful == FInv /\ [Next]_<<world, vars>> => FInv'
<1> SUFFICES ASSUME FInv, [Next]_<<world, vars>> PROVE FInv'
  OBVIOUS
<1>1. Base /\ Base'
  BY StepBase DEF FInv
<1>2. UNCHANGED world
  BY DEF Next
<1> SUFFICES ASSUME Careful PROVE Watchful'
  BY <1>1, <1>2 DEF FInv, Careful
<1>3. Watchful
  BY DEF FInv
<1>4. CASE UNCHANGED vars
  BY <1>3, <1>4 DEF vars, Watchful, Apart, Registering, Registered, Fresh, Opened, Looping,
                    Table, Live, Agrees, Todo, Replied, Settled, Doubt, Telling
<1>5. CASE Next
  <2>1. ASSUME NEW t \in Threads, Setup(t) \/ Ask(t) \/ Serve(t) \/ Timeout(t) PROVE Watchful'
    BY <1>1, <1>3, <2>1, SetupWatchful, AskWatchful, HeartbeatServedWatchful,
       HeartbeatTimeoutWatchful, ClientAnsweredWatchful DEF Threads
  <2>2. CASE Resume("hb")
    <3>1. HeartbeatBack \/ UnregisterBack \/ RegisterBack \/ LoopBack
      BY <2>2 DEF Resume
    <3> QED
      BY <1>1, <1>3, <2>2, <3>1, HeartbeatBackWatchful, UnregisterBackWatchful,
         RegisterBackWatchful, LoopBackWatchful
  <2>3. CASE Resume("cl")
    BY <1>1, <1>3, <2>3, ClientResumeWatchful
  <2>4. CASE Heartbeat \/ RegisterService \/ UnregisterService \/ HostDown \/ HostUp
    BY <1>1, <1>3, <2>4, HeartbeatWatchful, ServiceWatchful, HostWatchful
  <2>5. ASSUME NEW k \in Keys, NEW v \in Entry, Change(k, v) PROVE Watchful'
    BY <1>1, <1>3, <2>5, ChangeWatchful
  <2> QED BY <1>5, <2>1, <2>2, <2>3, <2>4, <2>5 DEF Next, Step, Threads
<1> QED BY <1>4, <1>5 DEF vars

(* The flags tell the truth: in a careful world, when no call is under way *)
(* and both flags say that all is registered, a facade that knows the      *)
(* service holds exactly the proxy's entries (facade.py 40-41).            *)
THEOREM FlagAlwaysTells == Spec => []FlagTells
<1>1. Init => FInv
  BY InitBase, InitWatchful DEF FInv
<1>2. FInv => FlagTells
  <2> SUFFICES ASSUME FInv, Careful, \A t \in Threads : pc[t] = "idle", ~reregister, host.srv
               PROVE  host.held = mirror
    BY DEF FlagTells
  <2>1. pc["hb"] = "idle" /\ pc["cl"] = "idle"
    BY DEF Threads
  <2>2. ~Registered /\ ~Doubt /\ pc["hb"] \notin Loops /\ \A k \in Keys : ~Telling(k)
    BY <2>1 DEF Registered, Doubt, Telling, Loops
  <2>3. \A k \in Keys : host.held[k] = mirror[k]
    BY <2>2 DEF FInv, Watchful, Settled, Agrees
  <2>4. host.held \in [Keys -> Entry] /\ mirror \in [Keys -> Entry]
    BY BaseHas DEF FInv
  <2> QED BY <2>3, <2>4
<1> QED BY <1>1, <1>2, StepWatchful, PTL DEF Spec
===============================================================================
