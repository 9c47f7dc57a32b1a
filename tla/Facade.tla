------------------------------- MODULE Facade --------------------------------
(***************************************************************************)
(* The Facade of nmoscommon/facade.py: a proxy through which a service     *)
(* keeps itself, its resources and its controls registered with the node   *)
(* facade process of the same machine.  Its calls go through a Proxy of    *)
(* nmoscommon/ipc.py (a ZeroMQ request that times out after 100 ms) to the *)
(* Host in the facade process.  Two threads of control use it:             *)
(*                                                                         *)
(*   "hb"  heartbeat_service, called at intervals, which registers         *)
(*         everything again when the facade has lost the service or a call *)
(*         of the client has failed (reregister_all);                      *)
(*   "cl"  the client, which registers the service, adds, updates and      *)
(*         deletes its resources and controls and unregisters the service, *)
(*         which the next heartbeat registers again.                       *)
(*                                                                         *)
(* self.lock serialises the calls.  An action runs from one point where a  *)
(* thread waits (for the lock, for the facade) to the next.                *)
(***************************************************************************)
EXTENDS Naturals, FiniteSets

CONSTANTS
  Resources, Controls,  \* the keys of self.resources and of self.controls
  Values, None,         \* the contents of an entry; None where there is none
  Worlds,               \* the clients and faults considered, see world
  MaxFaults             \* bound: faults

ASSUME FacadeAssumption ==
  /\ Resources \cap Controls = {} /\ None \notin Values
  /\ IsFiniteSet(Resources) /\ IsFiniteSet(Controls)
  /\ Worlds \subseteq
       [hasty : BOOLEAN, faults : SUBSET {"restart", "timeout", "midway"}, ops : Nat]
  /\ MaxFaults \in Nat

VARIABLES
  world,           \* a hasty client heartbeats before register_service or
                   \* unregister_service has returned, calls the latter during
                   \* a heartbeat and changes entries during the two loops;
                   \* what may go wrong; bound: calls of the client
  ipc,             \* self.ipc is a Proxy
  srv_registered,  \* self.srv_registered: the service is registered
  reregister,      \* self.reregister: its entries are to be registered again
  mirror,          \* self.resources and self.controls
  lock,            \* who holds self.lock, or "free"
  pc,              \* the routine each thread is in
  phase,           \* how far it is with the call it makes there
  cur,             \* that call
  answer,          \* what came of it
  iter,            \* reregister_all's loop: its keys at the start, those done
  href,            \* register_service has been called
  host,            \* the facade process
  faults, ops      \* bounded counters

proxy == <<ipc, srv_registered, reregister>>
vars == <<ipc, srv_registered, reregister, mirror, lock, pc, phase, cur, answer,
          iter, href, host, faults, ops>>

Threads == {"hb", "cl"}
Keys == Resources \cup Controls
Entry == Values \cup {None}
Loops == {"resources", "controls"}
Requests == [method : {"heartbeat", "unregister", "register"}, key : {None}, data : {None}]
              \cup [method : {"put"}, key : Keys, data : Entry]
ServiceCall(m) == [method |-> m, key |-> None, data |-> None]
EntryCall(k, v) == [method |-> "put", key |-> k, data |-> v]  \* None: unregister it
-------------------------------------------------------------------------------
(* The facade process, as the calls of nmoscommon/facade.py rely on it: a  *)
(* service that is there already (FAC_EXISTS) or is not (FAC_UNREGISTERED) *)
(* is refused, and unregistering it drops all that it had registered.      *)
Nothing == [k \in Keys |-> None]
Empty == [up |-> TRUE, srv |-> FALSE, held |-> Nothing]

Accepted(c) == (c.method = "register") # host.srv

Served(c) ==
  CASE ~Accepted(c) \/ c.method = "heartbeat" -> host
    [] Accepted(c) /\ c.method = "register" -> [Empty EXCEPT !.srv = TRUE]
    [] Accepted(c) /\ c.method = "unregister" -> Empty
    [] Accepted(c) /\ c.method = "put" -> [host EXCEPT !.held[c.key] = c.data]
-------------------------------------------------------------------------------
(* What a thread does next: nothing, or another call.  A Proxy is set up   *)
(* before the call if there is none (open = FALSE).                        *)
Rest(t) ==
  /\ pc' = [pc EXCEPT ![t] = "idle"]
  /\ phase' = [phase EXCEPT ![t] = "none"]
  /\ cur' = [cur EXCEPT ![t] = ServiceCall("heartbeat")]

Begin(t, routine, c, open) ==
  /\ pc' = [pc EXCEPT ![t] = routine]
  /\ phase' = [phase EXCEPT ![t] = IF open THEN "lock" ELSE "setup"]
  /\ cur' = [cur EXCEPT ![t] = c]
-------------------------------------------------------------------------------
(* The loops of reregister_all, with self.ipc a Proxy or not (open).  The   *)
(* dictionary of a loop may not change its size while the loop runs:       *)
(* Python then raises RuntimeError, which heartbeat_service catches.  A    *)
(* key that joined while another left may be passed over.  The loops set   *)
(* up no Proxy.                                                            *)
Live(table) == {k \in table : mirror[k] # None}

Visit(routine, start, done, k, open) ==
  /\ ipc' = open
  /\ iter' = [start |-> start, done |-> done \cup {k}]
  /\ Begin("hb", routine, EntryCall(k, mirror[k]), TRUE)
  /\ UNCHANGED reregister

Interrupted ==
  /\ ipc' = FALSE
  /\ Rest("hb") /\ UNCHANGED <<reregister, iter>>

Finished(open) ==
  /\ ipc' = open
  /\ reregister' = FALSE
  /\ Rest("hb") /\ UNCHANGED iter

SameSize(table, start) == Cardinality(Live(table)) = Cardinality(start)
Over(table, start, done) == start \cap Live(table) \subseteq done

LoopControls(start, done, open) ==
  \/ ~SameSize(Controls, start) /\ Interrupted
  \/ /\ SameSize(Controls, start)
     /\ \/ \E k \in Live(Controls) \ done : Visit("controls", start, done, k, open)
        \/ Over(Controls, start, done) /\ Finished(open)

LoopResources(start, done, open) ==
  \/ ~SameSize(Resources, start) /\ Interrupted
  \/ /\ SameSize(Resources, start)
     /\ \/ \E k \in Live(Resources) \ done : Visit("resources", start, done, k, open)
        \/ Over(Resources, start, done) /\ LoopControls(Live(Controls), {}, open)
-------------------------------------------------------------------------------
Unprotected == TRUE                                    \* mutant of the next
Free == lock = "free"

(* setup_ipc, under the lock.  Proxy() raises where the socket's path does *)
(* not exist; the path of a facade that has gone may still be there.       *)
Setup(t) ==
  /\ phase[t] = "setup" /\ Free
  /\ \E open \in (IF host.up THEN {TRUE} ELSE BOOLEAN) :
       /\ ipc' = open
       /\ phase' = [phase EXCEPT ![t] = IF open THEN "lock" ELSE "back"]
       /\ answer' = [answer EXCEPT ![t] = IF open THEN @ ELSE "absent"]
  /\ UNCHANGED <<srv_registered, reregister, mirror, lock, pc, cur, iter, href,
                 host, faults, ops>>

(* A call begins: the request is sent under the lock.  A resource is read  *)
(* under the lock too, a control is not: the call has what was read before *)
(* the wait.  A Proxy or a resource that has gone meanwhile is an error.   *)
Contents(t) ==
  IF pc[t] = "resources" THEN mirror[cur[t].key] ELSE cur[t].data

Gone(t) == ~ipc \/ (pc[t] = "resources" /\ mirror[cur[t].key] = None)

Ask(t) ==
  /\ phase[t] = "lock" /\ Free
  /\ \/ /\ Gone(t)
        /\ phase' = [phase EXCEPT ![t] = "back"]
        /\ answer' = [answer EXCEPT ![t] = "failed"]
        /\ UNCHANGED <<lock, cur>>
     \/ /\ ~Gone(t)
        /\ lock' = t
        /\ phase' = [phase EXCEPT ![t] = "asked"]
        /\ cur' = [cur EXCEPT ![t].data = Contents(t)]
        /\ UNCHANGED answer
  /\ UNCHANGED <<ipc, srv_registered, reregister, mirror, pc, iter, href, host,
                 faults, ops>>

(* The facade answers, or the Proxy times out; the request may still have  *)
(* been served then.  The caller has the lock until it resumes.            *)
Back(t, what) ==
  /\ phase[t] = "asked"
  /\ phase' = [phase EXCEPT ![t] = "back"]
  /\ answer' = [answer EXCEPT ![t] = what]
  /\ UNCHANGED <<proxy, mirror, lock, pc, cur, iter, href, ops>>

Serve(t) ==
  /\ host.up
  /\ Back(t, IF Accepted(cur[t]) THEN "success" ELSE "refused")
  /\ host' = Served(cur[t])
  /\ UNCHANGED faults

Midway == {"register", "resources", "controls"}       \* in reregister_all

Timeout(t) ==
  /\ Back(t, "failed")
  /\ \/ ~host.up /\ UNCHANGED <<host, faults>>
     \/ /\ host.up /\ faults < MaxFaults
        /\ (IF t = "hb" /\ pc[t] \in Midway THEN "midway" ELSE "timeout") \in world.faults
        /\ faults' = faults + 1
        /\ host' \in {host, Served(cur[t])}
-------------------------------------------------------------------------------
(* What the caller does with the answer, up to its next wait.              *)
Replied(t) == answer[t] \in {"success", "refused"}
Open(t) == ipc /\ answer[t] # "failed"    \* self.ipc after the except clause

HeartbeatOnlyAdds == srv_registered \/ answer["hb"] = "success"  \* mutant of the next
HeartbeatTells == answer["hb"] = "success"

HeartbeatBack ==
  /\ pc["hb"] = "heartbeat"
  /\ ipc' = Open("hb")
  /\ srv_registered' = IF Replied("hb") THEN HeartbeatTells ELSE srv_registered
  /\ IF Replied("hb") /\ (reregister \/ ~srv_registered')
       THEN Begin("hb", "unregister", ServiceCall("unregister"), ipc)
       ELSE Rest("hb")
  /\ UNCHANGED <<reregister, iter>>

(* unregister_service: its status is not looked at, only that it came.     *)
UnregisterBack ==
  /\ pc["hb"] = "unregister"
  /\ ipc' = Open("hb")
  /\ srv_registered' = (srv_registered /\ ~Replied("hb"))
  /\ IF srv_registered'
       THEN Rest("hb")
       ELSE Begin("hb", "register", ServiceCall("register"), Open("hb"))
  /\ UNCHANGED <<reregister, iter>>

(* register_service: where the client's own call has registered the service *)
(* meanwhile, the loops run although this one has failed.                   *)
RegisterBack ==
  /\ pc["hb"] = "register"
  /\ srv_registered' = (srv_registered \/ answer["hb"] = "success")
  /\ \/ srv_registered' /\ LoopResources(Live(Resources), {}, Open("hb"))
     \/ /\ ~srv_registered'
        /\ ipc' = Open("hb") /\ Rest("hb") /\ UNCHANGED <<reregister, iter>>

(* The status of an entry's registration is not looked at.                 *)
LoopBack ==
  /\ pc["hb"] \in Loops
  /\ \/ answer["hb"] = "failed" /\ Interrupted
     \/ Replied("hb") /\ pc["hb"] = "resources" /\ LoopResources(iter.start, iter.done, ipc)
     \/ Replied("hb") /\ pc["hb"] = "controls" /\ LoopControls(iter.start, iter.done, ipc)
  /\ UNCHANGED srv_registered

ServiceBack ==                          \* the client's register_service
  /\ pc["cl"] = "register"
  /\ ipc' = Open("cl")
  /\ srv_registered' = (srv_registered \/ answer["cl"] = "success")
  /\ Rest("cl") /\ UNCHANGED <<reregister, iter>>

WithdrawBack ==                         \* the client's unregister_service
  /\ pc["cl"] = "unregister"
  /\ ipc' = Open("cl")
  /\ srv_registered' = (srv_registered /\ ~Replied("cl"))
  /\ Rest("cl") /\ UNCHANGED <<reregister, iter>>

ReregisterNever == reregister                          \* mutant of the next
ReregisterOnError == reregister \/ ~Replied("cl")

CallBack ==                             \* the client's _call_ipc_method
  /\ pc["cl"] = "call"
  /\ ipc' = Open("cl")
  /\ reregister' = ReregisterOnError
  /\ Rest("cl") /\ UNCHANGED <<srv_registered, iter>>

Resume(t) ==
  /\ phase[t] = "back"
  /\ \/ t = "hb" /\ (HeartbeatBack \/ UnregisterBack \/ RegisterBack \/ LoopBack)
     \/ t = "cl" /\ (ServiceBack \/ WithdrawBack \/ CallBack)
  /\ answer' = [answer EXCEPT ![t] = "none"]
  /\ lock' = IF lock = t THEN "free" ELSE lock
  /\ UNCHANGED <<mirror, href, host, faults, ops>>
-------------------------------------------------------------------------------
(* The callers.                                                            *)
Heartbeat ==
  /\ href /\ pc["hb"] = "idle"
  /\ world.hasty \/ pc["cl"] \notin {"register", "unregister"}
  /\ Begin("hb", "heartbeat", ServiceCall("heartbeat"), ipc)
  /\ UNCHANGED <<proxy, mirror, lock, answer, iter, href, host, faults, ops>>

RegisterService ==
  /\ ~href /\ pc["cl"] = "idle"
  /\ href' = TRUE
  /\ Begin("cl", "register", ServiceCall("register"), ipc)
  /\ UNCHANGED <<proxy, mirror, lock, answer, iter, host, faults, ops>>

UnregisterService ==
  /\ href /\ pc["cl"] = "idle" /\ ops < world.ops
  /\ world.hasty \/ pc["hb"] = "idle"
  /\ ops' = ops + 1
  /\ Begin("cl", "unregister", ServiceCall("unregister"), ipc)
  /\ UNCHANGED <<proxy, mirror, lock, answer, iter, href, host, faults>>

ReregisterUnchanged == reregister                      \* mutant of the next
ReregisterLater == TRUE

(* addResource, updateResource, delResource, addControl, delControl: the   *)
(* entry changes, then the facade is told, if the service is registered.   *)
Change(k, v) ==
  /\ href /\ pc["cl"] = "idle" /\ ops < world.ops
  /\ world.hasty \/ pc["hb"] \notin Loops
  /\ mirror[k] # v
  /\ mirror' = [mirror EXCEPT ![k] = v]
  /\ ops' = ops + 1
  /\ \/ ~srv_registered /\ reregister' = ReregisterLater /\ UNCHANGED <<pc, phase, cur>>
     \/ srv_registered /\ Begin("cl", "call", EntryCall(k, v), ipc) /\ UNCHANGED reregister
  /\ UNCHANGED <<ipc, srv_registered, lock, answer, iter, href, host, faults>>

(* The facade process goes away with all it held, and comes back.          *)
HostDown ==
  /\ "restart" \in world.faults /\ host.up /\ faults < MaxFaults
  /\ host' = [Empty EXCEPT !.up = FALSE]
  /\ faults' = faults + 1
  /\ UNCHANGED <<proxy, mirror, lock, pc, phase, cur, answer, iter, href, ops>>

HostUp ==
  /\ ~host.up
  /\ host' = Empty
  /\ UNCHANGED <<proxy, mirror, lock, pc, phase, cur, answer, iter, href, faults, ops>>
-------------------------------------------------------------------------------
Init ==
  /\ world \in Worlds
  /\ ipc = FALSE /\ srv_registered = FALSE /\ reregister = FALSE
  /\ mirror = Nothing /\ lock = "free" /\ href = FALSE
  /\ pc = [t \in Threads |-> "idle"]
  /\ phase = [t \in Threads |-> "none"]
  /\ cur = [t \in Threads |-> ServiceCall("heartbeat")]
  /\ answer = [t \in Threads |-> "none"]
  /\ iter = [start |-> {}, done |-> {}]
  /\ host = [Empty EXCEPT !.up = FALSE]
  /\ faults = 0 /\ ops = 0

Step ==
  \/ \E t \in Threads : Setup(t) \/ Ask(t) \/ Serve(t) \/ Timeout(t) \/ Resume(t)
  \/ Heartbeat \/ RegisterService \/ UnregisterService
  \/ \E k \in Keys, v \in Entry : Change(k, v)
  \/ HostDown \/ HostUp

Next == Step /\ UNCHANGED world
Spec == Init /\ [][Next]_<<world, vars>>

(* The service heartbeats, at intervals in which a thread that waits for   *)
(* the lock comes to have it (SF), its threads run, a facade that is there *)
(* comes to answer, one that has gone comes back.                          *)
Fairness ==
  /\ \A t \in Threads : SF_vars(Setup(t)) /\ SF_vars(Ask(t))
  /\ \A t \in Threads : WF_vars(Serve(t) \/ Timeout(t)) /\ WF_vars(Resume(t))
  /\ WF_vars(Heartbeat) /\ WF_vars(RegisterService) /\ WF_vars(HostUp)

FairSpec == Spec /\ Fairness
-------------------------------------------------------------------------------
(* The types of the variables; the lock is held by the thread whose        *)
(* request is with the facade, so that no two share the socket.            *)
TypeOK ==
  /\ world \in Worlds
  /\ {ipc, srv_registered, reregister, href} \subseteq BOOLEAN
  /\ mirror \in [Keys -> Entry]
  /\ lock \in Threads \cup {"free"}
  /\ pc \in [Threads -> {"idle", "heartbeat", "unregister", "register", "call"} \cup Loops]
  /\ phase \in [Threads -> {"none", "setup", "lock", "asked", "back"}]
  /\ cur \in [Threads -> Requests]
  /\ answer \in [Threads -> {"none", "absent", "failed", "success", "refused"}]
  /\ iter \in [start : SUBSET Keys, done : SUBSET Keys]
  /\ host \in [up : BOOLEAN, srv : BOOLEAN, held : [Keys -> Entry]]
  /\ faults \in 0 .. MaxFaults /\ ops \in 0 .. world.ops
  /\ \A t \in Threads : phase[t] = "asked" => lock = t
  /\ \A t \in Threads : phase[t] = "back" /\ Replied(t) => lock = t

(* The worlds in which nothing is lost: see Known for the others. *)
Careful == ~world.hasty /\ "midway" \notin world.faults

(* The flags tell the truth (facade.py:40-41, "Flag whether resources are  *)
(* correctly registered"): when no call is under way and the proxy has     *)
(* nothing to register again, a facade that knows the service holds        *)
(* exactly the entries of the proxy.                                       *)
FlagTells ==
  (\A t \in Threads : pc[t] = "idle") /\ srv_registered /\ ~reregister /\ host.srv
    => (Careful => host.held = mirror)

(* Whatever the facade and the calls go through, the facade comes to hold  *)
(* the service with its entries, and keeps them.                           *)
Restored == Careful => <>[](host.srv /\ host.held = mirror)

(* Even where entries may be lost, the service itself comes to be          *)
(* registered, the proxy comes to know it, and both stay so.               *)
Known == <>[](host.srv /\ srv_registered)
===============================================================================
