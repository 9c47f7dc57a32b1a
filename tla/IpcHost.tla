-------------------------------- MODULE IpcHost -------------------------------
(***************************************************************************)
(* Calls from one process to another: Host and Proxy of nmoscommon/ipc.py. *)
(*                                                                         *)
(* The Host's greenlet serves one request at a time from a reply socket,   *)
(* on which each request must be answered before the next is received.  A  *)
(* Proxy's request socket waits for an answer for a while and is closed if *)
(* none comes, so that the answer, which may still be sent, is lost; the   *)
(* user then makes another Proxy.                                          *)
(***************************************************************************)
EXTENDS Integers, Sequences

CONSTANTS
  Proxies,      \* the users of the host
  None,         \* no answer
  MaxCalls      \* bound: calls of all the users

(* What a request makes the host do: its method returns, returns None, or  *)
(* raises; there is no such method; it lacks a field; or, what ends the    *)
(* greenlet, it is no JSON, or JSON whose fields or whose function cannot  *)
(* be looked up, or its result cannot be turned into JSON.                 *)
Kinds == {"returns", "returns None", "raises", "no method", "no field", "breaks"}

VARIABLES
  stop, greenlet,  \* the host's _stop; its greenlet: "none", "poll", "call", "dead",
                   \* or "closed", without a socket to poll
  replies,         \* the reply socket may receive: the last request was answered
  pending,         \* the requests that wait at the host's socket
  serving,         \* the request being served
  proxy,           \* each proxy's socket, call and answer
  calls,           \* how many calls there have been
  broken           \* the host was sent a request that breaks it

vars == <<stop, greenlet, replies, pending, serving, proxy, calls, broken>>

Open(n) == [at |-> "idle", socket |-> n, call |-> 0, answer |-> None]
Send(p) == [proxy |-> p, socket |-> proxy[p].socket, call |-> calls', kind |-> None]
-------------------------------------------------------------------------------
(* Proxy: invoke_named. *)
Invoke(p, kind) ==
  /\ calls < MaxCalls /\ calls' = calls + 1
  /\ proxy[p].at = "idle"
  /\ pending' = Append(pending, [Send(p) EXCEPT !.kind = kind])
  /\ proxy' = [proxy EXCEPT ![p].at = "wait", ![p].call = calls', ![p].answer = None]
  /\ UNCHANGED <<stop, greenlet, replies, serving, broken>>

Return(p) ==
  /\ proxy[p].at = "wait" /\ proxy[p].answer # None
  /\ proxy' = [proxy EXCEPT ![p].at = "idle"]
  /\ UNCHANGED <<stop, greenlet, replies, pending, serving, calls, broken>>

(* The socket is closed; another has a name of its own. *)
KeepSocket(p) == [proxy[p] EXCEPT !.at = "idle"]        \* mutant of the next
NewSocket(p) == Open(proxy[p].socket + 1)
TimeOut(p) ==
  /\ proxy[p].at = "wait" /\ proxy[p].answer = None
  /\ proxy' = [proxy EXCEPT ![p] = NewSocket(p)]
  /\ UNCHANGED <<stop, greenlet, replies, pending, serving, calls, broken>>
-------------------------------------------------------------------------------
(* Host. *)
Start ==
  /\ stop /\ stop' = FALSE
  /\ greenlet' = IF greenlet = "closed" THEN "closed" ELSE "poll"
  /\ UNCHANGED <<replies, pending, serving, proxy, calls, broken>>

(* The greenlet is killed, in the midst of a method if it must be, and the *)
(* socket closed: a host that is started again does not serve.             *)
Stop ==
  /\ stop' = TRUE /\ greenlet' = "closed"
  /\ UNCHANGED <<replies, pending, serving, proxy, calls, broken>>

Receive ==
  /\ greenlet = "poll" /\ pending # << >>
  /\ IF replies
       THEN /\ serving' = Head(pending) /\ pending' = Tail(pending)
            /\ greenlet' = "call" /\ replies' = FALSE
       ELSE greenlet' = "dead" /\ UNCHANGED <<serving, pending, replies>>
  /\ UNCHANGED <<stop, proxy, calls, broken>>

NotIfRaised(kind) == kind \notin {"breaks", "raises"}   \* mutant of the next
IsAnswered(kind) == kind # "breaks"

Serve ==
  /\ greenlet = "call"
  /\ LET p == serving.proxy IN
       IF IsAnswered(serving.kind)
         THEN /\ proxy' = IF proxy[p].socket = serving.socket /\ proxy[p].at = "wait"
                            THEN [proxy EXCEPT ![p].answer = serving.call] ELSE proxy
              /\ replies' = TRUE
         ELSE UNCHANGED <<proxy, replies>>
  /\ greenlet' = IF serving.kind = "breaks" THEN "dead" ELSE "poll"
  /\ broken' = (broken \/ serving.kind = "breaks")
  /\ UNCHANGED <<stop, pending, serving, calls>>
-------------------------------------------------------------------------------
Init ==
  /\ stop = TRUE /\ greenlet = "none" /\ replies = TRUE
  /\ pending = << >> /\ serving = None
  /\ proxy = [p \in Proxies |-> Open(0)] /\ calls = 0 /\ broken = FALSE

Next ==
  \/ Start \/ Stop \/ Receive \/ Serve
  \/ \E p \in Proxies :
       Return(p) \/ TimeOut(p) \/ \E kind \in Kinds : Invoke(p, kind)

Fairness ==
  /\ WF_vars(Receive \/ Serve)
  /\ \A p \in Proxies : WF_vars(Return(p) \/ TimeOut(p))

Spec == Init /\ [][Next]_vars /\ Fairness
-------------------------------------------------------------------------------
(* A call returns the answer to its own request and never that to one that *)
(* was given up before; each call ends; and whatever its methods do, raise *)
(* or return None, the host goes on serving: only a request that is no     *)
(* call at all, or a result that cannot be JSON, ends it.                  *)
OwnAnswer == \A p \in Proxies : proxy[p].answer \in {None, proxy[p].call}
Serves ==
  /\ [](OwnAnswer /\ (greenlet = "dead" => broken))
  /\ \A p \in Proxies : (proxy[p].at = "wait") ~> (proxy[p].at = "idle")
===============================================================================
