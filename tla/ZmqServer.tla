------------------------------- MODULE ZmqServer ------------------------------
(***************************************************************************)
(* The ZmqServer of nmoscommon/zmqserver.py: a thread that starts workers  *)
(* and routes requests to them, and a stop that waits, in the caller's     *)
(* thread, for each worker to finish before it destroys the context.       *)
(***************************************************************************)
EXTENDS Integers

CONSTANT NumWorkers   \* numWorkers

VARIABLES
  server,     \* the server's thread: "new", "bound", "proxy", "done"
  context,    \* "none", "open", "destroyed"
  numListed,  \* how many workers are in the list
  worker,     \* each worker's thread: "new", "poll", "busy", "finished", "dead"
  amRunning,  \* each worker's flag
  stopper,    \* how many workers stop has waited for; -1 before it is called
  early       \* stop was called before the server had its workers

vars == <<server, context, numListed, worker, amRunning, stopper, early>>

Workers == 1..NumWorkers
-------------------------------------------------------------------------------
Run ==
  /\ server = "new" /\ server' = "bound" /\ context' = "open"
  /\ UNCHANGED <<numListed, worker, amRunning, stopper, early>>

StartWorker ==
  /\ server = "bound" /\ numListed < NumWorkers
  /\ numListed' = numListed + 1
  /\ worker' = [worker EXCEPT ![numListed'] = "poll"]
  /\ UNCHANGED <<server, context, amRunning, stopper, early>>

(* The proxy ends when the context is destroyed.                           *)
Proxy ==
  /\ \/ server = "bound" /\ numListed = NumWorkers /\ server' = "proxy"
     \/ server = "proxy" /\ context = "destroyed" /\ server' = "done"
  /\ UNCHANGED <<context, numListed, worker, amRunning, stopper, early>>

(* A worker looks at its flag between two polls only: a request that it    *)
(* has received is answered.  A callback that raises ends the thread, and  *)
(* so does the use of a context that has been destroyed.                   *)
Receive(w) ==
  /\ worker[w] = "poll" /\ context = "open" /\ server = "proxy"
  /\ worker' = [worker EXCEPT ![w] = "busy"]
  /\ UNCHANGED <<server, context, numListed, amRunning, stopper, early>>

NeverSees(w) == FALSE                                   \* mutant of the next
SeesStop(w) == ~amRunning[w]

Respond(w) ==
  /\ worker[w] = "busy"
  /\ worker' = [worker EXCEPT ![w] =
                  IF context # "open" THEN "dead" ELSE IF SeesStop(w) THEN "finished" ELSE "poll"]
  /\ UNCHANGED <<server, context, numListed, amRunning, stopper, early>>

CallbackRaises(w) ==
  /\ worker[w] = "busy"
  /\ worker' = [worker EXCEPT ![w] = "dead"]
  /\ UNCHANGED <<server, context, numListed, amRunning, stopper, early>>

PollEnds(w) ==
  /\ worker[w] = "poll" /\ (SeesStop(w) \/ context = "destroyed")
  /\ worker' = [worker EXCEPT ![w] = IF SeesStop(w) THEN "finished" ELSE "dead"]
  /\ UNCHANGED <<server, context, numListed, amRunning, stopper, early>>
-------------------------------------------------------------------------------
(* stop goes through the list of workers as it grows; called before the    *)
(* thread has a context, it raises at the end and stops nothing.           *)
Stop ==
  /\ stopper = -1 /\ server # "new"
  /\ stopper' = 0 /\ early' = (server # "proxy")
  /\ UNCHANGED <<server, context, numListed, worker, amRunning>>

InList == stopper \in 0..numListed - 1 /\ context = "open"

StopWorker ==
  /\ InList /\ amRunning[stopper + 1]
  /\ amRunning' = [amRunning EXCEPT ![stopper + 1] = FALSE]
  /\ UNCHANGED <<server, context, numListed, worker, stopper, early>>

StopNext ==
  /\ InList /\ worker[stopper + 1] = "finished"
  /\ stopper' = stopper + 1
  /\ UNCHANGED <<server, context, numListed, worker, amRunning, early>>

Destroy ==
  /\ stopper = numListed /\ context = "open" /\ context' = "destroyed"
  /\ UNCHANGED <<server, numListed, worker, amRunning, stopper, early>>
-------------------------------------------------------------------------------
Init ==
  /\ server = "new" /\ context = "none" /\ numListed = 0
  /\ worker = [w \in Workers |-> "new"] /\ amRunning = [w \in Workers |-> TRUE]
  /\ stopper = -1 /\ early = FALSE

Work(w) == Respond(w) \/ PollEnds(w)
Serve == Run \/ StartWorker \/ Proxy
Stopping == StopWorker \/ StopNext \/ Destroy

Next ==
  \/ Serve \/ Stop \/ Stopping
  \/ \E w \in Workers : Receive(w) \/ Work(w) \/ CallbackRaises(w)

(* Threads run while they can; requests need not come, nor stop be called. *)
Fairness == WF_vars(Serve) /\ WF_vars(Stopping) /\ \A w \in Workers : WF_vars(Work(w))

Spec == Init /\ [][Next]_vars /\ Fairness
-------------------------------------------------------------------------------
(* Once stop is called on a server that runs, the context is destroyed and *)
(* the server's thread ends, and no request that a worker has received is  *)
(* cut off: unless a callback has raised.                                  *)
Raised == context # "destroyed" /\ \E w \in Workers : worker[w] = "dead"
NoneCutOff ==
  context' # context /\ stopper >= 0 /\ ~early =>
    \A w \in Workers : worker[w] = "finished"
Stops ==
  /\ (stopper = 0 /\ ~early) ~> (server = "done" \/ Raised)
  /\ [][NoneCutOff]_vars
===============================================================================
