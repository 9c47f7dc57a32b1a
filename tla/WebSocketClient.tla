---------------------------- MODULE WebSocketClient ---------------------------
(***************************************************************************)
(* The WebSocketClient of nmoscommon/webSocketClient.py: a thread that     *)
(* connects again whenever its connection ends, until stop clears a flag   *)
(* and closes the connection.                                              *)
(***************************************************************************)
VARIABLES
  client,       \* "new", "check", "dial", "connected", "done"
  keepRunning,  \* _keep_running
  stopped,      \* "no", or where the thread was when stop was called
  reachable     \* the server answers

vars == <<client, keepRunning, stopped, reachable>>
-------------------------------------------------------------------------------
Run ==
  /\ client = "new" /\ client' = "check"
  /\ keepRunning' = TRUE
  /\ UNCHANGED <<stopped, reachable>>

LoopForever == TRUE                                     \* mutant of the next
GoesOn == keepRunning
Check ==
  /\ client = "check"
  /\ client' = IF GoesOn THEN "dial" ELSE "done"
  /\ UNCHANGED <<keepRunning, stopped, reachable>>

(* run_forever connects, whether or not the app was closed before; it      *)
(* returns when it cannot, or when the connection ends.                    *)
RunForever ==
  /\ client = "dial"
  /\ client' = IF reachable THEN "connected" ELSE "check"
  /\ UNCHANGED <<keepRunning, stopped, reachable>>

ConnectionEnds ==
  /\ client = "connected" /\ client' = "check"
  /\ UNCHANGED <<keepRunning, stopped, reachable>>

Switch == reachable' = ~reachable /\ UNCHANGED <<client, keepRunning, stopped>>

(* A connection that is open is closed: run_forever returns.  Called      *)
(* before the thread runs, stop raises, and run sets the flag again.       *)
Stop ==
  /\ stopped = "no" /\ stopped' = client
  /\ keepRunning' = FALSE
  /\ client' = IF client = "connected" THEN "check" ELSE client
  /\ UNCHANGED reachable
-------------------------------------------------------------------------------
Init ==
  /\ client = "new" /\ keepRunning = FALSE
  /\ stopped = "no" /\ reachable \in BOOLEAN

Thread == Run \/ Check \/ RunForever
Next == Thread \/ ConnectionEnds \/ Switch \/ Stop

Fairness == WF_vars(Thread)
Spec == Init /\ [][Next]_vars /\ Fairness
-------------------------------------------------------------------------------
(* A client that is stopped while it is connected, or between two          *)
(* connections, ends; one that is stopped while it connects ends when the  *)
(* connection does; and it is only the stop that ends it: until then it is *)
(* connected again and again, if the server stays up.                      *)
Stops ==
  /\ (stopped \in {"connected", "check"}) ~> (client = "done")
  /\ (stopped = "dial") ~> (client \in {"connected", "done"})
  /\ <>[](reachable /\ stopped = "no") => []<>(client = "connected")
===============================================================================
