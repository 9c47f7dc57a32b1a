------------------------------ MODULE HttpServer ------------------------------
(***************************************************************************)
(* The HttpServer of nmoscommon/httpserver.py: a thread that constructs an *)
(* API and serves it on a port, and an event by which the one who started  *)
(* it waits to hear that it serves or has failed.                          *)
(*                                                                         *)
(* Port 0 asks for any free port: one is found by binding a socket that is *)
(* closed again, and may be taken before the server binds it.              *)
(***************************************************************************)
CONSTANTS
  Ports,        \* the ports there are
  Any           \* port 0

VARIABLES
  thread,       \* where run is: "construct", "port", "bind", "set", "serve", "done"
  wanted,       \* the port that the caller asked for
  port,         \* port of the thread's object
  apiPort,      \* api.port, Any if there is no api
  bound,        \* the port the server listens to, Any if none
  failed,       \* an exception is kept for the caller
  started       \* the event

vars == <<thread, wanted, port, apiPort, bound, failed, started>>
-------------------------------------------------------------------------------
FailsSilently ==                                        \* mutant of the next
  thread' = "done" /\ failed' = TRUE /\ UNCHANGED started
Fails == thread' = "done" /\ failed' = TRUE /\ started' = TRUE

(* The API's constructor may raise. *)
Construct ==
  /\ thread = "construct"
  /\ \/ thread' = "port" /\ UNCHANGED <<failed, started>>
     \/ Fails
  /\ UNCHANGED <<wanted, port, apiPort, bound>>

(* A socket that is to find a free port may fail to.                       *)
PickPort ==
  /\ thread = "port"
  /\ \/ /\ thread' = "bind" /\ UNCHANGED <<failed, started>>
        /\ IF port = Any THEN port' \in Ports ELSE UNCHANGED port
     \/ port = Any /\ Fails /\ UNCHANGED port
  /\ UNCHANGED <<wanted, apiPort, bound>>

(* A port that is in use is the errno 48 of some systems: another port is  *)
(* tried if any will do, and otherwise the exception is kept, as is that   *)
(* of any other errno.                                                     *)
Bind ==
  /\ thread = "bind"
  /\ \/ /\ bound' = port /\ thread' = "set"
        /\ UNCHANGED <<port, apiPort, failed, started>>
     \/ /\ wanted = Any /\ port' = Any /\ thread' = "port"
        /\ UNCHANGED <<apiPort, bound, failed, started>>
     \/ /\ Fails
        /\ apiPort' \in {apiPort, port} /\ UNCHANGED <<port, bound>>
  /\ UNCHANGED wanted

(* The API is told the port, which may raise, and the event is set.        *)
SetStarted ==
  /\ thread = "set" /\ thread' = "serve"
  /\ \/ apiPort' = port /\ UNCHANGED failed
     \/ failed' = TRUE /\ UNCHANGED apiPort
  /\ started' = TRUE
  /\ UNCHANGED <<wanted, port, bound>>

(* serve_forever returns, or raises.                                       *)
ServeEnds ==
  /\ thread = "serve" /\ thread' = "done"
  /\ bound' = Any /\ failed' \in {failed, TRUE}
  /\ UNCHANGED <<wanted, port, apiPort, started>>
-------------------------------------------------------------------------------
Init ==
  /\ thread = "construct" /\ wanted \in Ports \cup {Any} /\ port = wanted
  /\ apiPort = Any /\ bound = Any
  /\ failed = FALSE /\ started = FALSE

Starting == Construct \/ PickPort \/ Bind \/ SetStarted
Next == Starting \/ ServeEnds

(* The thread runs, and a free port is found at last.                      *)
Fairness == WF_vars(Starting) /\ SF_vars(Bind /\ thread' # "port")

Spec == Init /\ [][Next]_vars /\ Fairness
-------------------------------------------------------------------------------
(* Whoever waits for the event is woken; and one that is woken without an  *)
(* exception finds the API told the port that was asked for, and the       *)
(* server at it, for as long as this serves.                               *)
Truthful ==
  started /\ ~failed =>
    /\ thread \in {"serve", "done"}
    /\ apiPort \in Ports /\ wanted \in {Any, apiPort}
    /\ thread = "serve" => bound = apiPort
Reports == <>started /\ []Truthful
===============================================================================
