--------------------------------- MODULE Parts --------------------------------
(***************************************************************************)
(* The parts of nmos-common that no other part of it calls while it runs:  *)
(* the servers, the calls between processes, the node's id and address,    *)
(* and the translation of versions (that of queries is added by            *)
(* PartsWithRql).  They share no state, so that a behaviour here is one of *)
(* any one of them, "part", while the others are at rest.                  *)
(***************************************************************************)
EXTENDS FiniteSets, Integers

CONSTANTS
  NumWorkers, Ports, Any, Proxies, MaxCalls, Processes, MaxIds, Types, Removed,
  Versions, Unlisted, OtherKeys, Extra, Links, All, MaxChanges, None, Error

ASSUME PartsAssumption ==
  /\ NumWorkers \in Nat \ {0} /\ {MaxCalls, MaxIds, MaxChanges} \subseteq Nat
  /\ Any \notin Ports /\ {None, All} \cap Links = {} /\ None # All /\ None \notin Nat
  /\ IsFiniteSet(Versions)
  /\ DOMAIN Removed = Versions \X Types

(* Those of DOWNGRADE_MAP are newer than v1.0; and, as the numbers of a    *)
(* version are compared as strings, all are of one digit.                  *)
ASSUME VersionsAssumption ==
  /\ Versions \subseteq ((1..9) \X (0..9)) \ {<<1, 0>>}
  /\ Unlisted \subseteq ((0..9) \X (0..9)) \ ({<<1, 0>>} \cup Versions)

VARIABLES
  part,         \* the part that runs, which never changes
  server, context, numListed, worker, amRunning, stopper, early,
  thread, wanted, port, apiPort, bound, failed, started,
  client, keepRunning, stopped, reachable,
  stop, greenlet, replies, pending, serving, proxy, calls, broken,
  file, process, ids, raced,
  config, link, gateway, changes, HOST, itt, gaveUp,
  obj, target_ver, downgrade_ver

zmq == <<server, context, numListed, worker, amRunning, stopper, early>>
http == <<thread, wanted, port, apiPort, bound, failed, started>>
websocket == <<client, keepRunning, stopped, reachable>>
ipc == <<stop, greenlet, replies, pending, serving, proxy, calls, broken>>
id == <<file, process, ids, raced>>
boot == <<config, link, gateway, changes, HOST, itt, gaveUp>>
versions == <<obj, target_ver, downgrade_ver>>

Zmq == INSTANCE ZmqServer
Http == INSTANCE HttpServer
WebSocket == INSTANCE WebSocketClient
Ipc == INSTANCE IpcHost
Id == INSTANCE NodeId
Boot == INSTANCE Startup
Version == INSTANCE ApiVersions

partsVars == <<part, zmq, http, websocket, ipc, id, boot, versions>>
-------------------------------------------------------------------------------
Parts == {"zmq", "http", "websocket", "ipc", "id", "boot", "versions", "rql"}

(* A part at rest: an HTTP server that has failed, a client that is done,  *)
(* a node without interfaces.                                              *)
NoServer ==
  /\ thread = "done" /\ wanted = Any /\ port = Any /\ apiPort = Any /\ bound = Any
  /\ failed = TRUE /\ started = TRUE
NoClient == client = "done" /\ keepRunning = FALSE /\ stopped = "no" /\ reachable = FALSE
NoInterface ==
  /\ config = None /\ link = [l \in Links |-> "absent"] /\ gateway = None
  /\ changes = 0 /\ HOST = None /\ itt = 0 /\ gaveUp = FALSE
NoResource == obj = None /\ target_ver = None /\ downgrade_ver = None

PartsInit ==
  /\ part \in Parts
  /\ Zmq!Init /\ Ipc!Init /\ Id!Init
  /\ IF part = "http" THEN Http!Init ELSE NoServer
  /\ IF part = "websocket" THEN WebSocket!Init ELSE NoClient
  /\ IF part = "boot" THEN Boot!Init ELSE NoInterface
  /\ IF part = "versions" THEN Version!Init ELSE NoResource

(* A step of part p leaves the others alone.                               *)
Of(p, A) ==
  /\ part = p /\ A
  /\ IF p = "zmq" THEN TRUE ELSE UNCHANGED zmq
  /\ IF p = "http" THEN TRUE ELSE UNCHANGED http
  /\ IF p = "websocket" THEN TRUE ELSE UNCHANGED websocket
  /\ IF p = "ipc" THEN TRUE ELSE UNCHANGED ipc
  /\ IF p = "id" THEN TRUE ELSE UNCHANGED id
  /\ IF p = "boot" THEN TRUE ELSE UNCHANGED boot
  /\ UNCHANGED <<part, versions>>

PartsNext ==
  \/ Of("zmq", Zmq!Next)
  \/ Of("http", Http!Next)
  \/ Of("websocket", WebSocket!Next)
  \/ Of("ipc", Ipc!Next)
  \/ Of("id", Id!Next)
  \/ Of("boot", Boot!Next)

(* The fairness that each module states for its part. *)
PartsFairness ==
  /\ WF_partsVars(\/ Of("zmq", Zmq!Serve) \/ Of("http", Http!Starting)
                  \/ Of("websocket", WebSocket!Thread) \/ Of("ipc", Ipc!Receive \/ Ipc!Serve)
                  \/ Of("boot", Boot!Wait))
  /\ WF_partsVars(Of("zmq", Zmq!Stopping))
  /\ \A w \in 1..NumWorkers : WF_partsVars(Of("zmq", Zmq!Work(w)))
  /\ \A p \in Proxies : WF_partsVars(Of("ipc", Ipc!Return(p) \/ Ipc!TimeOut(p)))
  /\ SF_partsVars(Of("http", Http!Bind /\ thread' # "port"))

PartsSpec == PartsInit /\ [][PartsNext]_partsVars /\ PartsFairness
-------------------------------------------------------------------------------
(* zmqserver.py: a server that is stopped ends, and its workers answer the *)
(* requests that they have received.                                       *)
ZmqStops == Zmq!Stops

(* httpserver.py: whoever waits for the server to start is told, truly.    *)
HttpReports == Http!Reports

(* webSocketClient.py: a client that is stopped ends, and no other does.   *)
ClientStops == WebSocket!Stops

(* ipc.py: a call ends and gets the answer to its own request, and the     *)
(* host goes on serving.                                                   *)
HostServes == Ipc!Serves

(* utils.py: the processes of a node go by one id, or warn that they do    *)
(* not.                                                                    *)
OneId == Id!OneId

(* interfaceController.py and webapi.py: the address is that of an         *)
(* interface that the node has, the one configured, and it is found.       *)
Boots == Boot!Boots

(* utils.py: a resource that is handed on has the keys of its version.     *)
VersionRight == part = "versions" => Version!VersionRight
===============================================================================
