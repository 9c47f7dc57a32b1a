# A formal model of nmos-common

TLA+ modules, TLC runs and TLAPS proofs about `nmoscommon`, the library through
which a media node registers itself and its resources, discovers services and
talks to its neighbours.  Paths and line numbers are those of `src/nmoscommon/`.

    tlc -workers 2 -config AggLive.cfg MCAggregator.tla
    tlapm AggregatorProofs.tla

`PROJECT.json` lists the runs, the code behind each definition (`map`), the
mutants each property is shown to catch, the hazards and the findings.

## 1. Inventory

| Component | State | Operations | Status |
|---|---|---|---|
| Aggregator proxy, `aggregator.py` 62-376 | `_registered` (the node, the flag `registered`, the mirror `entities`), `_reg_queue`, `_running`, the registry in use | `register`, `unregister`, `stop`; the greenlets `_heartbeat` and `_process_queue`; `_SEND` with its retries | modelled: `Aggregator` |
| MDNSUpdater, `aggregator.py` 379-462 | the peer-to-peer switch and its failure count, service versions, a queue of TXT records | `inc_P2P_enable_count`, `P2P_enable`, `P2P_disable`, `update_mdns`, `stop`; the greenlet `_modify_mdns` | modelled: `MdnsUpdater` |
| mDNS registration, `mdns/mdnsEngine.py`, `mdnsRegistration*.py`, `mdnsInterface*.py`, `mdnsCallbackHandler.py` | registrations by type and name, each with an info per interface | register, update, unregister, close | modelled: `Publisher` |
| mDNS discovery, `mdns/mdnsListener.py`, `mdnsSubscription*.py` | records by type and name, a timer | the browser's callbacks, the threads that resolve, the hourly collection, close | modelled: `MdnsDiscovery` |
| DNS discovery, `mdns/dns*.py` | services by name, each with a TTL timer | polling, removal, callbacks, close | modelled: `DnsDiscovery` |
| mDNS bridge client, `mdnsbridge.py` | per service type a cache of services | `getHref`, `_updateServices` | modelled: `MdnsBridge` |
| Query client, `query.py` | the address of a query service | the constructor, `_get_query` (three tries), `subscribe_topic` | modelled: `QueryService` |
| Facade proxy, `facade.py` | the Proxy, two flags, resources and controls, a lock | `register_service`, `unregister_service`, `heartbeat_service`, `reregister_all`, the calls that add, update and delete | partly: `Facade` |
| IPC, `ipc.py` | a REQ and a REP socket, a table of methods | `Proxy.invoke_named`; `Host.start`, `stop`, `_run` | partly: `IpcHost`, `Facade` |
| Authorisation, `auth/` | a key shared by all instances, refreshed hourly | the check of a token, the fetch of the key | partly: `AuthKeys` |
| Servers, `zmqserver.py`, `httpserver.py`, `webSocketClient.py`, `InteractiveServer.py` | threads, start and stop flags | start, serve, stop | partly: `ZmqServer`, `HttpServer`, `WebSocketClient` |
| Utilities, `utils.py`, `interfaceController.py`, `nmoscommonconfig.py` | the node id's file, a version map, the interfaces | `get_node_id`, `translate_api_version`, `api_ver_compare`, `get_default_interfaces` | partly: `NodeId`, `ApiVersions`, `Startup` |
| RQL, `rql/` | none | parse, translate to MongoDB | partly: `RqlMongo` |
| Web API, `webapi.py`, `flask_cors.py` | routes, web sockets | wait for an address, decorate views, choose a media type | partly: the wait, in `Startup` |
| Loggers, JSON, time: `logger.py`, `json.py`, `timestamp.py`, `ptptime.py` | none to speak of | wrappers of libraries | not modelled |

### How they interact

    client -> Aggregator ----- HTTP -----> Registration API
                 |   \---> getHref ------> mDNS bridge process
                 v
             MDNSUpdater ---> mDNS engine ---> registrations, interfaces ---> peers
    client -> Facade --- Proxy, REQ/REP --> Host in the facade process
    client -> QueryService ---> getHref, HTTP, WebSocket
    request -> AuthMiddleware ---> getHref, HTTP (metadata, keys)
    zeroconf / DNS timers ---> listeners ---> callbacks of the client

The Aggregator counts each failed request at the MDNSUpdater
(`inc_P2P_enable_count`, called by the constructors of its exceptions, 35-59) and
switches peer-to-peer discovery off when a registration succeeds.  Its three
parties, the client and the two greenlets, share the mirror, the queue and the
registry's address without locks; they switch only where one waits for the
network.  The Facade is used by a heartbeat and a client thread; its lock covers
single calls.  All getHref callers of one bridge object share its cache.  The
listeners' and timers' threads share the records, tables and the client's
callback; the requests of an application share one key.

### What is hard, and what makes each part correct

* Aggregator: re-registration drains the queue, waits for the network and requeues
  the mirror while the client goes on.  Correct: nothing of the mirror is lost
  (`MirrorCovered`), parents go first (`KeepsResources`), what is left at the
  end is exactly the mirror (`InSync`), the registry comes to hold it
  (`Converges`), the greenlets survive every failure (`NodeRegisters`), end after
  `stop` (`Stops`) and fall back to peer-to-peer (`PeerToPeer`).
* MDNSUpdater: records queued by three parties and advertised later must end with
  the one of now (`LatestWins`, `Settles`), and each must differ from the one
  before (`EachTells`), the wrap at 255 included.
* Registrations: an update goes over several interfaces, waits at each and may fail
  at any.  Correct: what peers see on all interfaces is what MDNSUpdater alone
  would show (`ImplementsUpdater`), what a client was told is what is
  advertised (`Established`), nothing is advertised that cannot be withdrawn
  (`NoOrphans`), and close stumbles only over registrations that failed (`ClosesClean`).
* mDNS and DNS discovery: threads tell one client of one service.  Correct: the client
  knows what the table holds (`TableTells`), follows the network (`Follows`),
  is put right by the hourly collection (`Heals`) and hears no more of what was at rest
  when it was closed (`Silent`).
* Bridge and query client: failover must move on (`NoneTwice`), reach every service
  and forget those that went (`CallersServed`), respect the boundaries of the
  priorities (`Allowed`), and not starve a client that shares the cache (`QueryRecovers`).
* Facade: two flags must tell whether everything is registered (`FlagTells`), and
  what was lost must come back (`Restored`, `Known`).
* Authorisation: a key that the server has replaced is used for an hour at most although
  requests refresh it concurrently (`KeyInTime`, `NoOldKey`), and good tokens
  are accepted in the end (`Recovers`).
* Servers and IPC: `started` is set whatever happens, and truly (`HttpReports`);
  `stop` returns and cuts no request off (`ZmqStops`, `ClientStops`); a late
  answer is not taken for that of the next call (`HostServes`).
* Utilities: one id for all processes that have not warned otherwise (`OneId`), a downgrade that stops at the target
  (`VersionRight`), an address that the node has (`Boots`).
* RQL: the translated query selects what the query says (`RqlMeans`).

## 2. Plan

Done, in this order: the Aggregator with its switch, the MDNSUpdater, the bridge, the
Facade; then the registrations and the
refinement that has the MDNSUpdater as its abstract specification, the two kinds of
discovery, the query client over the bridge, the keys, and the small parts; the
proofs of section 5, one module per component and one, `PartsProofs`, for the keys
and the small parts.

Left, most useful first:

1. The Aggregator's calls of the switch composed with the MDNSUpdater (both have
   `P2PCount`; what the calls do to either is in its module).
2. The rest of the Facade (clocks, a flow's transports) and of IPC, if a property is found that needs them.

## 3. The modules and the code

### Aggregator (with P2PCount)

An action runs from one wait for the network to the next, since gevent switches
nowhere else.  `pc` says which request a greenlet is making (heartbeat: `beat`,
`clear`, `post`, `confirm` of `_process_reregister`; queue: `node`, `nodebeat`,
`res`, `delete`) and `call` where it is in `_SEND`: waiting for the bridge
(`resolve`), for the registry (`request`) or for the answer (`answered`).
`Wake` and `Take` start a round of each greenlet; `Take` drops in one step the entries
that are no longer mirrored, since taking from a queue that is not empty does not
wait.  `Resolve` picks a registry,
`Serve` is the registry, `Deliver` is the rest of `_SEND` together with all that
the caller does up to its next wait (`BeatDone`, `ClearDone`, `PostDone`,
`ConfirmDone`, `NodeDone`, `NodeBeatDone`, `ResourceDone`, `DeleteDone`).
`Register`, `Unregister`, `RegisterNode`, `UnregisterNode` and `Stop` are the
client's calls.  `GivesUp` and `Attempt` are the three tries and the switch of
registry, `Raised` the count of failures, `IsClientError` the test
`(R.status_code/100) == 4` of line 359, which divides truly on Python 3
(`TrueDivision`).

The environment is a registry that deletes a node with its resources, refuses
resources whose node or parent it does not know, and may restart (`Forget`); a
network that fails, refuses, loses an answer, times out and delivers late;
a success whose body does not parse (`Garble`, which leaves `_SEND` as no other fault does);
a bridge that names no registry; and an outage for good.  `Faults` selects
them and `MaxFaults` bounds them.  `Leftover` is what an earlier process of the
node may have left in the registry.  `Hasty = FALSE` is a client that waits for
its node's registration, and that registers a resource again below a parent only when
the parent's DELETE has left the queue.  Contents are values of `Data`, `BadData` one the
registry refuses; ids, URLs and JSON are not modelled.

### MdnsUpdater

The queue holds whole TXT records, as the code's does: `Base`, or the versions.
`IncP2PEnableCount`, `P2PEnable`, `P2PDisable`, `UpdateMdns` and `Stop` are the
methods; `_modify_mdns` is `Withdraw` (the record is taken and the service
unregistered), a second later `Advertise`; `NotFound` is the exception that the
loop catches and `Die` any other, which ends the greenlet.  `EngineClose` is the
owner's, after `stop`.  Peers see `published`.  The constructor's `p2p_enable` is either
value (`InitSwitch`), here and in the Aggregator; the record registered first is `Base`
all the same (400), and `failed` starts out TRUE where the mode asks for another:
`LatestWins` and `Settles` then hold from the next record on.

### Publisher

The engine between the updater and the peers.  `table` is the registration
controller's, `info` the infos a registration has, `adv` what each interface
advertises under each name.  Each interface is a step: `UpdateStep` of the updater's
greenlet, which first withdraws from all interfaces and then registers on all
(`MDNSRegistration.update`), and `ClientStep` of another client's `Register` and
`Unregister`.  At each step the interface may raise, which ends the greenlet or
reaches the client; a registration is in the table before it is registered
(line 33 of the controller), and `NoInfo` is the KeyError of one that never got
to an interface.  `dotted` names are stored with dashes and not found again.
`Close` withdraws what the table holds, in its order, then closes the interfaces.

The refinement is `U == INSTANCE MdnsUpdater WITH published <- Published, thread <- ...`:
the record that the abstract module calls published is the one that all interfaces
agree on, and its `update` is any of the steps of an update.  The updater's calls are
used from that module (`U!Call`), so both have the same queue.  Bounds and faults
are its constants too.  A call of an interface that raises is taken to have no
effect there; the engine is closed once.

### MdnsDiscovery

The browser's thread has `AddService`, `RemoveService` and, the record taken and the
client not told yet, `Removed`; a thread of the listener has `GetServiceInfo`,
`Apply` and `RespondToClient`, between which the others run.  `Collect` starts a
thread for each record.  `browser = "dead"` and `collector = "dead"` are the
exceptions of the two pops (60, 82).  `disturbed` is a history: the services
that two threads worked on at once, or that did not answer; the mixed-up client of such a
service is real, and `Heals` says when it is put right.

### DnsDiscovery

`Check`, `Visit`, `Enter` and `Schedule` are the controller's callback, `Expire`, `LookUp`,
`Announce` and `Pop` that of a service's timer, `Close`, `CloseService` and
`CloseEnds` the client's close.  `Visit` makes the lookups for a pointer record, and `Enter`
asks the table when they have come back (`looked` is what they found).  A lookup finds the
record, NXDOMAIN, or fails; failures kill the poll or the watch, as the exceptions do.
`Schedule` may raise as it takes the least TTL of a table that another thread pops from.
Cancelling a timer does not stop its callback: `atRest` are the services of which none
was under way when close came to them, and those unknown to the client when it returned,
unless the poll was under way; `Silent` is about these, whatever the other
callbacks go on to do.  What a lookup that fails halfway has read (dnsService.py 50-72) is not
in `record`, since nothing is announced of it.  A TTL is taken to be longer than a call of
the client.  In `MCDnsDiscovery` one service's records change and the other's come and go (`Says`).

### MdnsBridge and QueryService

One service type; `priority` is a constant choice per behaviour.  `GetHref` either
answers from the cache or waits for the bridge process; `Update` and
`UpdateFails` are the end of that wait, with the choice among the cache of
then; one that fails leaves the cache as it was, or, where the answer cannot be read to the
end, with a part of what it says (121 empties it before 122).  No caller in `src/` passes
getHref a priority of its own (46-48), so all have the configured one.  `Pri`, `Suits` and `Mode` stand for the advertised priority, the match of
version and protocol, and `https_mode`.  The host and port in an answer are the
service itself.

`QueryService` extends the bridge with clients of it, whose getHref calls are the
bridge's own actions: the constructor (20 more tries at a link-local address),
`GetQuery` with `Request` (three tries, each at another answer, the last one kept as
`_query_url`) and `SubscribeTopic`.  A behaviour has the clients, or the bridge's
plain callers: a caller that always asks again can starve a client (section 6).

### Facade

Threads `hb` and `cl`.  `pc` is the routine of facade.py a thread is in, `phase`
how far its call is: `setup` (it waits for the lock to create a Proxy), `lock`,
`asked`, `back`.  `Setup` and `Ask` take the lock, `Serve` and `Timeout` end the
request, `Resume` is what the routine does with the outcome up to its next
call (`HeartbeatBack`, `UnregisterBack`, `RegisterBack`, `LoopBack`, `ServiceBack`,
`WithdrawBack`, `CallBack`).  The two loops of `reregister_all` raise when their dictionary
changes size (`Interrupted`); a control's contents are read before the wait for
the lock and a resource's after it.  One type of resource and one device are
modelled.  A fault is a restart of the facade process, a lost call of the client
or of a heartbeat or unregistration (`timeout`), or a lost call of the rest of
`reregister_all` (`midway`); what is lost may have been served.  `world` is one of two
worlds: a careful client without `midway`, and a hasty one, which does not keep its
calls and the heartbeats apart, with every fault.

### AuthKeys

Time passes in ticks that a fetch can span.  `Ask` is the check of a request's
credentials with the decision to refresh, `GetUrl`, `GetMetadata`, `GetJwks` the
three requests of a fetch, `Store` the assignment to the class and the verdict.
`Rotate` and `Switch` are the server's and the bridge's.  `class` is the
middleware or the older decorator, which share the design; a token is the key that
signed it.  `retired` measures how long ago the server last used a key.

### Parts: ZmqServer, HttpServer, WebSocketClient, IpcHost, NodeId, Startup, ApiVersions, RqlMongo

Eight small modules that share no state.  `Parts` instantiates the first seven and
`PartsWithRql` adds `RqlMongo`, so that `Parts`, which is proved about, reaches no
RECURSIVE operator.  `part` is chosen at the start and only that part moves, so one
run (of `MCParts`, over `PartsWithRql`) checks them as so many separate state spaces;
a behaviour of `PartsWithRql` is one of `Parts` with a query that never changes.

* `ZmqServer`: the server's thread, the workers, and `stop` walking the list of
  workers as it grows.
* `HttpServer`: the port that is found free, given back and taken again; the event; a
  failure at any step, and a server that returns.
* `WebSocketClient`: `run`'s loop and a `stop` at any point of it.
* `IpcHost`: one request at a time on the reply socket; what each kind of request
  does to the greenlet; a Proxy's timeout with the answer still coming.
* `NodeId`: the file between open and write, processes that start and crash, and a failure
  to open, read or write it, which the process warns of as it goes by an id of its own
  (`Warn`).  `raced`: a process opened the file to write it although another had made it
  since this one looked.
* `Startup`: `get_default_interfaces` as it tries one source after the other, and webapi's wait.
* `ApiVersions`: a resource is a set of keys; `Reached` is the loop over versions,
  `AsStrings` the comparison of version numbers as strings, `Raises` the KeyError of
  the loop at a version that DOWNGRADE_MAP does not have (`Unlisted`, and v1.0).
* `RqlMongo`: parser and translation as functions, compared with `Means` over all
  documents.  It uses RECURSIVE operators and is out of the proofs' reach.

## 4. The runs

`MCAggregator` has a device and a sender that refers to it: the smallest set with an
order to keep.  One database suffices for what the mirror promises; a second one
(failover) breaks `Converges`, see section 6.

| Run | Shows | Bounds |
|---|---|---|
| `agg_order` | `InSync`, `KeepsResources` with a client that waits (`Hasty = FALSE`) and no fault, whatever is left of an earlier process | 4 calls: both resources come, change and go |
| `agg_live` | `MirrorCovered`, `Converges` under two faults (failure, refusal, lost answer, restart, no registry found), contents that are refused included | 2 calls; the second fault hits the recovery from the first; `CutIn = 1` |
| `agg_stop` | `TypeOK`, `NodeRegisters`, `PeerToPeer`, `Stops` under all faults, the outage included | one resource, two faults; in an outage failures are free, so that all three tries and the cut-in (2) are reached |
| `agg_python3` | violates `NodeRegisters`: line 359 on Python 3 | no fault, no call |
| `updater` | `TypeOK`, `LatestWins`, `EachTells`, `Settles` | 6 calls, cut-in 2, versions that wrap after 2: on, three changes with a wrap, off; either value of `p2p_enable` at first |
| `publisher` | `ImplementsUpdater`, `Established`, `NoOrphans`, `ClosesClean` with interfaces that raise | 2 interfaces, 3 calls of the updater, 3 of a client: its service comes, goes and comes again |
| `mdns` | `TableTells`, `Heals`, `Follows` with lost answers | 2 services, 2 threads, 2 values, 2 changes: a service goes and returns while a thread resolves it |
| `dns` | `TableTells`, `Silent`, `Follows` with lookups that fail and a close at any time | 2 services, 2 values of the one and 1 of the other, 2 changes |
| `bridge` | `Allowed`, `NoneTwice`, `CallersServed`, `QueryRecovers` | 2 callers or 2 query clients, 4 services: priorities 0, 99 and 100, one of an older version and link-local, one of the other protocol; priority set to 99 or 100; 1 change, 1 failed refill |
| `facade` | `FlagTells`, `Restored`, `Known` with restarts and lost calls, in both worlds | 2 faults; 3 calls of the careful client, 2 of the hasty one: changes of one resource and one control, or `unregister_service` |
| `auth` | `KeyInTime`, `NoOldKey`, `Recovers` | 2 requests at once, 2 keys, an interval of 2 ticks and a fetch of 1, so that a key can be retired before, during and after a fetch |
| `parts` | `ZmqStops`, `HttpReports`, `ClientStops`, `HostServes`, `OneId`, `Boots`, `VersionRight`, `RqlMeans` | 2 workers, 2 ports, 3 calls of 2 proxies, 4 starts of 2 processes, 2 interfaces with 2 changes; versions to v1.3 and some that are not listed; queries of two fields, two values and two levels |

`Updater.cfg`, `Publisher.cfg`, `Dns.cfg`, `Mdns.cfg` and `Parts.cfg` switch off the
deadlock check: a greenlet that has ended, a client that has closed, a network or a
part at rest are proper ends there.  `Aggregator` has a step for its end.

### Fairness

* Aggregator: a greenlet that can run does (gevent's loop has nothing else to
  wait for), a request is answered or, without a registry, fails (requests has a
  timeout).  Faults and the client owe nothing; no fairness is assumed on late delivery.
* MdnsUpdater, Publisher: `_modify_mdns` polls every 0.2 s, and an interface returns or raises.
* MdnsDiscovery, DnsDiscovery: each thread and timer runs while it can; the network
  and the client's close owe nothing.
* MdnsBridge, QueryService: callers ask again, as those whose requests fail do
  (`_SEND`, 328; `query.py` 74), and a request to the bridge process ends (timeout 0.5 s).
* Facade: heartbeats recur, calls end (100 ms), a facade that has gone comes back.
  A thread that keeps waiting for the lock comes to have it (strong fairness):
  the lock is free between heartbeats, which are seconds apart.
* AuthKeys: time passes and a thread serves its request (its fetches have timeouts).
* Parts: each thread runs while it can.  `HttpServer` assumes that a port found
  free can be bound at last (strong fairness), as nothing else bounds its tries.

## 5. The proofs

TLAPS proves, for every value of the constants that satisfies the named ASSUMEs:

* `AggregatorProofs!TypeCorrect`: `Spec => []TypeOK`, in particular that no request
  is tried a fourth time or sent without a registry.
* `AggregatorProofs!MirrorAlwaysCovered`: `Restrictions` implies
  `Spec => []MirrorCovered`.  The restrictions: one database, a node registered at
  most once, no late delivery; section 6 says what happens without them.  `MirrorCovered` is not
  inductive, so the proof is of
  `IInv == TypeOK /\ Control /\ NodeOnce /\ MirrorCovered`.  `Control` ties `pc` to
  the phase of `_SEND` and to the request under way.  `NodeOnce` says that a node
  registered once is posted only by the heartbeat, as its queued POST is drained
  before `registered` is set: no other greenlet sets the flag between the
  clearing of the registry and the requeueing, which would leave the mirror
  uncovered.  The step lemma has a case per action; the case
  that matters, `ConfirmDone`, shows that requeueing covers each entry, and those of the queue greenlet that
  an entry leaves the queue only for `InFlight` or `Stored`.
* `AggregatorProofs!ResourcesAlwaysKept` and `AlwaysInSync`: `Restrictions` and
  `Undisturbed` imply `Spec => KeepsResources` and `Spec => []InSync`.  `Undisturbed`
  is the world of `agg_order`: no fault, a client that waits, no contents that the
  registry refuses, and a registration order that puts parents first.  The number
  of resources, contents and calls is arbitrary, and so are what an earlier process left and
  the division of line 359.  Neither property is inductive; the proof is
  of `OInv == IInv /\ Orderly`.  Its parts hold in the states where the
  code relies on them: `Waiting` until the client unregisters its node (parents of what is mirrored
  are mirrored, nothing is sent before the registration), `NodeKept` while it has one
  (what `_process_reregister` cleared stays clear until it requeues), and `Flowing`
  once it is registered.  `Flowing` is about the queue as a whole: a queued POST comes before any
  DELETE of its parent, and behind the parent's POST unless the registry has the parent
  (`QueueOrdered`); so no POST is refused (`Accepted`), which is `KeepsResources`, and
  what is not mirrored is gone or has its DELETE queued (`NoneLeft`), which with
  `MirrorCovered` is `InSync`.  TLC checked `OInv` with 5 calls before it was proved.
* `MdnsUpdaterProofs`: `UpdaterTypeCorrect`, `LatestAlwaysWins`, `EachAlwaysTells`.
  The argument: a call leaves the queue and the expected record alone or
  queues the new expected one, which differs (`CallsQueueExpected`); so the last record shown
  is the expected one (`LastShown`) and appending keeps neighbours distinct.
* `PublisherProofs!UpdaterImplemented`: the Publisher implements MdnsUpdater, for any
  number of interfaces: initial states map to initial states, every step to a step or
  a stutter.  The invariant `PInv` says that during an update the interfaces up to the
  one at work have the new record (or nothing) and the others nothing (or the old one),
  so that one interface without the record hides the rest (`Hidden`), and the
  abstract record changes exactly when the first interface is withdrawn and the
  last is registered.  The abstract module's fairness is not part of the theorem.
* `PublisherProofs!UpdaterRightOverEngine` carries the safety of MdnsUpdater over to the
  Publisher: MdnsUpdaterProofs is instantiated under the same mapping, its assumptions being
  `SameAssumption`.  `AlwaysTogether` needs it: between updates every interface has the
  same record of the node unless an update or the registration failed.  `Together` is
  not a property of a run; TLC found it kept with the bounds of `publisher`.  Its
  invariant is `Seen` (between updates peers see some record), with `EInv`; that the
  record is one of the updater's is the carried-over type invariant.
* `PublisherProofs`: `EstablishedIsAdvertised`, `NeverOrphans`, `AlwaysClosesClean`.
  The strengthening `EInv` describes each service's row until the engine closes: a
  registration at work has its record and its info on the interfaces passed, a
  withdrawal nothing on them and no entry in the table (`Kept`); an entry that lacks
  an info was told to have failed (`Whole`); what is advertised has an entry, is at work
  or was lost (`Owned`).  The updater's greenlet touches the node's row only, and has
  ended when the engine closes (`Shut`).  These and `UpdaterImplemented` take interfaces
  that may raise (`"notfound"` and `"error"` in `Failures`), as the code's may.
* `MdnsBridgeProofs`: `BridgeTypeCorrect`, `AlwaysAllowed`, `NeverTwice`, each
  inductive with the types; `CandidatesAllowed` has the arithmetic of the priorities.
  `BridgeImplemented`: the query clients over the bridge implement it, each step of theirs
  being a step of the bridge or a stutter, so that `SharedBridgeSafe` carries those
  results over to them; `RequestsAlwaysSound` says what follows for `query.py`: no request
  goes to a service that mode and priority exclude, and no call makes a fourth.
* `FacadeProofs`: `FacadeTypeCorrect`, `FlagAlwaysTells`.  The invariant is
  `FInv == Base /\ (Careful => Watchful)`.  `Base` holds for every client: each thread's request
  is one its routine makes, and the client sends what the proxy has.
  `Watchful` says where an entry may differ between proxy and facade: in
  the loops of `reregister_all` it is one that they have yet to see through (`Looping`);
  elsewhere the client is telling the facade of it, or the flag is set or about to be (`Settled`).
* `PartsProofs`, of the keys: `AuthTypeCorrect`, `KeysInTime`, `NoOldKeyAccepted`.  `KeyInTime` is
  inductive once a fetch is known to have begun no longer ago than its age and to hold
  a key (`Got`): the key's two clocks, since its refresh and since its retirement,
  go on together, and a store sets the first to zero when the second is at most
  MaxFetch.  `NoOldKey` follows from it at the two steps that accept.
* `PartsProofs!AllGoByOneId` (`OneId`): whatever crashes or fails, each process goes by the
  file's id or has warned, unless `raced`.  The invariant `IdInv` is that before a race at most
  one process has the file open to write, and nobody has an id of it then (`Writing`), and that
  whoever is done without a warning goes by the file's (`Goes`): so a write that completes, or
  reaches the file in part, contradicts nobody, and an empty file makes all others warn.
* `PartsProofs!ExactVersion` (`VersionRight`), for any versions that satisfy
  `VersionsAssumption`, listed or not: one digit, which is where the comparison as strings is that
  of numbers (`Compared`; v1.10 would come before v1.2), and above v1.0.  Every
  version has its place in `version_list`: the numbers of older versions are distinct, and
  as many as places (`RankOnto`).  The loop `Reached` is shown equal to a closed form:
  that solves its equation, and two solutions could not differ at a least place
  (`ReachedIs`), which needs no induction theorem with an operator parameter.  So what is
  left behind is what is newer than the target and not newer than the resource
  (`Translated`).
* `PartsProofs`, the safety halves of the other parts' properties, over `Parts`:
  `AnswersOwn` (`IpcInv`: of the requests that wait or are served at most one came
  through the socket a proxy has now, that of the call it waits for; and the host polls
  only when its socket may receive), `NeverCutOff` (`ZmqInv`: the workers that `stop`
  has passed have finished), `AlwaysTruthful` (`HttpInv`), `OnlyStopEnds`
  (`ClientInv`), and `AddressChosen` (from what each source of interfaces gives).
  TLC checked these invariants with the bounds of `parts`.
* `DnsDiscoveryProofs`: `DnsTypeCorrect`, `TableAlwaysTells`.  The strengthening is
  that, until close comes to it, a service is in the table exactly if it has a timer, and then
  has a record (`Fine`): so a poll never adds what a timer's callback is about to announce or to pop.
* `DnsDiscoveryProofs!AlwaysSilent`: a service that was at rest when close came to it has no
  timer that could call back, stays in the table, so that the poll does not enter it again, and
  has been withdrawn from the client (`Parted`).
* `MdnsDiscoveryProofs!TableAlwaysTells`.  The strengthening is that at most one
  thread, the browser's included, works on a service that is not disturbed, and that in the middle
  of its work the client and the records differ exactly by what it is about to tell.

Only model-checked: all liveness (out of TLAPS's reach with its fairness, as is
ENABLED), which includes the liveness halves of `ImplementsUpdater`, `ZmqStops`,
`HttpReports`, `ClientStops`, `HostServes` and `Boots`; and `RqlMeans`, which is about
recursion over data in RECURSIVE operators.  No module that is proved about reaches one.

## 6. What was found

Shown by a violation run (`findings` quotes the code):

* On Python 3 line 359 classes only 400 as a client error; the 404 of the clearing
  DELETE is retried and the node never registered (`agg_python3`).

Met while choosing the settings of the passing runs, which exclude them; each
shows up as soon as the setting is widened.  Registration:

* A resource registered while the node is re-registered may overtake its parent,
  is refused and dropped from the mirror (281, 165; `agg_order` with `Hasty`).
* A resource and its parent that are unregistered and registered again while their
  DELETEs are queued: the child's old POST is sent with its new contents, before the
  parent's new POST, is refused, and line 165 drops the resource (`agg_order` with 7
  calls and without the last guard of `Register`).  The proof of `KeepsResources` came upon it.
* A node unregistered and registered again before the heartbeat notices is
  registered without its resources (151; `agg_live` with `MaxNodeRegs = 2`).
* A registry that restarts refuses the next POST, and line 165 drops the resource
  from the mirror (`agg_order` with the fault `forget`).
* Line 165 drops by key: the refusal of old contents deletes newer ones (`agg_order` with `BadData`).
* After a failover and back, a heartbeat may find a stale registration and nothing
  is sent again (`agg_live` with two databases).
* A DELETE served after its timeout removes a resource registered again since
  (`agg_live` with `late`).
* `aggregator.py` imports `.mdnsExceptions` (27), which is `mdns/mdnsExceptions.py`: at this
  commit the module cannot be imported as it stands.  The model is of its code.
* With `p2p_enable = True` the node is first advertised with the plain record (400), until
  something is queued.
* `stop` right after unregistering a node whose registration the heartbeat has
  given up ends the queue greenlet with the DELETE queued.
* A call lost in `reregister_all` leaves the rest unregistered for good, with both flags
  set (facade.py 140; the comments at 41 and 113 promise otherwise).
* With a client that changes entries during `reregister_all` the RuntimeError of the
  loop has the effect of a lost call, and a control read before the lock overwrites a newer one.
  One that calls `unregister_service` in that time, and loses the call, interrupts it the
  same way.  An `unregister_service` is in any case undone by the next heartbeat.
* A registration that failed stays in the table: its name is taken, and the engine's
  close stumbles over it.  A name with a dot is stored with a dash and not found
  again by update or unregister (mdnsRegistration.py 28).

Discovery:

* At a priority of 100 or more the bridge's answer never leaves the cache, so a
  service that has gone is answered for ever; recovery is stated below 100.
* A caller that keeps asking the bridge may starve a query client of the working service.
* A service removed while a thread resolves it stays in the records till the collection.
  The pop of a service that was never resolved raises in the browser's thread, and a
  collection before any record was the last one (mdnsListener.py 60, 82).
* A record that goes during a poll ends all polling (dnsServiceController.py 79), and a
  callback under way survives close: it goes on to announce its service and to set its
  timer again (dnsService.py 88-92).  The TTL timer runs once per TTL, where the comment
  has twice (dnsService.py 19, 95).

The rest:

* AuthMiddleware's handling of web sockets leaves out the argument `req` (222, 229),
  and refuses them all; the fallback to a certificate file in `nmos_auth.py` is unreachable.
* On Python 3 zmqserver.py sends `str` where pyzmq wants bytes (90, 93): each worker ends with
  its first request, as with a callback that raises, and `stop` then waits for ever.
* Two processes that look for the node id's file before there is one both write it, and may go by
  different ids unawares (utils.py 56-62).  A crash or failed write leaves the file
  empty, and every process after it warns and goes by an id of its own.
* A restarted IPC host polls a closed socket; a request that is no JSON ends its greenlet (86).
* webapi waits for ever where no interface has an address, as only attempts that raise
  are counted (142, against the comment at 139-141).  A configured interface without IPv4 is
  silently replaced.
* `sorted(cmp=...)` of MostAcceptableType does not exist on Python 3; versions compare
  as strings, so v1.10 is older than v1.9.
* RQL: `le` and `ge` are parsed and not translated; `not` is wrong over `eq`, `and` and
  `or`; redundant parentheses leave a raw list; `and(and(a=1,b=2),a=3)` merges and drops a
  condition (mongodb.py 73, against the docstring at 65-70).

## 7. Not modelled

* Facade: clocks, a flow's transports, the queries
  `get_node_self` and `get_reg_status`.  Clocks and transports are passed through and not mirrored.
* IPC: the decorator that fills the table of methods, the deprecated `Socket`.
* Authorisation: the claims of a token (`claims_validator.py` compares patterns of a
  decoded token), requests that need no token, and the JWT library.
* Servers: `InteractiveServer.py`, a console for tests.
* Utilities: `nmoscommonconfig.py` reads a file; the routing rules of ipp-utils are another package's.
* RQL: the characters of a query, and the conversion of values and dates.
* Web API: Flask decoration, media types and layout of responses, and `flask_cors.py`: no
  state that steps of two parties share but a table of sockets that one event loop uses.
* Loggers, JSON and time: wrappers of libraries without state of their own.
* mDNS and DNS discovery run side by side and do not meet but in the client's callback;
  each is modelled by itself.  An engine that is started again after its close is left out.
