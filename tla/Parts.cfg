\* Every component's own bounds: three calls of the host, four starts of a
\* process, two changes of the interfaces.
SPECIFICATION Spec
INVARIANTS OneId VersionRight RqlMeans
PROPERTIES ZmqStops HttpReports ClientStops HostServes Boots
CHECK_DEADLOCK FALSE
CONSTANTS
  NumWorkers = 2
  Ports = {p1, p2}
  Any = Any
  Proxies = {x1, x2}
  MaxCalls = 3
  Processes = {n1, n2}
  MaxIds = 4
  Types = {"node", "sender", "device"}
  Removed <- RemovedMC
  Versions <- VersionsMC
  Unlisted <- UnlistedMC
  OtherKeys <- OtherKeysMC
  Extra <- ExtraMC
  Fields = {"a", "b"}
  Numbers = {0, 1}
  Error = Error
  Links = {l1, l2}
  All = All
  MaxChanges = 2
  None = None
