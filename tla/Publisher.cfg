SPECIFICATION FairSpec
INVARIANTS Established NoOrphans ClosesClean
PROPERTIES ImplementsUpdater
\* The greenlet ends after stop() or an exception, and the calls are bounded.
CHECK_DEADLOCK FALSE
CONSTANTS
  dev = dev
  Types = {"device"}  Services = {dev}  Mapping <- MappingMC
  MaxVersion = 2  Base = Base  Withdrawn = Withdrawn
  Failures = {"notfound", "error"}
  MaxCalls = 3  CutIn = 1
  Node = node  Others = {svc}  Interfaces = 2  MaxOps = 3
