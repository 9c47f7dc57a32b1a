SPECIFICATION FairSpec
INVARIANTS TypeOK LatestWins EachTells
PROPERTIES Settles
\* The greenlet ends after stop() or an exception, and the calls are bounded.
CHECK_DEADLOCK FALSE
CONSTANTS
  dev = dev  src = src
  Types = {"device", "source"}  Services = {dev, src}  Mapping <- MappingMC
  MaxVersion = 2  Base = Base  Withdrawn = Withdrawn
  Failures = {"notfound", "error"}
  MaxCalls = 6  CutIn = 2
