SPECIFICATION FairSpec
INVARIANTS KeyInTime
PROPERTIES NoOldKey Recovers
CONSTANTS
  Requests = {r1, r2}  Keys = {k1, k2}  NoKey = NoKey  Interval = 2  MaxFetch = 1
