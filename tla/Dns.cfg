SPECIFICATION FairSpec
INVARIANTS TableTells
PROPERTIES Silent Follows
CONSTANTS
  n1 = n1  n2 = n2  v1 = v1  v2 = v2
  Names = {n1, n2}  Values = {v1, v2}  Says <- SaysMC
  None = None  Confused = Confused
  Errors = TRUE  MaxChanges = 2
\* A client may have closed, and the zone be at rest.
CHECK_DEADLOCK FALSE
